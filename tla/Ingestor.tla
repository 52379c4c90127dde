------------------------------ MODULE Ingestor ------------------------------
(* The client of PlayoutTranscode, the service that owns the library of      *)
(* assets (src-tauri/src/ingestor_api.rs): commands that send one HTTP       *)
(* request, commands that walk several routes of two API generations, the    *)
(* heartbeat, and the flag that tells the operator of a refused token.       *)
(*                                                                           *)
(* The service is external and modelled by the answers it may give: it keeps *)
(* its assets in a registry, answers 401 to a wrong token on every route but *)
(* health, 404 for what it does not have, 422 for what it refuses and 428 to *)
(* a destructive request that is not confirmed. A request or its answer may  *)
(* get lost. What a command writes into an asset other than where the asset  *)
(* is (names, ratings, trims, colours) is not told apart here.               *)
EXTENDS Integers, Sequences, FiniteSets

CONSTANTS MaxAtOnce,   \* calls that can be in progress at a time
          MaxAssets,   \* assets the registry can come to hold
          AtFirst,     \* assets it holds at first
          PageSize,    \* LIST_PAGE_SIZE
          MaxPages,    \* LIST_MAX_PAGES
          Limits,      \* page sizes a service may apply instead of PageSize
          MaxCalls,    \* bound: commands issued
          MaxLosses,   \* bound: requests or answers lost
          MaxChanges,  \* bound: times the service goes down or the token changes
          Windows      \* races left open, see the README
ASSUME IngestorAssumption ==
  /\ MaxAtOnce \in Nat /\ MaxAssets \in Nat /\ AtFirst \in Nat /\ MaxPages \in Nat \ {0}
  /\ PageSize \in Nat /\ Limits \subseteq Nat \ {0}
  /\ MaxCalls \in Nat /\ MaxLosses \in Nat /\ MaxChanges \in Nat /\ Windows \subseteq {"removed"}

VARIABLES registry,      \* place of every asset: "list", "bin" or "none"
          service,       \* [up, generation, limit] of the service
          accepted,      \* whether the service accepts PlayOut's token
          call,          \* per slot, the command and the request under way
          authRejected,  \* AUTH_REJECTED
          judged,        \* whether authRejected comes of an answer to the present token
          shown,         \* the last heartbeat event
          left           \* what remains of the bounds

vars == <<registry, service, accepted, call, authRejected, judged, shown, left>>

Slots == 1..MaxAtOnce
Ids == 1..MaxAssets
Listed == {a \in Ids : registry[a] = "list"}
Free == {a \in Ids : registry[a] = "none"}

-----------------------------------------------------------------------------
(* The commands: the routes a command tries, one after the other, whether    *)
(* its input passes the client's own checks, whether it carries the          *)
(* confirmation header and whether it needs the body of the answer. Asset 0  *)
(* stands for input that does not pass: an id that is no UUID, a negative    *)
(* trim, an empty name, a folder that is no path. The edits of what an asset *)
(* is labelled with (trim, rating, TP, name, folder) are one kind of edit,   *)
(* and so are the reads of a single route.                                   *)

Command(op, a, routes, valid, confirmed, needsBody) ==
  [op |-> op, a |-> a, routes |-> routes, valid |-> valid, confirmed |-> confirmed,
   needsBody |-> needsBody]
Edit(op, a, valid) == Command(op, a, <<op>>, valid, FALSE, FALSE)
Destroy(op, a, valid) == Command(op, a, <<op>>, valid, TRUE, FALSE)
Read(op, a, routes, valid) == Command(op, a, routes, valid, FALSE, TRUE)

CheckIngestorHealth == {Command("health", 0, <<"v2/health", "health">>, TRUE, FALSE, FALSE)}
ListIngestorAssets == {Read("list", 0, <<"v2/assets", "assets">>, TRUE)}
ResolveIngestorAsset == {Read("resolve", a, <<"v2/asset", "asset">>, a # 0) : a \in 0..MaxAssets}
ResolveIngestorAssetsBatch == {Read("read", 0, <<"read">>, ok) : ok \in BOOLEAN}
UpdateIngestorTrim == {Edit("label", a, a # 0) : a \in 0..MaxAssets}
UpdateIngestorRating == {Edit("label", a, a # 0) : a \in 0..MaxAssets}
UpdateIngestorTp == {Edit("label", a, a # 0) : a \in 0..MaxAssets}
MoveIngestorAsset == {Edit("label", a, a # 0) : a \in 0..MaxAssets}
RenameIngestorAsset == {Edit("label", a, a # 0) : a \in 0..MaxAssets}
CreateIngestorSubclip == {Read("subclip", a, <<"subclip">>, a # 0) : a \in 0..MaxAssets}
TrashIngestorAsset == {Edit("trash", a, a # 0) : a \in 0..MaxAssets}
RestoreIngestorAsset == {Edit("restore", a, a # 0) : a \in 0..MaxAssets}
PurgeIngestorAsset == {Destroy("purge", a, a # 0) : a \in 0..MaxAssets}
TrashIngestorFolder == {Destroy("trashAll", 0, ok) : ok \in BOOLEAN}
RestoreIngestorFolder == {Edit("restoreAll", 0, ok) : ok \in BOOLEAN}
PurgeIngestorFolder == {Destroy("purgeAll", 0, ok) : ok \in BOOLEAN}
PurgeIngestorRecycleBin == {Destroy("purgeBin", 0, TRUE)}
AutoPurgeIngestorRecycleBin == {Destroy("purgeBin", 0, TRUE)}
ListIngestorRecycleBin == {Read("read", 0, <<"read">>, TRUE)}
ListIngestorFolderColors == {Read("read", 0, <<"read">>, TRUE)}
SetIngestorFolderColor == {Edit("color", 0, ok) : ok \in BOOLEAN}
FetchMediaRoot == {Read("mediaRoot", 0, <<"v2/media-root", "diagnostics">>, TRUE)}

Commands ==
  UNION {CheckIngestorHealth, ListIngestorAssets, ResolveIngestorAsset, ResolveIngestorAssetsBatch,
         UpdateIngestorTrim, UpdateIngestorRating, UpdateIngestorTp, MoveIngestorAsset,
         RenameIngestorAsset, CreateIngestorSubclip, TrashIngestorAsset, RestoreIngestorAsset,
         PurgeIngestorAsset, TrashIngestorFolder, RestoreIngestorFolder, PurgeIngestorFolder,
         PurgeIngestorRecycleBin, AutoPurgeIngestorRecycleBin, ListIngestorRecycleBin,
         ListIngestorFolderColors, SetIngestorFolderColor, FetchMediaRoot}

IsAuthExemptPath(route) == route \in {"health", "v2/health"}
Writes == {"label", "color", "subclip", "trash", "restore", "purge",
           "trashAll", "restoreAll", "purgeAll", "purgeBin"}
Destructive == {"purge", "trashAll", "purgeAll", "purgeBin"}

Idle == [phase |-> "idle"]
(* A command whose first request has been sent with the token of the moment  *)
(* ("present" while that is the token). "times" counts how often the service *)
(* carried it out; "stayed" are the assets that have been listed ever since. *)
Started(c) ==
  [phase |-> "sent", command |-> c, leg |-> 1, offset |-> 0, pages |-> 0, got |-> {},
   code |-> 0, page |-> {}, stayed |-> IF c.op = "list" THEN Listed ELSE {}, times |-> 0,
   total |-> 0, auth |-> accepted, present |-> TRUE]
Ended(c, result, times, got, stayed) ==
  [phase |-> "done", op |-> c.op, result |-> result, times |-> times, got |-> got,
   stayed |-> stayed]

-----------------------------------------------------------------------------
(* The service.                                                              *)

Route(k) == k.command.routes[k.leg]
Exists(route) == service.generation = "v2" \/ route \notin {"v2/health", "v2/assets", "v2/asset", "v2/media-root"}
(* What a request does to the registry; an asset that is not where the       *)
(* request wants it is answered 404.                                         *)
Wants(c) ==
  CASE c.op \in {"label", "trash", "subclip", "resolve"} -> "list"
    [] c.op = "restore" -> "bin"
    [] OTHER -> "any"
Found(c) == \/ Wants(c) = "any" \/ (c.a \in Ids /\ registry[c.a] = Wants(c))
            \/ c.op = "purge" /\ registry[c.a] # "none"
Move(from, to) == {[a \in Ids |-> IF registry[a] \in from THEN to ELSE registry[a]]}
Carried(c) ==
  CASE c.op = "trash" -> {[registry EXCEPT ![c.a] = "bin"]}
    [] c.op = "restore" -> {[registry EXCEPT ![c.a] = "list"]}
    [] c.op = "purge" -> {[registry EXCEPT ![c.a] = "none"]}
    [] c.op = "trashAll" -> Move({"list"}, "bin")
    [] c.op = "restoreAll" -> Move({"bin"}, "list")
    [] c.op = "purgeAll" -> Move({"list"}, "none")
    [] c.op = "purgeBin" -> Move({"bin"}, "none")
    [] c.op = "subclip" -> {[registry EXCEPT ![a] = "list"] : a \in Free}
    [] OTHER -> {registry}
Codes(k) ==
  IF ~k.auth /\ ~IsAuthExemptPath(Route(k)) THEN {401}
  ELSE IF k.command.op \in Destructive /\ ~k.command.confirmed THEN {428}
  ELSE IF ~Exists(Route(k)) \/ ~Found(k.command) THEN {404}
  ELSE IF Carried(k.command) = {} THEN {500}
  ELSE {200} \cup IF k.command.op \in {"label", "color", "subclip"} THEN {422} ELSE {}
(* The rows of a listing come in a fixed order; a page is what stands at the *)
(* places behind its offset.                                                 *)
Place(a) == Cardinality({b \in Listed : b <= a})
Page(k) ==
  LET limit == IF service.generation = "old" THEN Cardinality(Listed) ELSE service.limit
  IN {a \in Listed : Place(a) \in (k.offset + 1)..(k.offset + limit)}

Stays(k, assets) ==
  IF k.phase \in {"sent", "served"} THEN [k EXCEPT !.stayed = @ \cap assets] ELSE k
(* Rows leave the list while it is being read in window "removed" only.      *)
MayRemove(new) ==
  \/ "removed" \in Windows
  \/ \A a \in Listed : new[a] = "list"
  \/ \A s \in Slots : call[s].phase \in {"sent", "served"} => call[s].command.op # "list"

Answered(k, code) ==
  [k EXCEPT !.phase = "served", !.code = code,
            !.times = IF code = 200 /\ k.command.op \in Writes THEN @ + 1 ELSE @,
            !.page = IF k.command.op = "list" /\ code = 200 THEN Page(k) ELSE {},
            !.total = IF k.command.op = "list" THEN Cardinality(Listed) ELSE 0]

ServeCall(s) ==
  /\ service.up /\ call[s].phase = "sent"
  /\ \E code \in Codes(call[s]) :
       IF code = 200
       THEN \E new \in Carried(call[s].command) :
              /\ MayRemove(new)
              /\ registry' = new
              /\ call' = [t \in Slots |-> Stays(IF t = s THEN Answered(call[s], 200) ELSE call[t],
                                                {a \in Ids : new[a] = "list"})]
       ELSE call' = [call EXCEPT ![s] = Answered(@, code)] /\ UNCHANGED registry
  /\ UNCHANGED <<service, accepted, authRejected, judged, shown, left>>

(* A request that cannot connect, or an answer that does not come in time;   *)
(* and the body of a success that breaks off or makes no sense.              *)
NoAnswer == 0
BrokenOff == 206
Garbled == 299
Unusable == {BrokenOff, Garbled}
Failed(k, code) == [k EXCEPT !.phase = "served", !.code = code, !.page = {}]
FailCall(s) ==
  /\ \/ call[s].phase = "sent" /\ ~service.up
        /\ call' = [call EXCEPT ![s] = Failed(@, NoAnswer)] /\ UNCHANGED left
     \/ left.losses > 0 /\ left' = [left EXCEPT !.losses = @ - 1]
        /\ \/ call[s].phase = "sent" /\ call' = [call EXCEPT ![s] = Failed(@, NoAnswer)]
           \/ call[s].phase = "served" /\ call[s].code \notin {NoAnswer} \cup Unusable
              /\ \E code \in {NoAnswer} \cup (IF call[s].code = 200 THEN Unusable ELSE {}) :
                   call' = [call EXCEPT ![s] = Failed(@, code)]
  /\ UNCHANGED <<registry, service, accepted, authRejected, judged, shown>>
UpOrDown ==
  /\ left.changes > 0
  /\ service' = [service EXCEPT !.up = ~@]
  /\ left' = [left EXCEPT !.changes = @ - 1]
  /\ UNCHANGED <<registry, accepted, call, authRejected, judged, shown>>
(* The operator sets another token: what is in progress holds the old one.   *)
TokenChanges ==
  /\ left.changes > 0
  /\ accepted' = ~accepted
  /\ judged' = FALSE
  /\ call' = [s \in Slots |-> IF call[s].phase \in {"sent", "served"}
                              THEN [call[s] EXCEPT !.present = FALSE] ELSE call[s]]
  /\ left' = [left EXCEPT !.changes = @ - 1]
  /\ UNCHANGED <<registry, service, authRejected, shown>>

-----------------------------------------------------------------------------
(* What the client makes of an answer.                                       *)

Success(k) == k.code \in {200} \cup Unusable
(* note_auth_outcome: an answer that is neither a success nor a 401 says     *)
(* nothing of the token.                                                     *)
NoteAuthOutcome(k) ==
  IF IsAuthExemptPath(Route(k)) \/ ~(Success(k) \/ k.code = 401)
  THEN UNCHANGED <<authRejected, judged>>
  ELSE authRejected' = (k.code = 401) /\ judged' = k.present

(* When a command goes on to its next route.                                 *)
FallsBack(k) ==
  /\ k.leg < Len(k.command.routes)
  /\ CASE k.command.op = "health" -> ~Success(k)
       [] k.command.op = "mediaRoot" -> k.code = 404
       [] OTHER -> k.code \in {NoAnswer, 404, Garbled}
NextRoute(k) == [k EXCEPT !.phase = "sent", !.leg = @ + 1, !.offset = 0, !.pages = 0,
                          !.got = {}, !.page = {}, !.code = 0]

(* needs_next_page: the service of the first generation sends no total and   *)
(* everything at once.                                                       *)
NeedsNextPage(k) ==
  /\ service.generation # "old"
  /\ k.page # {} /\ k.pages + 1 < MaxPages
  /\ Cardinality(k.page) >= service.limit
  /\ k.offset + Cardinality(k.page) < k.total
(* Mutant: the offset of the next page is counted by the size asked for.     *)
NextOffset_PageSize(k) == k.offset + PageSize
NextOffset(k) == k.offset + Cardinality(k.page)
NextPage(k) ==
  [k EXCEPT !.phase = "sent", !.offset = NextOffset(k), !.pages = @ + 1,
            !.got = @ \cup k.page, !.page = {}, !.code = 0]

Outcome(k) ==
  IF k.code = 200 \/ (k.code \in Unusable /\ ~k.command.needsBody) THEN "ok"
  ELSE IF k.code \in {NoAnswer} \cup Unusable THEN "unknown" ELSE "refused"
AtTheCap(k) == k.pages + 1 = MaxPages /\ k.offset + Cardinality(k.page) < k.total
Result(k) ==
  Ended(k.command, Outcome(k), k.times, k.got \cup k.page,
        IF AtTheCap(k) THEN {} ELSE k.stayed)

Issue(s, c) ==
  /\ left.calls > 0 /\ call[s].phase \in {"idle", "done"}
  /\ \A t \in 1..(s - 1) : call[t].phase \in {"sent", "served"}
  /\ call' = [call EXCEPT ![s] = IF c.valid THEN Started(c) ELSE Ended(c, "rejected", 0, {}, {})]
  /\ left' = [left EXCEPT !.calls = @ - 1]
  /\ UNCHANGED <<registry, service, accepted, authRejected, judged, shown>>

Receive(s) ==
  LET k == call[s] IN
  /\ k.phase = "served"
  /\ NoteAuthOutcome(k)
  /\ call' = [call EXCEPT ![s] =
       IF FallsBack(k) THEN NextRoute(k)
       ELSE IF k.command.op = "list" /\ k.code = 200 /\ NeedsNextPage(k) THEN NextPage(k)
       ELSE Result(k)]
  /\ UNCHANGED <<registry, service, accepted, shown, left>>

(* Mutant: only a service that answers is told of.                           *)
Heartbeat_OnlyOnline ==
  /\ service.up /\ shown' = [online |-> TRUE, authRejected |-> authRejected]
  /\ UNCHANGED <<registry, service, accepted, call, authRejected, judged, left>>
(* spawn_ingestor_heartbeat: the loop asks the exempt route for the health of*)
(* the service and tells the interface, whatever came of it.                 *)
Heartbeat ==
  /\ shown' = [online |-> service.up, authRejected |-> authRejected]
  /\ UNCHANGED <<registry, service, accepted, call, authRejected, judged, left>>

Init ==
  /\ registry = [a \in Ids |-> IF a <= AtFirst THEN "list" ELSE "none"]
  /\ service \in [up : {TRUE}, generation : {"v2", "v1", "old"}, limit : Limits]
  /\ accepted = TRUE
  /\ call = [s \in Slots |-> Idle]
  /\ authRejected = FALSE /\ judged = FALSE
  /\ shown = [online |-> FALSE, authRejected |-> FALSE]
  /\ left = [calls |-> MaxCalls, losses |-> MaxLosses, changes |-> MaxChanges]

Next ==
  \/ \E s \in Slots : \/ \E c \in Commands : Issue(s, c)
                      \/ ServeCall(s) \/ FailCall(s) \/ Receive(s)
  \/ Heartbeat
  \/ UpOrDown \/ TokenChanges

(* The heartbeat's loop runs on; nothing is assumed of the service.          *)
Spec == Init /\ [][Next]_vars /\ WF_vars(Heartbeat)

-----------------------------------------------------------------------------
(* Properties.                                                               *)

(* Types: in particular a listing never reads past the rows it was told of,  *)
(* and no page is asked for beyond the cap on pages.                         *)
TypeOK ==
  /\ registry \in [Ids -> {"list", "bin", "none"}]
  /\ authRejected \in BOOLEAN /\ judged \in BOOLEAN /\ accepted \in BOOLEAN
  /\ \A s \in Slots :
       /\ call[s].phase \in {"idle", "sent", "served", "done"}
       /\ call[s].phase \in {"sent", "served"} =>
            call[s].offset \in 0..MaxAssets /\ call[s].pages < MaxPages
       /\ call[s].phase = "done" => call[s].result \in {"ok", "refused", "unknown", "rejected"}

(* What a command reports is what happened: done once if it succeeded, never *)
(* if it was refused here or by the service, and at most once if the answer  *)
(* was lost: no command sends a request that changes something twice.  A     *)
(* listing that succeeds holds every asset that was listed from its start to *)
(* its end, over however many pages and through a fall back to the older     *)
(* generation, unless it stopped at the cap on pages.                        *)
DoneAsReported ==
  \A s \in Slots : call[s].phase = "done" /\ call[s].op \in Writes =>
    CASE call[s].result = "ok" -> call[s].times = 1
      [] call[s].result = "unknown" -> call[s].times <= 1
      [] OTHER -> call[s].times = 0
ListingIsWhole ==
  \A s \in Slots : call[s].phase = "done" /\ call[s].op = "list" /\ call[s].result = "ok" =>
    call[s].stayed \subseteq call[s].got
AnswersAreTrue == DoneAsReported /\ ListingIsWhole

(* The operator always comes to be told whether the service is reachable and *)
(* whether it refuses the token: the heartbeat outlives every answer.  And   *)
(* once the service has given its verdict on the present token, and no call  *)
(* with an earlier one was answered later, that verdict is what is told,     *)
(* whatever the exempt health route answers meanwhile.                       *)
VerdictTold == judged => (authRejected <=> ~accepted)
OperatorInformed ==
  /\ []<>(shown = [online |-> service.up, authRejected |-> authRejected])
  /\ []VerdictTold
=============================================================================
