----------------------------- MODULE MediaStore -----------------------------
(***************************************************************************)
(* What the library knows of a media file and where it keeps it: the       *)
(* portable index beside the files (media_index.rs), the SQLite cache      *)
(* (db.rs), the transcoder's sidecar, and the commands that read one and   *)
(* write another (scanner.rs, transcoder_sidecar.rs).  Commands run on a   *)
(* blocking pool, so two of them meet in every order.                      *)
(*                                                                         *)
(* A file is its content and a stamp (mtime and size); its fingerprint is  *)
(* its content.  An entry is the content its metadata was read from (None: *)
(* duration 0, never probed), an id and a trim (0: none).  Index operations*)
(* hold the root's lock from load to save; nothing else is shared but the  *)
(* database, whose single statements are atomic.                           *)
(***************************************************************************)
EXTENDS Naturals, FiniteSets, SequencesExt

CONSTANTS Files,      \* the paths
          Contents,
          Trims, SidecarTrims,   \* set by the operator, by the transcoder
          Stored,     \* what each path holds at first, and the library knows of
          Jobs,       \* slots of the blocking pool, 1..n
          None,
          MaxJobs, MaxCopies, MaxSidecars, MaxFaults,
          Windows     \* "midcopy": a file changes while a command works on it
                      \* "sidecar": a new export lands under the old sidecar

VARIABLES file, sidecar, index, lock, db, job, running, count
vars == <<file, sidecar, index, lock, db, job, running, count>>

NoId == <<>>
Generated(f) == <<"generated", f>>
Asset(p) == <<"asset", p>>
Ids == {NoId} \cup {Generated(f) : f \in Contents} \cup {Asset(p) : p \in Files}
AnyTrim == Trims \cup SidecarTrims \cup {0}
Entries == [of : Contents \cup {None}, id : Ids, trim : AnyTrim]
Blank == [of |-> None, id |-> NoId, trim |-> 0]
Rows == [of : Contents \cup {None}, id : Ids, trim : AnyTrim, ident : Nat]
Sidecars == [of : Contents, id : Ids, trim : SidecarTrims]
Records == [fp : Contents, id : Ids, aliases : SUBSET Files,
            of : Contents \cup {None}, trim : AnyTrim]

\* A command: the file it is at and those to come, its next step, the operation on the
\* index it is in, the entry in hand and what it has read; a scan's rows so far.
Kinds == {"none", "probe", "verify", "trim", "scan", "warm"}
Steps == {"idle", "arm", "list", "next", "skip", "look", "fp", "load", "save", "side", "ffprobe",
          "refresh", "put", "batch", "commit"}
Operations == {"none", "hydrate", "upsert", "enrich", "profile"}
Commands == [kind : Kinds, at : Files \cup {None}, todo : SUBSET Files, pc : Steps,
             op : Operations, e : Entries, fp : Contents \cup {None},
             side : Sidecars \cup {None}, idx : Seq(Records),
             batch : SUBSET [path : Files, e : Entries], dirty : BOOLEAN,
             then : {"end", "refresh"}]
Idle == [kind |-> "none", at |-> None, todo |-> {}, pc |-> "idle", op |-> "none", e |-> Blank,
         fp |-> None, side |-> None, idx |-> <<>>, batch |-> {}, dirty |-> FALSE, then |-> "end"]

Present(p) == file[p].content # None
\* get_valid: the row, if the file is the one it was written for
Valid(p) == db[p] # None /\ Present(p) /\ db[p].ident = file[p].stamp
Row(p) == [of |-> db[p].of, id |-> db[p].id, trim |-> db[p].trim]
-----------------------------------------------------------------------------
(* The index: the first record that matches is the one meant.              *)
First(I) == IF I = {} THEN 0 ELSE Min(I)
ByFp(idx, f) == First({i \in DOMAIN idx : idx[i].fp = f})
ByAlias(idx, p) == First({i \in DOMAIN idx : p \in idx[i].aliases})
ByAliasOrId(idx, p, id) ==
  LET i == ByAlias(idx, p) IN
  IF i # 0 \/ id = NoId THEN i ELSE First({k \in DOMAIN idx : idx[k].id = id})
Seen(idx, i, p) == [idx EXCEPT ![i].aliases = @ \cup {p}]

(* An operation leaves the index idx and the entry e; a save may fail only *)
(* if there is one (saves), and the command learns of a change (hit).      *)
\* hydrate_entry_from_index
Hydrate(idx, p, f, e) ==
  LET i == ByFp(idx, f) IN
  IF i = 0 THEN [idx |-> idx, e |-> e, hit |-> FALSE, saves |-> FALSE]
  ELSE [idx |-> Seen(idx, i, p), hit |-> TRUE, saves |-> TRUE,
        e |-> [of |-> idx[i].of, id |-> idx[i].id, trim |-> idx[i].trim]]

\* upsert_entry: a trim already held is replaced only by a trim
Upsert(idx, p, f, e) ==
  LET i == ByFp(idx, f)
      id == IF e.id # NoId THEN e.id ELSE IF i # 0 THEN idx[i].id ELSE Generated(f)
      trim == IF i # 0 /\ e.trim = 0 THEN idx[i].trim ELSE e.trim
      seen == IF i # 0 THEN idx[i].aliases ELSE {}
      new == [fp |-> f, id |-> id, aliases |-> seen \cup {p}, of |-> e.of, trim |-> trim]
  IN [e |-> [e EXCEPT !.id = id], hit |-> TRUE, saves |-> TRUE,
      idx |-> IF i = 0 THEN Append(idx, new) ELSE [idx EXCEPT ![i] = new]]

\* enrich_entry_from_index_by_alias: id and trim only, never the metadata; the
\* entry has them even if the save fails
Enrich(idx, p, e) ==
  LET i == ByAliasOrId(idx, p, e.id)
      rich == [e EXCEPT !.id = IF @ = NoId THEN idx[i].id ELSE @, !.trim = idx[i].trim]
  IN IF i = 0 THEN [idx |-> idx, e |-> e, hit |-> FALSE, saves |-> FALSE]
     ELSE [idx |-> Seen(idx, i, p), e |-> rich, hit |-> rich # e, saves |-> TRUE]

\* save_trim_profile: by alias, else by the file's fingerprint, else a blank record
Profile(idx, p, f, e) ==
  LET a == ByAlias(idx, p)
      i == IF a # 0 THEN a ELSE ByFp(idx, f)
  IN [e |-> e, hit |-> TRUE, saves |-> TRUE,
      idx |-> IF i = 0
              THEN Append(idx, [fp |-> f, id |-> Generated(f), aliases |-> {p},
                                of |-> None, trim |-> e.trim])
              ELSE [idx EXCEPT ![i] = [idx[i] EXCEPT !.aliases = @ \cup {p}, !.trim = e.trim]]]

Outcome(b) == CASE b.op = "hydrate" -> Hydrate(b.idx, b.at, b.fp, b.e)
                [] b.op = "upsert" -> Upsert(b.idx, b.at, b.fp, b.e)
                [] b.op = "enrich" -> Enrich(b.idx, b.at, b.e)
                [] b.op = "profile" -> Profile(b.idx, b.at, file[b.at].content, b.e)

(* The sidecar.                                                            *)
\* sidecar_to_cached_entry
FromSidecar(s) == [of |-> s.of, id |-> s.id, trim |-> s.trim]
Named(e, s) == [e EXCEPT !.id = IF @ = NoId THEN s.id ELSE @]
\* refresh_trim_from_sidecar (C-12): a window, of the asset the sidecar belongs to
Refreshes(e, s) == s # None /\ e.id = s.id /\ s.trim # 0 /\ e.trim # s.trim
-----------------------------------------------------------------------------
Init == /\ file = [p \in Files |-> [content |-> Stored[p], stamp |-> 0]]
        /\ sidecar = [p \in Files |-> None]
        /\ index \in SetToSeqs({[fp |-> c, id |-> Generated(c), of |-> c, trim |-> 0,
                                 aliases |-> {p \in Files : Stored[p] = c}] :
                                  c \in Range(Stored) \ {None}})
        /\ lock = None
        /\ db = [p \in Files |-> IF Stored[p] = None THEN None ELSE
                  [of |-> Stored[p], id |-> Generated(Stored[p]), trim |-> 0, ident |-> 0]]
        /\ job = [j \in Jobs |-> Idle]
        /\ running = FALSE
        /\ count = [jobs |-> 0, copies |-> 0, sidecars |-> 0, faults |-> 0]

Busy(p) == \E j \in Jobs : job[j].kind \in {"scan", "warm"} \/ job[j].at = p
Counted(k) == count' = [count EXCEPT ![k] = @ + 1]
Fails == count.faults < MaxFaults /\ Counted("faults")
Goes(j, b) == job' = [job EXCEPT ![j] = b]

\* An export or a copy puts a file in place; its sidecar comes later.
Copy(p, c) ==
  /\ count.copies < MaxCopies /\ Counted("copies")
  /\ "midcopy" \in Windows \/ ~Busy(p)
  /\ file' = [file EXCEPT ![p] = [content |-> c, stamp |-> @.stamp + 1]]
  /\ sidecar' = IF "sidecar" \in Windows \/ c = file[p].content THEN sidecar
                ELSE [sidecar EXCEPT ![p] = None]
  /\ UNCHANGED <<index, lock, db, job, running>>

WriteSidecar(p, t) ==
  /\ Present(p) /\ count.sidecars < MaxSidecars /\ Counted("sidecars")
  /\ sidecar' = [sidecar EXCEPT ![p] = [of |-> file[p].content, id |-> Asset(p), trim |-> t]]
  /\ UNCHANGED <<file, index, lock, db, job, running>>

(* Commands.                                                               *)
Starts(j, b) ==
  /\ job[j].pc = "idle" /\ \A i \in 1..(j - 1) : job[i].pc # "idle"   \* slots are alike
  /\ count.jobs < MaxJobs /\ Counted("jobs")
  /\ Goes(j, b)
  /\ UNCHANGED <<file, sidecar, index, lock, db, running>>

ScanMedia(j, p) ==
  Present(p) /\ Starts(j, [Idle EXCEPT !.kind = "probe", !.at = p, !.pc = "look"])
VerifyPlaybackReady(j, p) ==
  /\ Present(p) /\ db[p] = None
  /\ Starts(j, [Idle EXCEPT !.kind = "verify", !.at = p, !.pc = "side"])
\* save_media_trim_profile
SaveTrim(j, p, t) ==
  Present(p) /\ Starts(j, [Idle EXCEPT !.kind = "trim", !.at = p, !.pc = "load", !.op = "profile",
                                       !.e = [Blank EXCEPT !.trim = t]])
ScanDirectory(j) ==
  /\ \E p \in Files : Present(p)
  /\ Starts(j, [Idle EXCEPT !.kind = "scan", !.todo = {p \in Files : Present(p)}, !.pc = "next"])
\* start_media_probe: the flag is read here and set by the next step
StartMediaProbe(j) == ~running /\ Starts(j, [Idle EXCEPT !.kind = "warm", !.pc = "arm"])
Arm(j) ==
  /\ job[j].pc = "arm"
  /\ running' = TRUE
  /\ Goes(j, [job[j] EXCEPT !.pc = "list"])
  /\ UNCHANGED <<file, sidecar, index, lock, db, count>>

\* collect_media_files, which may fail
List(j) ==
  /\ job[j].pc = "list"
  /\ \/ /\ Goes(j, [job[j] EXCEPT !.pc = "next", !.todo = {p \in Files : Present(p)}])
        /\ UNCHANGED <<running, count>>
     \/ Fails /\ Goes(j, Idle) /\ running' = FALSE
  /\ UNCHANGED <<file, sidecar, index, lock, db>>

\* The next file of the directory, in any order, or the end of it.
NextFile(j) ==
  /\ job[j].pc = "next"
  /\ \/ \E p \in job[j].todo :
          Goes(j, [job[j] EXCEPT !.pc = IF job[j].kind = "warm" THEN "skip" ELSE "look",
                                 !.at = p, !.todo = @ \ {p}])
     \/ /\ job[j].kind = "scan" /\ job[j].todo = {}
        /\ Goes(j, [job[j] EXCEPT !.pc = "commit"])
  /\ UNCHANGED <<file, sidecar, index, lock, db, running, count>>
Finish(j) ==
  /\ job[j].pc = "next" /\ job[j].kind = "warm" /\ job[j].todo = {}
  /\ running' = FALSE /\ Goes(j, Idle)
  /\ UNCHANGED <<file, sidecar, index, lock, db, count>>
\* what follows a file: the end, of a command on one
Done(b) == IF b.kind \in {"scan", "warm"}
           THEN [Idle EXCEPT !.kind = b.kind, !.pc = "next", !.todo = b.todo, !.batch = b.batch]
           ELSE Idle

\* Mutant: any row of the path will do (get_entry for get_valid).
Knows_AnyRow(p) == Present(p) /\ db[p] # None /\ db[p].of # None
Knows(p) == Valid(p) /\ db[p].of # None

\* warm_media_files passes over what is known; the probe of the rest looks again
Skip(j) ==
  /\ job[j].pc = "skip"
  /\ Goes(j, IF Knows(job[j].at) THEN Done(job[j]) ELSE [job[j] EXCEPT !.pc = "look"])
  /\ UNCHANGED <<file, sidecar, index, lock, db, running, count>>

LookUp(j) ==
  /\ job[j].pc = "look"
  /\ LET b == job[j]
         p == b.at
         asks == [b EXCEPT !.pc = "fp", !.op = "hydrate"]
     IN
     \/ /\ b.kind \in {"probe", "warm"} /\ Knows(p)
        /\ Goes(j, [b EXCEPT !.pc = "load", !.op = "enrich", !.e = Row(p)])
     \/ /\ b.kind \in {"probe", "warm"} /\ ~Knows(p)
        /\ Goes(j, asks)
     \/ /\ b.kind = "scan" /\ Knows(p)
        /\ Goes(j, [b EXCEPT !.pc = "side", !.e = Row(p)])
     \/ /\ b.kind = "scan" /\ ~Knows(p)
        /\ Goes(j, [asks EXCEPT !.e = IF Valid(p) THEN Row(p) ELSE Blank])
     \/ /\ b.kind = "trim" /\ Valid(p)
        /\ Goes(j, [b EXCEPT !.pc = "put", !.e = [Row(p) EXCEPT !.trim = b.e.trim]])
     \/ /\ b.kind = "trim" /\ ~Valid(p)
        /\ Goes(j, asks)
  /\ UNCHANGED <<file, sidecar, index, lock, db, running, count>>

\* compute_file_fingerprint, outside the lock
Fingerprint(j) ==
  /\ job[j].pc = "fp"
  /\ Goes(j, [job[j] EXCEPT !.pc = "load", !.fp = file[job[j].at].content])
  /\ UNCHANGED <<file, sidecar, index, lock, db, running, count>>

(* What a command does with the answer r of an index operation, if it has  *)
(* one (ok).                                                               *)
Hydrated(b, found, r) ==
  IF b.kind = "trim"
  THEN [b EXCEPT !.pc = "put", !.e = [(IF found THEN r.e ELSE Blank) EXCEPT !.trim = b.e.trim]]
  ELSE IF b.kind = "scan"
  THEN [b EXCEPT !.pc = "side", !.dirty = found, !.e = IF found THEN r.e ELSE @]
  ELSE IF found THEN [b EXCEPT !.pc = "put", !.e = r.e] ELSE [b EXCEPT !.pc = "side"]
Enriched(b, told, r) ==
  IF b.kind = "scan" THEN [b EXCEPT !.pc = "refresh", !.e = r.e, !.dirty = @ \/ told]
  ELSE IF told THEN [b EXCEPT !.pc = "put", !.e = r.e, !.then = "refresh"]
  ELSE [b EXCEPT !.pc = "refresh", !.e = r.e]
Profiled(b, ok) ==
  IF b.kind = "scan" THEN [b EXCEPT !.pc = "batch"]
  ELSE IF b.kind # "trim" THEN [b EXCEPT !.pc = "put", !.then = "end"]
  ELSE IF ok THEN [b EXCEPT !.pc = "look"] ELSE Idle
After(c, ok, r) ==
  LET b == [c EXCEPT !.op = "none", !.fp = None, !.idx = <<>>] IN
  CASE c.op = "hydrate" -> Hydrated(b, ok /\ r.hit, r)
    [] c.op = "upsert" -> [b EXCEPT !.pc = "put", !.e = IF ok THEN r.e ELSE @]
    [] c.op = "enrich" -> Enriched(b, ok /\ r.hit, r)
    [] c.op = "profile" -> Profiled(b, ok)

\* Mutant: no lock is held from the load to the save.
Free_Unlocked == TRUE
Free == lock = None

\* load_index under the root's lock; a read error other than "not found" ends the operation
Load(j) ==
  /\ job[j].pc = "load" /\ Free
  /\ \/ /\ lock' = j
        /\ Goes(j, [job[j] EXCEPT !.pc = "save", !.idx = index])
        /\ UNCHANGED count
     \/ Fails /\ Goes(j, After(job[j], FALSE, [e |-> job[j].e, hit |-> FALSE])) /\ UNCHANGED lock
  /\ UNCHANGED <<file, sidecar, index, db, running>>

\* save_index: the new index is renamed over the old one; if the write fails the old one stands
Save(j) ==
  /\ job[j].pc = "save"
  /\ LET r == Outcome(job[j]) IN
     \/ index' = r.idx /\ Goes(j, After(job[j], TRUE, r)) /\ UNCHANGED count
     \/ r.saves /\ Fails /\ Goes(j, After(job[j], FALSE, r)) /\ UNCHANGED index
  /\ lock' = None
  /\ UNCHANGED <<file, sidecar, db, running>>

\* an entry read of the file itself: a row, and unless a take waits for it a record
Describes(b, e) == IF b.kind = "verify" THEN [b EXCEPT !.pc = "put", !.e = e]
                   ELSE [b EXCEPT !.pc = "fp", !.op = "upsert", !.e = e]

\* the sidecar of a file the cache knows nothing of, or of any file of a scan
ReadSidecar(j) ==
  /\ job[j].pc = "side"
  /\ LET b == job[j]
         s == sidecar[b.at]
         asks == [b EXCEPT !.pc = "load", !.op = "enrich", !.side = s]
     IN
     \/ /\ b.kind # "scan" /\ s = None
        /\ Goes(j, [b EXCEPT !.pc = "ffprobe"])
     \/ /\ b.kind # "scan" /\ s # None
        /\ Goes(j, Describes(b, FromSidecar(s)))
     \/ /\ b.kind = "scan" /\ s = None
        /\ Goes(j, asks)
     \/ /\ b.kind = "scan" /\ s # None
        /\ Goes(j, [asks EXCEPT !.dirty = TRUE,
                                !.e = IF b.e.of = None THEN FromSidecar(s) ELSE Named(b.e, s)])
  /\ UNCHANGED <<file, sidecar, index, lock, db, running, count>>

\* run_ffprobe: no id, no trim; a failure ends the file with what was cached
Ffprobe(j) ==
  /\ job[j].pc = "ffprobe"
  /\ \/ /\ Goes(j, Describes(job[j], [Blank EXCEPT !.of = file[job[j].at].content]))
        /\ UNCHANGED count
     \/ Fails /\ Goes(j, Done(job[j]))
  /\ UNCHANGED <<file, sidecar, index, lock, db, running>>

\* C-12: the sidecar's trim wins, and the index is told
Refresh(j) ==
  /\ job[j].pc = "refresh"
  /\ LET b == job[j]
         s == IF b.kind = "scan" THEN b.side ELSE sidecar[b.at]
         e == IF s = None THEN b.e ELSE Named(b.e, s)
     IN
     \/ /\ Refreshes(e, s)
        /\ Goes(j, [b EXCEPT !.pc = "load", !.op = "profile", !.dirty = TRUE,
                             !.e = [e EXCEPT !.trim = s.trim]])
     \/ /\ ~Refreshes(e, s) /\ b.kind = "scan"
        /\ Goes(j, [b EXCEPT !.pc = "batch"])
     \/ /\ ~Refreshes(e, s) /\ b.kind # "scan" /\ s = None
        /\ Goes(j, Done(b))
     \/ /\ ~Refreshes(e, s) /\ b.kind # "scan" /\ s # None
        /\ Goes(j, [b EXCEPT !.pc = "put", !.then = "end", !.e = e])
  /\ UNCHANGED <<file, sidecar, index, lock, db, running, count>>

\* MediaDb::upsert stamps the row with the file's identity of now
Stamped(p, e) == [of |-> e.of, id |-> e.id, trim |-> e.trim, ident |-> file[p].stamp]
Put(j) ==
  /\ job[j].pc = "put"
  /\ db' = [db EXCEPT ![job[j].at] = Stamped(job[j].at, job[j].e)]
  /\ Goes(j, IF job[j].then = "refresh" THEN [job[j] EXCEPT !.pc = "refresh"] ELSE Done(job[j]))
  /\ UNCHANGED <<file, sidecar, index, lock, running, count>>

Batch(j) ==
  /\ job[j].pc = "batch"
  /\ LET b == job[j] IN
     Goes(j, Done([b EXCEPT !.batch = IF b.dirty THEN @ \cup {[path |-> b.at, e |-> b.e]} ELSE @]))
  /\ UNCHANGED <<file, sidecar, index, lock, db, running, count>>

Batched(b) == [p \in Files |->
  IF \E x \in b : x.path = p THEN Stamped(p, (CHOOSE x \in b : x.path = p).e) ELSE db[p]]
\* upsert_many: the directory's rows in one transaction, or none of them
Commit(j) ==
  /\ job[j].pc = "commit"
  /\ \/ db' = Batched(job[j].batch) /\ UNCHANGED count
     \/ Fails /\ UNCHANGED db
  /\ Goes(j, Idle)
  /\ UNCHANGED <<file, sidecar, index, lock, running>>

\* PlayOut dies: the files stay
Crash ==
  /\ Fails
  /\ \E j \in Jobs : job[j].pc # "idle"
  /\ job' = [j \in Jobs |-> Idle] /\ lock' = None /\ running' = FALSE
  /\ UNCHANGED <<file, sidecar, index, db>>

Works(j) == \/ Arm(j) \/ List(j) \/ NextFile(j) \/ Finish(j) \/ Skip(j) \/ LookUp(j)
            \/ Fingerprint(j) \/ Load(j) \/ Save(j) \/ ReadSidecar(j) \/ Ffprobe(j) \/ Refresh(j) \/ Put(j)
            \/ Batch(j) \/ Commit(j)
Next == \/ \E p \in Files : \/ \E c \in Contents : Copy(p, c)
                            \/ \E t \in SidecarTrims : WriteSidecar(p, t)
        \/ \E j \in Jobs : \/ \E p \in Files : \/ ScanMedia(j, p) \/ VerifyPlaybackReady(j, p)
                                               \/ \E t \in Trims : SaveTrim(j, p, t)
                           \/ ScanDirectory(j) \/ StartMediaProbe(j) \/ Works(j)
        \/ Crash
Spec == Init /\ [][Next]_vars
-----------------------------------------------------------------------------
(* The types of the state, and the lock held from a load to its save only.  *)
TypeOK ==
  /\ file \in [Files -> [content : Contents \cup {None}, stamp : Nat]]
  /\ sidecar \in [Files -> Sidecars \cup {None}]
  /\ index \in Seq(Records)
  /\ lock \in Jobs \cup {None} /\ running \in BOOLEAN
  /\ db \in [Files -> Rows \cup {None}]
  /\ job \in [Jobs -> Commands]
  /\ \A j \in Jobs : job[j].pc = "save" <=> lock = j

(* No writer of the index undoes another's work: a save adds one record or  *)
(* changes one, whatever the other commands wrote since this one started,   *)
(* and a trim goes only for the trim that a command saves in its place.     *)
Saved(t) == \E j \in Jobs : job[j].pc = "save" /\ job[j].op = "profile" /\ job[j].e.trim = t
Kept ==
  /\ Len(index') \in {Len(index), Len(index) + 1}
  /\ \A i, k \in DOMAIN index : index'[i] # index[i] /\ index'[k] # index[k] => i = k
  /\ Len(index') > Len(index) => \A i \in DOMAIN index : index'[i] = index[i]
  /\ \A i \in DOMAIN index :
       index[i].trim # 0 /\ index'[i].trim = 0 => Saved(0)
NoLostUpdate == [][Kept]_vars

(* A row the cache vouches for, and a record under a fingerprint, tell of   *)
(* the file that is there, not of one it replaced.                          *)
CacheTellsOfTheFile ==
  /\ \A p \in Files : Valid(p) /\ db[p].of # None => db[p].of = file[p].content
  /\ \A i \in DOMAIN index : index[i].of \in {None, index[i].fp}

=============================================================================
