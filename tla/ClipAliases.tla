------------------------------ MODULE ClipAliases ------------------------------
(* ASCII aliases of clips whose names CasparCG cannot open (caspar.rs): a hard *)
(* link, or a copy when the clip is on another volume, in a directory under    *)
(* the media root with a manifest, made at take time and collected by scans.   *)
(*                                                                             *)
(* A source's content is a version, its fingerprint (size and modification     *)
(* time) changes with it; an alias is the version it holds, Partial while a    *)
(* copy is being written. Every take of a source names the same alias.         *)
EXTENDS Naturals, FiniteSets

CONSTANTS Sources,
          OtherVolume,         \* sources a hard link cannot reach
          Takes,               \* calls of ensure_ascii_alias
          Nobody,
          MaxVersion,          \* bound: exports of one source
          Scans,               \* bound: collections
          Windows              \* races left open, see Export, Saved, Dies

ASSUME Limits == MaxVersion \in Nat \ {0} /\ Scans \in Nat
ASSUME Owners == Nobody \notin Sources \cup Takes /\ "scan" \notin Takes \cup {Nobody}

VARIABLES source,    \* source[s]: the version of the file, 0 when it is gone
          newest,    \* newest[s]: the newest version exported so far
          alias,     \* alias[s]: the version its alias holds
          linked,    \* aliases that are hard links of their source
          entry,     \* AliasManifest on disk: the fingerprint recorded, 0 for none
          opened,    \* aliases the engine has open, which cannot be removed
          owner,     \* alias_manifest_lock
          take,      \* take[t]
          stale,     \* gc_stale_aliases: the entries it is going to remove
          scans

aliasVars == <<source, newest, alias, linked, entry, opened, owner, take, stale, scans>>

NoAlias == 0
Partial == MaxVersion + 1
Idle == [at |-> "idle", of |-> Nobody, expected |-> 0]
Collector == "scan"

TypeOK ==
  /\ source \in [Sources -> 0..MaxVersion] /\ newest \in [Sources -> 1..MaxVersion]
  /\ alias \in [Sources -> NoAlias..Partial]
  /\ linked \subseteq Sources /\ opened \subseteq Sources /\ stale \subseteq Sources
  /\ entry \in [Sources -> 0..MaxVersion]
  /\ owner \in Takes \cup {Nobody, Collector}
  /\ take \in [Takes -> [at : {"idle", "lock", "link", "copy", "save", "given", "failed"},
                         of : Sources \cup {Nobody}, expected : 0..MaxVersion]]
  /\ scans \in 0..Scans

\* Aliases made before the manifest existed have no entry: window "legacy".
Init ==
  /\ source = [s \in Sources |-> 1] /\ newest = source
  /\ alias \in [Sources -> IF "legacy" \in Windows THEN {NoAlias, Partial} ELSE {NoAlias}]
  /\ linked = {} /\ entry = [s \in Sources |-> 0] /\ opened = {}
  /\ owner = Nobody /\ take = [t \in Takes |-> Idle] /\ stale = {} /\ scans = 0

At(t, from) == take[t].at = from
Goes(t, to) == take' = [take EXCEPT ![t].at = to]

\* source_fingerprint, before the lock is taken: no file, no alias.
Stat(t, s) ==
  /\ At(t, "idle")
  /\ take' = [take EXCEPT ![t] =
       [at |-> IF source[s] = 0 THEN "failed" ELSE "lock", of |-> s, expected |-> source[s]]]
  /\ UNCHANGED <<source, newest, alias, linked, entry, opened, owner, stale, scans>>

\* save_alias_manifest: a failed write leaves the manifest as it was.
Saved(new) ==
  \/ entry' = new
  \/ "unsaved" \in Windows /\ UNCHANGED entry

\* Under the lock: the alias is as recorded and is given; its source changed
\* since and it is removed, unless the engine has it open; it is unrecorded and
\* adopted as it is; or there is none yet.
Found_Trusted(t) ==
  LET s == take[t].of IN
  \/ /\ alias[s] # NoAlias /\ entry[s] # 0 /\ Goes(t, "given")
     /\ UNCHANGED <<alias, linked, entry>> /\ owner' = Nobody
  \/ alias[s] = NoAlias /\ Goes(t, "link") /\ UNCHANGED <<alias, linked, entry>> /\ owner' = t

Found(t) ==
  LET s == take[t].of IN
  \/ /\ alias[s] # NoAlias /\ entry[s] = take[t].expected
     /\ Goes(t, "given") /\ owner' = Nobody
     /\ UNCHANGED <<alias, linked, entry>>
  \/ /\ alias[s] # NoAlias /\ entry[s] \notin {0, take[t].expected}
     /\ IF s \in opened THEN UNCHANGED <<alias, linked>>
        ELSE alias' = [alias EXCEPT ![s] = NoAlias] /\ linked' = linked \ {s}
     /\ Goes(t, "link") /\ owner' = t
     /\ UNCHANGED entry
  \/ /\ alias[s] # NoAlias /\ entry[s] = 0
     /\ Saved([entry EXCEPT ![s] = take[t].expected])
     /\ Goes(t, "given") /\ owner' = Nobody
     /\ UNCHANGED <<alias, linked>>
  \/ /\ alias[s] = NoAlias
     /\ Goes(t, "link") /\ owner' = t
     /\ UNCHANGED <<alias, linked, entry>>

Enter(t) ==
  /\ At(t, "lock") /\ owner = Nobody
  /\ Found(t)
  /\ UNCHANGED <<source, newest, opened, stale, scans>>

\* hard_link, which refuses an alias that is still there and another volume;
\* then copy, which fails without a source, on a file the engine has open and
\* on a link of the source itself.
HardLink(t) ==
  LET s == take[t].of IN
  /\ At(t, "link") /\ source[s] # 0 /\ alias[s] = NoAlias /\ s \notin OtherVolume
  /\ alias' = [alias EXCEPT ![s] = source[s]] /\ linked' = linked \cup {s}
  /\ Goes(t, "save")
  /\ UNCHANGED <<source, newest, entry, opened, owner, stale, scans>>

CopyBegins(t) ==
  LET s == take[t].of IN
  /\ At(t, "link") /\ (alias[s] # NoAlias \/ s \in OtherVolume)
  /\ source[s] # 0 /\ s \notin opened \cup linked
  /\ alias' = [alias EXCEPT ![s] = Partial]
  /\ Goes(t, "copy")
  /\ UNCHANGED <<source, newest, linked, entry, opened, owner, stale, scans>>

\* What was read is the content when the copy ends, or the one before it when
\* the export replaced the file.
CopyEnds(t) ==
  LET s == take[t].of IN
  /\ At(t, "copy")
  /\ \E v \in {source[s], newest[s]} \ {0} : alias' = [alias EXCEPT ![s] = v]
  /\ Goes(t, "save")
  /\ UNCHANGED <<source, newest, linked, entry, opened, owner, stale, scans>>

CannotCopy(t) ==
  LET s == take[t].of IN
  /\ At(t, "link")
  /\ source[s] = 0 \/ (alias[s] # NoAlias /\ s \in opened \cup linked)
  /\ Goes(t, "failed") /\ owner' = Nobody
  /\ UNCHANGED <<source, newest, alias, linked, entry, opened, stale, scans>>

Recorded(t) == take[t].expected

Save(t) ==
  /\ At(t, "save")
  /\ Saved([entry EXCEPT ![take[t].of] = Recorded(t)])
  /\ Goes(t, "given") /\ owner' = Nobody
  /\ UNCHANGED <<source, newest, alias, linked, opened, stale, scans>>

\* gc_stale_aliases: entries whose source is gone or has another fingerprint.
GcReads ==
  /\ owner = Nobody /\ scans < Scans
  /\ owner' = Collector /\ scans' = scans + 1
  /\ stale' = {s \in Sources : entry[s] \notin {0, source[s]}}
  /\ UNCHANGED <<source, newest, alias, linked, entry, opened, take>>

\* Their files are removed where they can be, and unrecorded files that are
\* older than LEGACY_MAX_AGE; then the manifest is saved.
GcRemoves ==
  /\ owner = Collector
  /\ \E old \in SUBSET {s \in Sources \ stale : alias[s] # NoAlias /\ entry[s] = 0} :
       LET gone == (stale \cup old) \ (opened \cap {s \in Sources : alias[s] # NoAlias}) IN
       /\ alias' = [s \in Sources |-> IF s \in gone THEN NoAlias ELSE alias[s]]
       /\ linked' = linked \ gone
       /\ Saved([s \in Sources |-> IF s \in gone THEN 0 ELSE entry[s]])
  /\ stale' = {} /\ owner' = Nobody
  /\ UNCHANGED <<source, newest, opened, take, scans>>

\* The clip is exported again, in place or as a new file, or deleted. Window
\* "overtaken": while a take that has its fingerprint waits for the lock.
Export(s) ==
  /\ "overtaken" \in Windows \/ \A t \in Takes : take[t].of = s => ~At(t, "lock")
  /\ newest[s] < MaxVersion
  /\ \E inPlace \in BOOLEAN :
       /\ newest' = [newest EXCEPT ![s] = @ + 1]
       /\ source' = [source EXCEPT ![s] = newest[s] + 1]
       /\ inPlace => source[s] # 0
       /\ IF inPlace /\ s \in linked
            THEN alias' = [alias EXCEPT ![s] = newest[s] + 1] /\ UNCHANGED linked
            ELSE linked' = linked \ {s} /\ UNCHANGED alias
  /\ UNCHANGED <<entry, opened, owner, take, stale, scans>>

Delete(s) ==
  /\ source[s] # 0
  /\ source' = [source EXCEPT ![s] = 0] /\ linked' = linked \ {s}
  /\ UNCHANGED <<newest, alias, entry, opened, owner, take, stale, scans>>

\* The engine opens an alias that was given, and closes it.
Open(s) ==
  /\ \E t \in Takes : At(t, "given") /\ take[t].of = s
  /\ alias[s] # NoAlias /\ s \notin opened
  /\ opened' = opened \cup {s}
  /\ UNCHANGED <<source, newest, alias, linked, entry, owner, take, stale, scans>>

Close(s) ==
  /\ s \in opened /\ opened' = opened \ {s}
  /\ UNCHANGED <<source, newest, alias, linked, entry, owner, take, stale, scans>>

\* PlayOut dies. Window "cut": while a copy is being written.
Dies ==
  /\ "cut" \in Windows \/ \A t \in Takes : ~At(t, "copy") /\ ~At(t, "save")
  /\ owner' = Nobody /\ stale' = {}
  /\ take' = [t \in Takes |-> IF At(t, "idle") THEN take[t] ELSE [take[t] EXCEPT !.at = "failed"]]
  /\ UNCHANGED <<source, newest, alias, linked, entry, opened, scans>>

Next ==
  \/ \E t \in Takes, s \in Sources : Stat(t, s)
  \/ \E t \in Takes :
       Enter(t) \/ HardLink(t) \/ CopyBegins(t) \/ CopyEnds(t) \/ CannotCopy(t) \/ Save(t)
  \/ GcReads \/ GcRemoves
  \/ \E s \in Sources : Export(s) \/ Delete(s) \/ Open(s) \/ Close(s)
  \/ Dies

Spec == Init /\ [][Next]_aliasVars

-----------------------------------------------------------------------------
(* A take that was given an alias, and whose source has not changed since,     *)
(* finds it, and finds that source in it: neither another take of the clip,    *)
(* nor an export meanwhile, nor a collection by a scan makes the engine play   *)
(* an older cut or nothing (ensure_ascii_alias, audit T2-14).                  *)
GivenAliasIsTheClip ==
  \A t \in Takes : At(t, "given") /\ take[t].expected = source[take[t].of] =>
    alias[take[t].of] = source[take[t].of]
=============================================================================
