------------------------------ MODULE AudioPeaks ------------------------------
(* The trim panel's audio envelope (audio_peaks.rs, useTrimAudio.ts): one scan  *)
(* at a time, superseded by every newer request, behind a memory cache and a   *)
(* disk cache keyed by path, size and modification time.                       *)
(*                                                                             *)
(* A file's content is a version; its size and time change with the version,   *)
(* so the key of a file is <<path, version>>, and an envelope is the version   *)
(* ffmpeg read.                                                                *)
EXTENDS Naturals, Sequences, FiniteSets, SequencesExt

CONSTANTS Clips,               \* paths the panel opens
          Requests,            \* get_audio_peaks calls
          None,
          CACHE_ENTRIES, DISK_CACHE_ENTRIES,
          MaxVersion,          \* bound: exports of one clip
          MaxCloses,           \* bound: times the panel closes
          Windows              \* races left open, see Undisturbed

VARIABLES version,   \* version[p]: the content of the file, 0 when there is none
          request,   \* request[r]: a call of get_audio_peaks
          active,    \* ActiveScan: the request whose scan is registered
          cancel,    \* requests whose cancel flag is raised
          memory,    \* PeakCache, oldest first
          disk,      \* the cache directory, oldest first
          panel,     \* peaksGeneration: the request whose answer the panel takes
          closes

peaksVars == <<version, request, active, cancel, memory, disk, panel, closes>>

Idle == [at |-> "idle", clip |-> None, key |-> 0, peaks |-> 0]
Entry(p, v, x) == [key |-> <<p, v>>, peaks |-> x]
Hits(cache, p, v) == {e \in Range(cache) : e.key = <<p, v>>}

\* Between the call and begin_scan: the stat of a share may take its timeout.
Looking == {"called", "stat", "memory", "disk", "begin"}
Undisturbed == "slowstat" \in Windows \/ \A r \in Requests : request[r].at \notin Looking

TypeOK ==
  /\ version \in [Clips -> 0..MaxVersion]
  /\ request \in [Requests ->
       [at : Looking \cup {"idle", "scan", "end", "put", "ready", "none", "error", "cancelled"},
        clip : Clips \cup {None}, key : 0..MaxVersion, peaks : 0..MaxVersion]]
  /\ active \in Requests \cup {None}
  /\ cancel \subseteq Requests
  /\ Len(memory) <= CACHE_ENTRIES /\ Len(disk) <= DISK_CACHE_ENTRIES
  /\ panel \in Requests \cup {None}
  /\ closes \in 0..MaxCloses

Init ==
  /\ version \in [Clips -> 0..1]
  /\ request = [r \in Requests |-> Idle]
  /\ active = None /\ cancel = {} /\ memory = <<>> /\ disk = <<>>
  /\ panel = None /\ closes = 0

Step(r, from, to) ==
  /\ request[r].at = from
  /\ request' = [request EXCEPT ![r].at = to]

\* loadPeaks of useTrimAudio: the panel opens a clip and forgets the one before.
LoadPeaks(r, p) ==
  /\ Undisturbed
  /\ request[r].at = "idle"
  /\ request' = [request EXCEPT ![r] = [at |-> "called", clip |-> p, key |-> 0, peaks |-> 0]]
  /\ panel' = r
  /\ UNCHANGED <<version, active, cancel, memory, disk, closes>>

CancelActiveScan_Forgets == active' = None /\ cancel' = cancel

\* cancel_active_scan: take the registration and raise its flag.
CancelActiveScan ==
  /\ active' = None
  /\ cancel' = cancel \cup ({active} \ {None})

\* cancelScan of useTrimAudio, cancel_audio_peaks: the panel closes.
CancelAudioPeaks ==
  /\ Undisturbed
  /\ closes < MaxCloses /\ panel # None
  /\ panel' = None /\ closes' = closes + 1
  /\ CancelActiveScan
  /\ UNCHANGED <<version, request, memory, disk>>

\* load_peaks, on the blocking pool: stop reading the last clip.
Supersede(r) ==
  /\ Step(r, "called", "stat")
  /\ CancelActiveScan
  /\ UNCHANGED <<version, memory, disk, panel, closes>>

\* The stat: no file, or the key under which the envelope is looked up.
Stat(r) ==
  LET v == version[request[r].clip] IN
  /\ request[r].at = "stat"
  /\ request' = [request EXCEPT ![r].at = IF v = 0 THEN "error" ELSE "memory", ![r].key = v]
  /\ UNCHANGED <<version, active, cancel, memory, disk, panel, closes>>

\* cache_get; disk_cache_get checks the same key in the header of the file.
CacheGet(cache, r) == Hits(cache, request[r].clip, request[r].key)

\* cache_put: the newest last, the oldest evicted. At most one entry has its key.
Without(cache, key) ==
  IF \E i \in DOMAIN cache : cache[i].key = key
  THEN RemoveAt(cache, CHOOSE i \in DOMAIN cache : cache[i].key = key) ELSE cache
Put(cache, limit, e) ==
  LET kept == Append(Without(cache, e.key), e) IN
  IF Len(kept) > limit THEN Tail(kept) ELSE kept

InMemory(r) ==
  /\ request[r].at = "memory"
  /\ IF CacheGet(memory, r) = {}
       THEN Step(r, "memory", "disk")
       ELSE \E e \in CacheGet(memory, r) :
              request' = [request EXCEPT ![r].at = "ready", ![r].peaks = e.peaks]
  /\ UNCHANGED <<version, active, cancel, memory, disk, panel, closes>>

OnDisk(r) ==
  /\ request[r].at = "disk"
  /\ \/ CacheGet(disk, r) = {} /\ Step(r, "disk", "begin") /\ UNCHANGED memory
     \/ \E e \in CacheGet(disk, r) :
          /\ request' = [request EXCEPT ![r].at = "ready", ![r].peaks = e.peaks]
          /\ memory' = Put(memory, CACHE_ENTRIES, Entry(request[r].clip, request[r].key, e.peaks))
  /\ UNCHANGED <<version, active, cancel, disk, panel, closes>>

\* begin_scan: register this scan, cancelling whichever one was running; ffmpeg
\* opens the file as it is now.
BeginScan(r) ==
  /\ request[r].at = "begin"
  /\ request' = [request EXCEPT ![r].at = "scan", ![r].peaks = version[request[r].clip]]
  /\ cancel' = cancel \cup ({active} \ {None})
  /\ active' = r
  /\ UNCHANGED <<version, memory, disk, panel, closes>>

\* scan, try_wait first: ffmpeg ended by itself, whatever the flag says. An
\* export during the scan may show in what was read.
ScanEnds(r) ==
  LET now == version[request[r].clip] IN
  /\ request[r].at = "scan"
  /\ \E read \in {request[r].peaks, now} \ {0} :
       request' = [request EXCEPT ![r].at = "end", ![r].peaks = read]
  /\ UNCHANGED <<version, active, cancel, memory, disk, panel, closes>>

\* end_scan, for a scan that is not followed by a put.
EndScan(r) == active' = IF active = r THEN None ELSE active

\* scan returns CANCELLED; or ffmpeg fails, times out, or finds no audio.
ScanStops(r) ==
  /\ request[r].at = "scan"
  /\ \/ r \in cancel /\ Step(r, "scan", "cancelled")
     \/ Step(r, "scan", "error")
     \/ Step(r, "scan", "none")
  /\ EndScan(r)
  /\ UNCHANGED <<version, cancel, memory, disk, panel, closes>>

\* end_scan, then disk_cache_put with prune_disk_cache.
Kept(r) == Entry(request[r].clip, request[r].key, request[r].peaks)

DiskCachePut(r) ==
  /\ Step(r, "end", "put")
  /\ EndScan(r)
  /\ disk' = Put(disk, DISK_CACHE_ENTRIES, Kept(r))
  /\ UNCHANGED <<version, cancel, memory, panel, closes>>

CachePut(r) ==
  /\ Step(r, "put", "ready")
  /\ memory' = Put(memory, CACHE_ENTRIES, Kept(r))
  /\ UNCHANGED <<version, active, cancel, disk, panel, closes>>

\* A file is exported again.
Export(p) ==
  /\ version[p] < MaxVersion
  /\ version' = [version EXCEPT ![p] = @ + 1]
  /\ UNCHANGED <<request, active, cancel, memory, disk, panel, closes>>

Settled == \A r \in Requests : request[r].at \in {"ready", "none", "error", "cancelled"}
Done == Settled /\ UNCHANGED peaksVars

Next ==
  \/ \E r \in Requests, p \in Clips : LoadPeaks(r, p)
  \/ \E r \in Requests :
       \/ Supersede(r) \/ Stat(r) \/ InMemory(r) \/ OnDisk(r) \/ BeginScan(r)
       \/ ScanEnds(r) \/ ScanStops(r) \/ DiskCachePut(r) \/ CachePut(r)
  \/ \E p \in Clips : Export(p)
  \/ CancelAudioPeaks
  \/ Done

Spec == Init /\ [][Next]_peaksVars

-----------------------------------------------------------------------------
(* What a cache answers for the file as it is now is the envelope of that      *)
(* content: an export during a scan, an eviction or a restart never makes the  *)
(* trim panel draw the sound of another cut (cache key and disk_cache_header). *)
EnvelopeIsOfTheFile ==
  \A p \in Clips : \A e \in Hits(memory, p, version[p]) \cup Hits(disk, p, version[p]) :
    e.peaks = version[p]

(* Once the request of the clip the panel has open has reached load_peaks, and *)
(* once the panel is closed, every other scan has been told to stop            *)
(* (ActiveScan: "every request supersedes it").                                *)
ScansTheOpenClip ==
  \A r \in Requests : request[r].at = "scan" /\ r \notin cancel =>
    panel = r \/ (panel # None /\ request[panel].at = "called")

=============================================================================
