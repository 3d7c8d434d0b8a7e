------------------------------ MODULE FileCache ------------------------------
(***************************************************************************)
(* The judge's on-disk cache of test data, app/modules/judge/file_cache.py,*)
(* and its consumer data_loader.py, for the remote-storage path with the   *)
(* cache enabled.  Celery threads call resolve_or_download concurrently;   *)
(* a call holds the per-key RLock of its own process from the lookup to    *)
(* the return, and removes entries of OTHER keys (LRU, TTL) under a        *)
(* non-blocking acquire of their lock.  Every file-system and storage      *)
(* operation that another thread or process can observe is one action.     *)
(*                                                                         *)
(* Data abstraction.  Bytes are members of Contents and sha256 is          *)
(* injective on them, so the digest of c is written c and the cache key    *)
(* "sha256:<digest of c>" is c itself; "name:<object>" is the object.      *)
(* An ETag is a fingerprint of the object's bytes, written the same way.   *)
(* A nested object name ("oj/problem/7/1.in") puts its meta file in a      *)
(* sub-directory; _key_from_meta_path then yields only the bare base name. *)
(* The Mutant operators are faulty variants of the definition they precede,*)
(* for checking that the properties notice.                                *)
(***************************************************************************)
EXTENDS Integers, FiniteSets, FiniteSetsExt

CONSTANTS Threads,       \* worker threads that run judge tasks
          ProcOf,        \* the operating-system process of each thread
          Objects,       \* object names in the remote bucket
          Contents,      \* file contents (and their sha256 digests)
          Requests,      \* the (object_name, sha256) pairs of the test cases
          Nested,        \* the object names that contain a "/"
          BaseName,      \* last path segment of each nested name
          BareNames,     \* those last segments
          NoSha,         \* the empty input_sha256
          None,          \* absent file, missing meta, Python's None
          Size,          \* len(content)
          MaxBytes,      \* CACHE_MAX_BYTES
          RevalidateInterval, TouchCooldown, LruGracePeriod, Ttl,
          AllowRevert,   \* may an object return to bytes it had before?
          MaxTime,       \* bound on the clock
          MaxFaults      \* bound on I/O errors and crashes

Keys == Contents \cup Objects \cup BareNames
Procs == {ProcOf[t] : t \in Threads}

ASSUME DomainAssumption ==
    /\ ProcOf \in [Threads -> Procs]
    /\ Objects # {}
    /\ Requests \subseteq Objects \X (Contents \cup {NoSha})
    /\ Nested \subseteq Objects
    /\ BaseName \in [Nested -> BareNames]
    /\ Size \in [Contents -> Nat]
    /\ AllowRevert \in BOOLEAN

ASSUME DistinctAssumption ==
    /\ Contents \cap Objects = {}
    /\ Contents \cap BareNames = {}
    /\ Objects \cap BareNames = {}
    /\ NoSha \notin Contents
    /\ None \notin Contents

ASSUME BoundAssumption ==
    /\ MaxBytes \in Nat
    /\ RevalidateInterval \in Nat
    /\ TouchCooldown \in Nat
    /\ LruGracePeriod \in Nat
    /\ Ttl \in Nat
    /\ MaxTime \in Nat
    /\ MaxFaults \in Nat

Meta == [etag : Contents, size : Nat, accessed : Nat, validated : Nat]
Stat == [key : Keys, size : Nat, accessed : Nat]
ASSUME NoneAssumption == None \notin Meta /\ None \notin Keys

VARIABLES
    remote,   \* remote[o]: bytes of object o in the bucket, None if deleted
    past,     \* past[o]: bytes o has had so far, None if it was ever absent
    data,     \* data[k]: the data file of key k
    meta,     \* meta[k]: its .meta.json
    now,      \* time.time()
    faults,   \* I/O errors and crashes so far
    th,       \* th[t]: control point and local variables of thread t
    need      \* need[t]: need_bytes - freed of its eviction

bucket == <<remote, past>>
disk == <<data, meta>>
world == <<bucket, disk, now, faults>>
vars == <<world, th, need>>

PCs == {"idle", "acquire", "lookup", "writemeta", "head", "headed", "rmdata",
        "rmmeta", "download", "storedata", "storemeta", "evictcheck", "collect",
        "evict", "gotpath", "gotnone", "raise", "loading", "inuse",
        "invalidate", "invalidated", "purge", "purgetry"}

Continuations == {"idle", "gotnone", "download", "evict", "invalidated", "purge"}

Local == [pc     : PCs,
          held   : SUBSET Keys,                \* keys whose RLock it holds
          obj    : Objects,                    \* object_name
          sha    : Contents \cup {NoSha},      \* sha256
          etag   : Contents \cup {None},       \* remote_etag, None: no answer
          got    : Contents \cup {None},       \* downloaded bytes
          stamp  : Nat,                        \* the call's own time.time()
          buf    : Meta \cup {None},           \* meta record to be written
          victim : Keys \cup {None},           \* entry being removed
          after  : Continuations,              \* where the removal returns to
          todo   : SUBSET Stat]                \* scanned files still to visit

Blank == [pc |-> "idle", held |-> {}, obj |-> CHOOSE o \in Objects : TRUE,
          sha |-> NoSha, etag |-> None, got |-> None, stamp |-> 0, buf |-> None,
          victim |-> None, after |-> "idle", todo |-> {}]

(***************************************************************************)
(* Addressing.                                                             *)
(***************************************************************************)
CacheKey(o, sha) == IF sha # NoSha THEN sha ELSE o

OwnKey(t) == CacheKey(th[t].obj, th[t].sha)

KeyFromMetaPath(k) == IF k \in Nested THEN BaseName[k] ELSE k

(***************************************************************************)
(* Locks.  A lock is per process and re-entrant, so a thread is refused    *)
(* only while another thread of its own process holds the key.             *)
(***************************************************************************)
MutantNoLock(t, k) == TRUE

Free(t, k) == \A u \in Threads \ {t} : ProcOf[u] = ProcOf[t] => k \notin th[u].held

(***************************************************************************)
(* What the directory scans see: one entry per meta file.                  *)
(***************************************************************************)
MetaFiles == {k \in Keys : meta[k] # None}

CalculateTotalSize == MapThenSumSet(LAMBDA k : meta[k].size, MetaFiles)

CollectStats ==
    {[key |-> k, size |-> meta[k].size, accessed |-> meta[k].accessed] : k \in MetaFiles}

Candidates == {e \in CollectStats : now - e.accessed > LruGracePeriod}

\* int(total - 0.8 * CACHE_MAX_BYTES), for a total above CACHE_MAX_BYTES
NeedBytes(total) == (5 * total - 4 * MaxBytes) \div 5

Oldest(S) == {e \in S : \A f \in S : e.accessed <= f.accessed}

(***************************************************************************)
(* resolve_or_download.                                                    *)
(***************************************************************************)
At(t, label) == th[t].pc = label

Fault == faults < MaxFaults /\ faults' = faults + 1

StartResolve(t, o, sha) ==
    /\ At(t, "idle")
    /\ th' = [th EXCEPT ![t].pc = "acquire", ![t].obj = o, ![t].sha = sha]
    /\ UNCHANGED <<world, need>>

\* with _key_lock(key): blocks until the key is free
Acquire(t) ==
    /\ At(t, "acquire") /\ Free(t, OwnKey(t))
    /\ th' = [th EXCEPT ![t].pc = "lookup", ![t].held = {OwnKey(t)}]
    /\ UNCHANGED <<world, need>>

\* a hit by content address, or by name inside the freshness window
Hit(t) ==
    LET k == OwnKey(t) IN
    /\ data[k] # None
    /\ \/ th[t].sha # NoSha
       \/ meta[k] # None /\ now - meta[k].validated < RevalidateInterval

\* _touch_meta: nothing to write without a meta or inside the cooldown
Touched(m) ==
    IF m = None THEN None
    ELSE IF now - m.accessed < TouchCooldown THEN None
    ELSE [m EXCEPT !.accessed = now]

Serve(t) ==
    LET m == Touched(meta[OwnKey(t)]) IN
    /\ th' = [th EXCEPT ![t].pc = IF m = None THEN "gotpath" ELSE "writemeta",
                        ![t].buf = m, ![t].stamp = now]
    /\ UNCHANGED <<world, need>>

LookupHit(t) == At(t, "lookup") /\ Hit(t) /\ Serve(t)

LookupMiss(t) ==
    /\ At(t, "lookup") /\ ~Hit(t)
    /\ th' = [th EXCEPT ![t].pc = "head"]
    /\ UNCHANGED <<world, need>>

\* _write_meta: tmp + os.replace, an OSError is swallowed
WriteMeta(t) ==
    /\ At(t, "writemeta")
    /\ \/ meta' = [meta EXCEPT ![OwnKey(t)] = th[t].buf] /\ UNCHANGED faults
       \/ Fault /\ UNCHANGED meta
    /\ th' = [th EXCEPT ![t].pc = "gotpath"]
    /\ UNCHANGED <<bucket, data, now, need>>

\* _head_or_none: a 404 and an exception both become None
Head(t) ==
    /\ At(t, "head")
    /\ \/ /\ th' = [th EXCEPT ![t].pc = "headed", ![t].etag = remote[th[t].obj]]
          /\ UNCHANGED faults
       \/ /\ th' = [th EXCEPT ![t].pc = "headed", ![t].etag = None]
          /\ Fault
    /\ UNCHANGED <<bucket, disk, now, need>>

\* 3a with a sha256 and a file that appeared meanwhile: serve it
HeadNoneSha(t) ==
    /\ At(t, "headed") /\ th[t].etag = None
    /\ th[t].sha # NoSha /\ data[OwnKey(t)] # None
    /\ Serve(t)

\* _remove_entry(own key), and where to go from there
RemoveOwn(t, cont) ==
    /\ th' = [th EXCEPT ![t].pc = "rmdata", ![t].victim = OwnKey(t), ![t].after = cont]
    /\ UNCHANGED <<world, need>>

\* 3a: drop the dirty entry and answer None
HeadNoneDirty(t) ==
    /\ At(t, "headed") /\ th[t].etag = None
    /\ th[t].sha = NoSha /\ data[OwnKey(t)] # None
    /\ RemoveOwn(t, "gotnone")

MutantHeadIgnored(t) ==
    /\ At(t, "headed") /\ th[t].etag = None
    /\ data[OwnKey(t)] = None
    /\ th' = [th EXCEPT ![t].pc = "download"]
    /\ UNCHANGED <<world, need>>

HeadNoneMiss(t) ==
    /\ At(t, "headed") /\ th[t].etag = None
    /\ data[OwnKey(t)] = None
    /\ th' = [th EXCEPT ![t].pc = "gotnone"]
    /\ UNCHANGED <<world, need>>

EtagMatch(t) ==
    LET m == meta[OwnKey(t)] IN m # None /\ m.etag = th[t].etag

\* 3b: same ETag, refresh both time stamps
Revalidated(t) ==
    /\ At(t, "headed") /\ th[t].etag # None
    /\ data[OwnKey(t)] # None /\ EtagMatch(t)
    /\ th' = [th EXCEPT ![t].pc = "writemeta", ![t].stamp = now, ![t].buf =
                 [meta[OwnKey(t)] EXCEPT !.validated = now, !.accessed = now]]
    /\ UNCHANGED <<world, need>>

\* 3b: other ETag, drop the entry and download
Outdated(t) ==
    /\ At(t, "headed") /\ th[t].etag # None
    /\ data[OwnKey(t)] # None /\ ~EtagMatch(t)
    /\ RemoveOwn(t, "download")

NotCached(t) ==
    /\ At(t, "headed") /\ th[t].etag # None
    /\ data[OwnKey(t)] = None
    /\ th' = [th EXCEPT ![t].pc = "download"]
    /\ UNCHANGED <<world, need>>

MutantUnchecked(t, c) == TRUE

\* 3c: the bytes may differ from the ones HEAD saw, or be gone
Accepted(t, c) == th[t].sha # NoSha => c = th[t].sha

Download(t) ==
    LET c == remote[th[t].obj] IN
    /\ At(t, "download")
    /\ c # None /\ Accepted(t, c)
    /\ th' = [th EXCEPT ![t].pc = "storedata", ![t].got = c, ![t].stamp = now]
    /\ UNCHANGED <<world, need>>

\* object gone, digest mismatch, or a transport error: the call raises
DownloadFails(t) ==
    LET c == remote[th[t].obj] IN
    /\ At(t, "download")
    /\ \/ (c = None \/ ~Accepted(t, c)) /\ UNCHANGED faults
       \/ Fault
    /\ th' = [th EXCEPT ![t].pc = "raise"]
    /\ UNCHANGED <<bucket, disk, now, need>>

\* _store, first os.replace; the meta carries the time taken before it
StoreData(t) ==
    /\ At(t, "storedata")
    /\ \/ /\ data' = [data EXCEPT ![OwnKey(t)] = th[t].got]
          /\ th' = [th EXCEPT ![t].pc = "storemeta"]
          /\ UNCHANGED faults
       \/ th' = [th EXCEPT ![t].pc = "raise"] /\ Fault /\ UNCHANGED data
    /\ UNCHANGED <<bucket, meta, now, need>>

MutantSecondHead(t) ==
    LET o == th[t].obj IN
    [etag |-> IF remote[o] = None THEN th[t].etag ELSE remote[o],
     size |-> Size[th[t].got], accessed |-> th[t].stamp, validated |-> th[t].stamp]

NewMeta(t) == [etag |-> th[t].etag, size |-> Size[th[t].got],
               accessed |-> th[t].stamp, validated |-> th[t].stamp]

\* _store, second os.replace
StoreMeta(t) ==
    /\ At(t, "storemeta")
    /\ \/ /\ meta' = [meta EXCEPT ![OwnKey(t)] = NewMeta(t)]
          /\ th' = [th EXCEPT ![t].pc = "evictcheck"]
          /\ UNCHANGED faults
       \/ th' = [th EXCEPT ![t].pc = "raise"] /\ Fault /\ UNCHANGED meta
    /\ UNCHANGED <<bucket, data, now, need>>

(***************************************************************************)
(* LRU eviction, still inside _store and under the lock of its own key.    *)
(***************************************************************************)
EvictCheck(t) ==
    LET total == CalculateTotalSize IN
    /\ At(t, "evictcheck")
    /\ \/ /\ total <= MaxBytes
          /\ th' = [th EXCEPT ![t].pc = "gotpath"]
          /\ UNCHANGED need
       \/ /\ total > MaxBytes
          /\ th' = [th EXCEPT ![t].pc = "collect"]
          /\ need' = [need EXCEPT ![t] = NeedBytes(total)]
    /\ UNCHANGED world

Collect(t) ==
    /\ At(t, "collect")
    /\ th' = [th EXCEPT ![t].pc = "evict", ![t].todo = Candidates]
    /\ UNCHANGED <<world, need>>

\* one round: the least recently accessed candidate, if its lock is free
EvictTake(t, e) ==
    LET k == KeyFromMetaPath(e.key) IN
    /\ At(t, "evict") /\ need[t] > 0 /\ e \in Oldest(th[t].todo)
    /\ Free(t, k)
    /\ th' = [th EXCEPT ![t].pc = "rmdata", ![t].held = @ \cup {k}, ![t].victim = k,
                        ![t].after = "evict", ![t].todo = @ \ {e}]
    /\ need' = [need EXCEPT ![t] = @ - e.size]
    /\ UNCHANGED world

MutantEvictBlocks(t, e) == FALSE

EvictSkip(t, e) ==
    /\ At(t, "evict") /\ need[t] > 0 /\ e \in Oldest(th[t].todo)
    /\ ~Free(t, KeyFromMetaPath(e.key))
    /\ th' = [th EXCEPT ![t].todo = @ \ {e}]
    /\ UNCHANGED <<world, need>>

EvictDone(t) ==
    /\ At(t, "evict")
    /\ need[t] <= 0 \/ th[t].todo = {}
    /\ th' = [th EXCEPT ![t].pc = "gotpath"]
    /\ UNCHANGED <<world, need>>

(***************************************************************************)
(* _remove_entry: two unlinks, each of which swallows an OSError.          *)
(***************************************************************************)
RemoveData(t) ==
    /\ At(t, "rmdata")
    /\ \/ data' = [data EXCEPT ![th[t].victim] = None] /\ UNCHANGED faults
       \/ data[th[t].victim] # None /\ Fault /\ UNCHANGED data
    /\ th' = [th EXCEPT ![t].pc = "rmmeta"]
    /\ UNCHANGED <<bucket, meta, now, need>>

\* an eviction or purge releases the key it took, unless it is its own
Borrowed(t) ==
    IF \/ th[t].after = "purge"
       \/ th[t].after = "evict" /\ th[t].victim # OwnKey(t)
    THEN {th[t].victim} ELSE {}

MutantMetaKept(t) ==
    /\ At(t, "rmmeta")
    /\ th' = [th EXCEPT ![t].pc = th[t].after, ![t].held = @ \ Borrowed(t)]
    /\ UNCHANGED <<world, need>>

RemoveMeta(t) ==
    /\ At(t, "rmmeta")
    /\ \/ meta' = [meta EXCEPT ![th[t].victim] = None] /\ UNCHANGED faults
       \/ meta[th[t].victim] # None /\ Fault /\ UNCHANGED meta
    /\ th' = [th EXCEPT ![t].pc = th[t].after, ![t].held = @ \ Borrowed(t)]
    /\ UNCHANGED <<bucket, data, now, need>>

(***************************************************************************)
(* The call ends, which releases the key; data_loader then opens the path  *)
(* it was given, or fails the task.                                        *)
(***************************************************************************)
Stop(t) ==
    /\ th' = [th EXCEPT ![t] = Blank]
    /\ need' = [need EXCEPT ![t] = 0]
    /\ UNCHANGED world

ReturnPath(t) ==
    /\ At(t, "gotpath")
    /\ th' = [th EXCEPT ![t] = [Blank EXCEPT !.pc = "loading", !.obj = th[t].obj,
                                  !.sha = th[t].sha, !.stamp = th[t].stamp]]
    /\ need' = [need EXCEPT ![t] = 0]
    /\ UNCHANGED world

\* resolve_or_download answers None or raises, or invalidate is over
EndCall(t) == th[t].pc \in {"gotnone", "raise", "invalidated"} /\ Stop(t)

\* path.exists() and the digest check of resolve_input_ref/resolve_output_ref
Usable(t) == LET c == data[OwnKey(t)] IN c # None /\ Accepted(t, c)

Load(t) ==
    /\ At(t, "loading") /\ Usable(t)
    /\ th' = [th EXCEPT ![t].pc = "inuse"]
    /\ UNCHANGED <<world, need>>

LoadFails(t) == At(t, "loading") /\ ~Usable(t) /\ Stop(t)

\* the judge is done with the DataRef
FinishUse(t) == At(t, "inuse") /\ Stop(t)

(***************************************************************************)
(* invalidate() and purge_expired().                                       *)
(***************************************************************************)
StartInvalidate(t, o, sha) ==
    /\ At(t, "idle")
    /\ th' = [th EXCEPT ![t].pc = "invalidate", ![t].obj = o, ![t].sha = sha]
    /\ UNCHANGED <<world, need>>

Invalidate(t) ==
    LET k == OwnKey(t) IN
    /\ At(t, "invalidate") /\ Free(t, k)
    /\ th' = [th EXCEPT ![t].pc = "rmdata", ![t].held = {k}, ![t].victim = k,
                        ![t].after = "invalidated"]
    /\ UNCHANGED <<world, need>>

StartPurge(t) ==
    /\ At(t, "idle")
    /\ th' = [th EXCEPT ![t].pc = "purge", ![t].stamp = now, ![t].todo = CollectStats]
    /\ UNCHANGED <<world, need>>

Expired(t, k) ==
    LET m == meta[k] IN m # None /\ th[t].stamp - m.accessed > Ttl

\* the meta is read, and only then is its key tried
PurgeRead(t, e) ==
    /\ At(t, "purge") /\ e \in th[t].todo
    /\ th' = [th EXCEPT ![t].pc = IF Expired(t, e.key) THEN "purgetry" ELSE "purge",
                        ![t].victim = KeyFromMetaPath(e.key), ![t].todo = @ \ {e}]
    /\ UNCHANGED <<world, need>>

PurgeTake(t) ==
    /\ At(t, "purgetry") /\ Free(t, th[t].victim)
    /\ th' = [th EXCEPT ![t].pc = "rmdata", ![t].held = {th[t].victim},
                        ![t].after = "purge"]
    /\ UNCHANGED <<world, need>>

PurgeSkip(t) ==
    /\ At(t, "purgetry") /\ ~Free(t, th[t].victim)
    /\ th' = [th EXCEPT ![t].pc = "purge"]
    /\ UNCHANGED <<world, need>>

PurgeDone(t) == At(t, "purge") /\ th[t].todo = {} /\ Stop(t)

(***************************************************************************)
(* Environment: uploads and deletions in the bucket, the clock, crashes.   *)
(***************************************************************************)
RemotePut(o, c) ==
    /\ remote[o] # c
    /\ AllowRevert \/ c \notin past[o]
    /\ remote' = [remote EXCEPT ![o] = c]
    /\ past' = [past EXCEPT ![o] = @ \cup {c}]
    /\ UNCHANGED <<disk, now, faults, th, need>>

RemoteDelete(o) ==
    /\ remote[o] # None
    /\ remote' = [remote EXCEPT ![o] = None]
    /\ past' = [past EXCEPT ![o] = @ \cup {None}]
    /\ UNCHANGED <<disk, now, faults, th, need>>

Tick ==
    /\ now < MaxTime
    /\ now' = now + 1
    /\ UNCHANGED <<bucket, disk, faults, th, need>>

\* a worker process dies: its threads and locks vanish, its files stay
Crash(p) ==
    /\ Fault
    /\ \E t \in Threads : ProcOf[t] = p /\ ~At(t, "idle")
    /\ th' = [t \in Threads |-> IF ProcOf[t] = p THEN Blank ELSE th[t]]
    /\ need' = [t \in Threads |-> IF ProcOf[t] = p THEN 0 ELSE need[t]]
    /\ UNCHANGED <<bucket, disk, now>>

(***************************************************************************)
(* Specification.                                                          *)
(***************************************************************************)
Init ==
    /\ remote \in [Objects -> Contents \cup {None}]
    /\ past = [o \in Objects |-> {remote[o]}]
    /\ data = [k \in Keys |-> None]
    /\ meta = [k \in Keys |-> None]
    /\ now = 0
    /\ faults = 0
    /\ th = [t \in Threads |-> Blank]
    /\ need = [t \in Threads |-> 0]

\* one step of resolve_or_download and of data_loader after it
ResolveStep(t) ==
    \/ LookupHit(t) \/ LookupMiss(t) \/ WriteMeta(t) \/ Head(t)
    \/ HeadNoneSha(t) \/ HeadNoneDirty(t) \/ HeadNoneMiss(t)
    \/ Revalidated(t) \/ Outdated(t) \/ NotCached(t)
    \/ Download(t) \/ DownloadFails(t) \/ StoreData(t) \/ StoreMeta(t)
    \/ EvictCheck(t) \/ Collect(t) \/ EvictDone(t)
    \/ \E e \in th[t].todo : EvictTake(t, e) \/ EvictSkip(t, e)
    \/ RemoveData(t) \/ RemoveMeta(t)
    \/ ReturnPath(t) \/ EndCall(t)
    \/ Load(t) \/ LoadFails(t) \/ FinishUse(t)

PurgeStep(t) ==
    \/ \E e \in th[t].todo : PurgeRead(t, e)
    \/ PurgeTake(t) \/ PurgeSkip(t) \/ PurgeDone(t)

\* the two blocking acquires
LockStep(t) == Acquire(t) \/ Invalidate(t)

Request(t) == \E r \in Requests : StartResolve(t, r[1], r[2])

\* entry points kept for an administrator; the worker itself calls neither
Maintain(t) ==
    \/ \E r \in Requests : StartInvalidate(t, r[1], r[2])
    \/ StartPurge(t)

Environment ==
    \/ \E o \in Objects, c \in Contents : RemotePut(o, c)
    \/ \E o \in Objects : RemoteDelete(o)
    \/ Tick
    \/ \E p \in Procs : Crash(p)

\* The worker as it runs: judge tasks only.
WorkerNext ==
    \/ \E t \in Threads : Request(t) \/ LockStep(t) \/ ResolveStep(t)
    \/ Environment

Next ==
    \/ WorkerNext
    \/ \E t \in Threads : Maintain(t) \/ PurgeStep(t)

WorkerSpec == Init /\ [][WorkerNext]_vars

Spec == Init /\ [][Next]_vars

(***************************************************************************)
(* Fairness: a thread inside the cache is scheduled, every storage call    *)
(* ends, and an RLock that is released again and again is finally granted. *)
(* Nothing makes requests, uploads, the clock or faults happen.            *)
(***************************************************************************)
FairSpec ==
    /\ Spec
    /\ \A t \in Threads : WF_vars(ResolveStep(t) \/ PurgeStep(t))
    /\ \A t \in Threads : SF_vars(LockStep(t))

(***************************************************************************)
(* Properties.                                                             *)
(***************************************************************************)

\* Every variable and every thread-local of the cache has its type.
TypeOK ==
    /\ remote \in [Objects -> Contents \cup {None}]
    /\ past \in [Objects -> SUBSET (Contents \cup {None})]
    /\ data \in [Keys -> Contents \cup {None}]
    /\ meta \in [Keys -> Meta \cup {None}]
    /\ now \in Nat
    /\ faults \in Nat
    /\ th \in [Threads -> Local]
    /\ DOMAIN need = Threads

\* A data file stored under "sha256:<digest>" has that digest, whatever the
\* threads, the processes that share the directory, crashes and uploads do:
\* this is what lets step 1 of the lookup skip every remote check.
ContentAddressed == \A c \in Contents : data[c] \in {c, None}

Unlocked(k) == \A t \in Threads : k \notin th[t].held

\* In one process without I/O errors, an entry nobody holds has both files or
\* neither, and the meta records the size of the data: the scans of the LRU
\* and of the purge, which see meta files only, see exactly what is cached.
EntryPaired ==
    faults = 0 =>
        \A k \in Keys : Unlocked(k) =>
            /\ data[k] = None <=> meta[k] = None
            /\ data[k] # None => meta[k].size = Size[data[k]]

\* A name-addressed entry whose stored ETag is the bucket's current one holds
\* the bucket's current bytes, so an ETag match (step 3b) never validates
\* outdated test data, although HEAD and GET are two separate calls.
EtagHonest ==
    \A o \in Objects :
        /\ Unlocked(o)
        /\ data[o] # None /\ meta[o] # None
        /\ meta[o].etag = remote[o]
        => data[o] = remote[o]

\* A path is returned only while its file is there: no other thread of the
\* process can evict it first, and the caller's own eviction can only if
\* storing it took longer than the grace period.
ReturnedPathExists ==
    \A t \in Threads :
        At(t, "gotpath") /\ data[OwnKey(t)] = None => now - th[t].stamp > LruGracePeriod

\* Every call of resolve_or_download, invalidate and purge_expired ends, and
\* with it the use of the file: no set of callers waits for each other's keys.
CallsEnd == \A t \in Threads : th[t].pc # "idle" ~> th[t].pc = "idle"
=============================================================================
