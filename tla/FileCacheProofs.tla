--------------------------- MODULE FileCacheProofs ---------------------------
(***************************************************************************)
(* Theorems about FileCache and JudgeFiles for any sets of threads,        *)
(* objects and contents, any number of faults and any time-outs and        *)
(* limits: first for any number of processes on one directory, then for    *)
(* the threads of one process, which the key locks keep apart.             *)
(*                                                                         *)
(* ContentAddressed is not inductive: a thread that has downloaded bytes   *)
(* could store them under a digest they do not have.  IInv adds what the   *)
(* control point of a thread says about its local variables: from the      *)
(* download on the ETag is known, and bytes on their way to the disk have  *)
(* passed the digest check.                                                *)
(***************************************************************************)
EXTENDS JudgeFiles, TLAPS

Fetched(l) ==
    /\ l.pc \in {"download", "storedata", "storemeta"} => l.etag # None
    /\ l.pc \in {"rmdata", "rmmeta"} /\ l.after = "download" => l.etag # None
    /\ l.pc \in {"storedata", "storemeta"} =>
          l.got # None /\ (l.sha # NoSha => l.got = l.sha)
    /\ l.pc = "purgetry" => l.victim # None

IInv ==
    /\ TypeOK
    /\ ContentAddressed
    /\ \A t \in Threads : Fetched(th[t])

(***************************************************************************)
(* Operators.                                                              *)
(***************************************************************************)

\* The locals of a thread outside the cache are well typed.
LEMMA BlankLocal == Blank \in Local /\ Fetched(Blank)
  BY DomainAssumption DEF Blank, Local, PCs, Continuations, Fetched

\* _cache_key yields a key, and a digest key only from a digest request.
LEMMA OwnKeyInKeys ==
    ASSUME TypeOK, NEW t \in Threads
    PROVE  /\ OwnKey(t) \in Keys
           /\ \A c \in Contents : OwnKey(t) = c => th[t].sha = c
  BY DistinctAssumption DEF TypeOK, OwnKey, CacheKey, Keys, Local

\* _collect_stats yields well-typed entries, and so do the candidates.
LEMMA StatsTyped ==
    ASSUME TypeOK
    PROVE  CollectStats \in SUBSET Stat /\ Candidates \in SUBSET Stat
  BY DEF TypeOK, CollectStats, Candidates, MetaFiles, Stat, Meta

\* _key_from_meta_path yields a key.
LEMMA MetaPathInKeys == ASSUME NEW k \in Keys PROVE KeyFromMetaPath(k) \in Keys
  BY DomainAssumption DEF KeyFromMetaPath, Keys

\* _touch_meta writes a well-typed meta record or nothing.
LEMMA TouchedTyped ==
    ASSUME NEW m \in Meta \cup {None}, now \in Nat
    PROVE  Touched(m) \in Meta \cup {None}
  BY NoneAssumption DEF Touched, Meta

(***************************************************************************)
(* One step of one thread keeps IInv if its new locals are sound and the   *)
(* disk stays well typed and content-addressed.                            *)
(***************************************************************************)
LEMMA ThreadStep ==
    ASSUME IInv, NEW t \in Threads, NEW l \in Local, Fetched(l),
           th' = [th EXCEPT ![t] = l],
           data' \in [Keys -> Contents \cup {None}],
           meta' \in [Keys -> Meta \cup {None}],
           \A c \in Contents : data'[c] \in {c, None},
           UNCHANGED <<bucket, now>>, faults' \in Nat, DOMAIN need' = Threads
    PROVE  IInv'
<1>1. th' \in [Threads -> Local]
  BY DEF IInv, TypeOK
<1>2. \A u \in Threads : Fetched(th'[u])
  BY DEF IInv, TypeOK
<1>3. TypeOK' /\ ContentAddressed'
  BY <1>1 DEF IInv, TypeOK, ContentAddressed, bucket
<1> QED
  BY <1>2, <1>3 DEF IInv, Fetched

\* The same for a step that leaves the disk alone.
LEMMA QuietStep ==
    ASSUME IInv, NEW t \in Threads, NEW l \in Local, Fetched(l),
           th' = [th EXCEPT ![t] = l],
           UNCHANGED <<bucket, disk, now>>, faults' \in Nat, DOMAIN need' = Threads
    PROVE  IInv'
<1>1. /\ data' \in [Keys -> Contents \cup {None}]
      /\ meta' \in [Keys -> Meta \cup {None}]
      /\ \A c \in Contents : data'[c] \in {c, None}
  BY DEF IInv, TypeOK, ContentAddressed, disk
<1> QED
  BY <1>1, ThreadStep

\* What IInv says about the thread that takes a step.
LEMMA StepFacts ==
    ASSUME IInv, NEW t \in Threads
    PROVE  /\ TypeOK
           /\ th \in [Threads -> Local] /\ th[t] \in Local /\ Fetched(th[t])
           /\ OwnKey(t) \in Keys
           /\ remote[th[t].obj] \in Contents \cup {None}
           /\ meta[OwnKey(t)] \in Meta \cup {None}
           /\ now \in Nat /\ faults \in Nat
           /\ DOMAIN need = Threads
<1>1. TypeOK /\ Fetched(th[t])
  BY DEF IInv
<1>2. th[t].obj \in Objects /\ OwnKey(t) \in Keys
  BY <1>1, OwnKeyInKeys DEF TypeOK, Local
<1> QED
  BY <1>1, <1>2 DEF TypeOK

(***************************************************************************)
(* The steps that leave the disk alone.                                    *)
(***************************************************************************)
\* A request puts its object and digest into the locals of an idle thread.
LEMMA StartResolveInv ==
    ASSUME IInv, NEW t \in Threads, NEW o \in Objects,
           NEW sha \in Contents \cup {NoSha}, StartResolve(t, o, sha) PROVE IInv'
<1> DEFINE l == [th[t] EXCEPT !.pc = "acquire", !.obj = o, !.sha = sha]
<1>0. th \in [Threads -> Local] /\ th[t] \in Local /\ Fetched(th[t])
  BY StepFacts
<1>1. l \in Local
  BY <1>0 DEF Local, PCs, Continuations
<1>2. Fetched(l)
  BY <1>0 DEF Fetched, Local, StartResolve, At
<1>3. th' = [th EXCEPT ![t] = l]
  BY <1>0 DEF StartResolve
<1> QED
  BY <1>1, <1>2, <1>3, StepFacts, QuietStep DEF StartResolve, world

\* Taking the key lock changes only the set of held keys.
LEMMA AcquireInv ==
    ASSUME IInv, NEW t \in Threads, Acquire(t) PROVE IInv'
<1> DEFINE l == [th[t] EXCEPT !.pc = "lookup", !.held = {OwnKey(t)}]
<1>0. th \in [Threads -> Local] /\ th[t] \in Local /\ Fetched(th[t])
  BY StepFacts
<1>5. {OwnKey(t)} \in SUBSET Keys
  BY StepFacts
<1>1. l \in Local
  BY <1>0, <1>5 DEF Local, PCs, Continuations
<1>2. Fetched(l)
  BY <1>0 DEF Fetched, Local, Acquire, At
<1>3. th' = [th EXCEPT ![t] = l]
  BY <1>0 DEF Acquire
<1> QED
  BY <1>1, <1>2, <1>3, <1>5, StepFacts, QuietStep DEF Acquire, world

\* A miss goes on to the HEAD request with unchanged locals.
LEMMA LookupMissInv ==
    ASSUME IInv, NEW t \in Threads, LookupMiss(t) PROVE IInv'
<1> DEFINE l == [th[t] EXCEPT !.pc = "head"]
<1>0. th \in [Threads -> Local] /\ th[t] \in Local /\ Fetched(th[t])
  BY StepFacts
<1>1. l \in Local
  BY <1>0 DEF Local, PCs, Continuations
<1>2. Fetched(l)
  BY <1>0 DEF Fetched, Local, LookupMiss, At
<1>3. th' = [th EXCEPT ![t] = l]
  BY <1>0 DEF LookupMiss
<1> QED
  BY <1>1, <1>2, <1>3, StepFacts, QuietStep DEF LookupMiss, world

\* Without a remote answer and without a file the call answers None.
LEMMA HeadNoneMissInv ==
    ASSUME IInv, NEW t \in Threads, HeadNoneMiss(t) PROVE IInv'
<1> DEFINE l == [th[t] EXCEPT !.pc = "gotnone"]
<1>0. th \in [Threads -> Local] /\ th[t] \in Local /\ Fetched(th[t])
  BY StepFacts
<1>1. l \in Local
  BY <1>0 DEF Local, PCs, Continuations
<1>2. Fetched(l)
  BY <1>0 DEF Fetched, Local, HeadNoneMiss, At
<1>3. th' = [th EXCEPT ![t] = l]
  BY <1>0 DEF HeadNoneMiss
<1> QED
  BY <1>1, <1>2, <1>3, StepFacts, QuietStep DEF HeadNoneMiss, world

\* An object with an ETag and no cached file goes to the download.
LEMMA NotCachedInv ==
    ASSUME IInv, NEW t \in Threads, NotCached(t) PROVE IInv'
<1> DEFINE l == [th[t] EXCEPT !.pc = "download"]
<1>0. th \in [Threads -> Local] /\ th[t] \in Local /\ Fetched(th[t])
  BY StepFacts
<1>1. l \in Local
  BY <1>0 DEF Local, PCs, Continuations
<1>2. Fetched(l)
  BY <1>0 DEF Fetched, Local, NotCached, At
<1>3. th' = [th EXCEPT ![t] = l]
  BY <1>0 DEF NotCached
<1> QED
  BY <1>1, <1>2, <1>3, StepFacts, QuietStep DEF NotCached, world

\* A hit remembers a well-typed meta record to write, or none.
LEMMA ServeInv ==
    ASSUME IInv, NEW t \in Threads, Serve(t) PROVE IInv'
<1> DEFINE m == Touched(meta[OwnKey(t)])
           p == IF m = None THEN "gotpath" ELSE "writemeta"
<1>0. th \in [Threads -> Local] /\ th[t] \in Local /\ Fetched(th[t])
  BY StepFacts
<1>1. p \in {"gotpath", "writemeta"} /\ m \in Meta \cup {None} /\ now \in Nat
  BY StepFacts, TouchedTyped
<1>2. th' = [th EXCEPT ![t].pc = p, ![t].buf = m, ![t].stamp = now]
  BY DEF Serve
<1> HIDE DEF m, p
<1> DEFINE l == [th[t] EXCEPT !.pc = p, !.buf = m, !.stamp = now]
<1>3. l \in Local
  BY <1>0, <1>1 DEF Local, PCs
<1>4. Fetched(l)
  BY <1>0, <1>1 DEF Fetched, Local
<1>5. th' = [th EXCEPT ![t] = l]
  BY <1>0, <1>2
<1> QED
  BY <1>3, <1>4, <1>5, StepFacts, QuietStep DEF Serve, world

\* Dropping its own entry: a removal that goes on to the download knows the ETag.
LEMMA RemoveOwnInv ==
    ASSUME IInv, NEW t \in Threads, NEW cont \in Continuations,
           cont = "download" => th[t].etag # None, RemoveOwn(t, cont) PROVE IInv'
<1> DEFINE l == [th[t] EXCEPT !.pc = "rmdata", !.victim = OwnKey(t), !.after = cont]
<1>0. th \in [Threads -> Local] /\ th[t] \in Local /\ Fetched(th[t])
  BY StepFacts
<1>1. l \in Local
  BY <1>0, StepFacts DEF Local, PCs, Continuations
<1>2. Fetched(l)
  BY <1>0 DEF Fetched, Local, RemoveOwn, At
<1>3. th' = [th EXCEPT ![t] = l]
  BY <1>0 DEF RemoveOwn
<1> QED
  BY <1>1, <1>2, <1>3, StepFacts, QuietStep DEF RemoveOwn, world

\* An ETag match refreshes the time stamps of a well-typed meta record.
LEMMA RevalidatedInv ==
    ASSUME IInv, NEW t \in Threads, Revalidated(t) PROVE IInv'
<1> DEFINE l == [th[t] EXCEPT !.pc = "writemeta", !.stamp = now, !.buf =
                     [meta[OwnKey(t)] EXCEPT !.validated = now, !.accessed = now]]
<1>0. th \in [Threads -> Local] /\ th[t] \in Local /\ Fetched(th[t])
  BY StepFacts
<1>5. meta[OwnKey(t)] \in Meta /\ now \in Nat
  BY StepFacts DEF Revalidated, EtagMatch
<1>6. [meta[OwnKey(t)] EXCEPT !.validated = now, !.accessed = now] \in Meta
  BY <1>5 DEF Meta
<1>1. l \in Local
  BY <1>0, <1>5, <1>6 DEF Local, PCs, Continuations
<1>2. Fetched(l)
  BY <1>0 DEF Fetched, Local, Revalidated, At
<1>3. th' = [th EXCEPT ![t] = l]
  BY <1>0 DEF Revalidated
<1> QED
  BY <1>1, <1>2, <1>3, <1>5, <1>6, StepFacts, QuietStep DEF Revalidated, world

\* Downloaded bytes are kept only if they passed the digest check.
LEMMA DownloadInv ==
    ASSUME IInv, NEW t \in Threads, Download(t) PROVE IInv'
<1> DEFINE l == [th[t] EXCEPT !.pc = "storedata", !.got = remote[th[t].obj], !.stamp = now]
<1>0. th \in [Threads -> Local] /\ th[t] \in Local /\ Fetched(th[t])
  BY StepFacts
<1>1. l \in Local
  BY <1>0, StepFacts DEF Local, PCs, Continuations
<1>2. Fetched(l)
  BY <1>0 DEF Fetched, Local, Download, At, Accepted
<1>3. th' = [th EXCEPT ![t] = l]
  BY <1>0 DEF Download
<1> QED
  BY <1>1, <1>2, <1>3, StepFacts, QuietStep DEF Download, world

\* A failed download leaves the disk alone and raises.
LEMMA DownloadFailsInv ==
    ASSUME IInv, NEW t \in Threads, DownloadFails(t) PROVE IInv'
<1> DEFINE l == [th[t] EXCEPT !.pc = "raise"]
<1>0. th \in [Threads -> Local] /\ th[t] \in Local /\ Fetched(th[t])
  BY StepFacts
<1>5. faults' \in Nat
  BY StepFacts DEF DownloadFails, Fault
<1>1. l \in Local
  BY <1>0, <1>5 DEF Local, PCs, Continuations
<1>2. Fetched(l)
  BY <1>0 DEF Fetched, Local, DownloadFails, At
<1>3. th' = [th EXCEPT ![t] = l]
  BY <1>0 DEF DownloadFails
<1> QED
  BY <1>1, <1>2, <1>3, <1>5, StepFacts, QuietStep DEF DownloadFails, world

\* The LRU candidates are well-typed scan entries.
LEMMA CollectInv ==
    ASSUME IInv, NEW t \in Threads, Collect(t) PROVE IInv'
<1> DEFINE l == [th[t] EXCEPT !.pc = "evict", !.todo = Candidates]
<1>0. th \in [Threads -> Local] /\ th[t] \in Local /\ Fetched(th[t])
  BY StepFacts
<1>1. l \in Local
  BY <1>0, StepFacts, StatsTyped DEF Local, PCs, Continuations
<1>2. Fetched(l)
  BY <1>0 DEF Fetched, Local, Collect, At
<1>3. th' = [th EXCEPT ![t] = l]
  BY <1>0 DEF Collect
<1> QED
  BY <1>1, <1>2, <1>3, StepFacts, QuietStep DEF Collect, world

\* An entry whose key is busy is dropped from the candidates.
LEMMA EvictSkipInv ==
    ASSUME IInv, NEW t \in Threads, NEW e \in Stat, EvictSkip(t, e) PROVE IInv'
<1> DEFINE l == [th[t] EXCEPT !.todo = @ \ {e}]
<1>0. th \in [Threads -> Local] /\ th[t] \in Local /\ Fetched(th[t])
  BY StepFacts
<1>1. l \in Local
  BY <1>0 DEF Local, PCs, Continuations
<1>2. Fetched(l)
  BY <1>0 DEF Fetched, Local, EvictSkip, At
<1>3. th' = [th EXCEPT ![t] = l]
  BY <1>0 DEF EvictSkip
<1> QED
  BY <1>1, <1>2, <1>3, StepFacts, QuietStep DEF EvictSkip, world

\* The end of the eviction returns the path.
LEMMA EvictDoneInv ==
    ASSUME IInv, NEW t \in Threads, EvictDone(t) PROVE IInv'
<1> DEFINE l == [th[t] EXCEPT !.pc = "gotpath"]
<1>0. th \in [Threads -> Local] /\ th[t] \in Local /\ Fetched(th[t])
  BY StepFacts
<1>1. l \in Local
  BY <1>0 DEF Local, PCs, Continuations
<1>2. Fetched(l)
  BY <1>0 DEF Fetched, Local, EvictDone, At
<1>3. th' = [th EXCEPT ![t] = l]
  BY <1>0 DEF EvictDone
<1> QED
  BY <1>1, <1>2, <1>3, StepFacts, QuietStep DEF EvictDone, world

\* An entry taken for eviction becomes the victim, whose key is a cache key.
LEMMA EvictTakeInv ==
    ASSUME IInv, NEW t \in Threads, NEW e \in Stat, EvictTake(t, e) PROVE IInv'
<1> DEFINE l == [th[t] EXCEPT !.pc = "rmdata", !.held = @ \cup {KeyFromMetaPath(e.key)},
                                 !.victim = KeyFromMetaPath(e.key),
                                 !.after = "evict", !.todo = @ \ {e}]
<1>0. th \in [Threads -> Local] /\ th[t] \in Local /\ Fetched(th[t])
  BY StepFacts
<1>1. l \in Local
  BY <1>0, MetaPathInKeys DEF Local, PCs, Continuations, Stat
<1>2. Fetched(l)
  BY <1>0 DEF Fetched, Local, EvictTake, At
<1>3. th' = [th EXCEPT ![t] = l]
  BY <1>0 DEF EvictTake
<1> QED
  BY <1>1, <1>2, <1>3, StepFacts, QuietStep DEF EvictTake, world

\* Opening the returned path changes the control point only.
LEMMA LoadInv ==
    ASSUME IInv, NEW t \in Threads, Load(t) PROVE IInv'
<1> DEFINE l == [th[t] EXCEPT !.pc = "inuse"]
<1>0. th \in [Threads -> Local] /\ th[t] \in Local /\ Fetched(th[t])
  BY StepFacts
<1>1. l \in Local
  BY <1>0 DEF Local, PCs, Continuations
<1>2. Fetched(l)
  BY <1>0 DEF Fetched, Local, Load, At
<1>3. th' = [th EXCEPT ![t] = l]
  BY <1>0 DEF Load
<1> QED
  BY <1>1, <1>2, <1>3, StepFacts, QuietStep DEF Load, world

\* invalidate puts its object and digest into the locals of an idle thread.
LEMMA StartInvalidateInv ==
    ASSUME IInv, NEW t \in Threads, NEW o \in Objects,
           NEW sha \in Contents \cup {NoSha}, StartInvalidate(t, o, sha) PROVE IInv'
<1> DEFINE l == [th[t] EXCEPT !.pc = "invalidate", !.obj = o, !.sha = sha]
<1>0. th \in [Threads -> Local] /\ th[t] \in Local /\ Fetched(th[t])
  BY StepFacts
<1>1. l \in Local
  BY <1>0 DEF Local, PCs, Continuations
<1>2. Fetched(l)
  BY <1>0 DEF Fetched, Local, StartInvalidate, At
<1>3. th' = [th EXCEPT ![t] = l]
  BY <1>0 DEF StartInvalidate
<1> QED
  BY <1>1, <1>2, <1>3, StepFacts, QuietStep DEF StartInvalidate, world

\* invalidate takes its key lock and makes the entry the victim.
LEMMA InvalidateInv ==
    ASSUME IInv, NEW t \in Threads, Invalidate(t) PROVE IInv'
<1> DEFINE l == [th[t] EXCEPT !.pc = "rmdata", !.held = {OwnKey(t)}, !.victim = OwnKey(t),
                                 !.after = "invalidated"]
<1>0. th \in [Threads -> Local] /\ th[t] \in Local /\ Fetched(th[t])
  BY StepFacts
<1>5. OwnKey(t) \in Keys /\ {OwnKey(t)} \in SUBSET Keys
  BY StepFacts
<1>1. l \in Local
  BY <1>0, <1>5 DEF Local, PCs, Continuations
<1>2. Fetched(l)
  BY <1>0 DEF Fetched, Local, Invalidate, At
<1>3. th' = [th EXCEPT ![t] = l]
  BY <1>0 DEF Invalidate
<1> QED
  BY <1>1, <1>2, <1>3, <1>5, StepFacts, QuietStep DEF Invalidate, world

\* A purge starts with a well-typed scan of the directory.
LEMMA StartPurgeInv ==
    ASSUME IInv, NEW t \in Threads, StartPurge(t) PROVE IInv'
<1> DEFINE l == [th[t] EXCEPT !.pc = "purge", !.stamp = now, !.todo = CollectStats]
<1>0. th \in [Threads -> Local] /\ th[t] \in Local /\ Fetched(th[t])
  BY StepFacts
<1>1. l \in Local
  BY <1>0, StepFacts, StatsTyped DEF Local, PCs, Continuations
<1>2. Fetched(l)
  BY <1>0 DEF Fetched, Local, StartPurge, At
<1>3. th' = [th EXCEPT ![t] = l]
  BY <1>0 DEF StartPurge
<1> QED
  BY <1>1, <1>2, <1>3, StepFacts, QuietStep DEF StartPurge, world

\* A purge that finds an expired meta makes its key the victim.
LEMMA PurgeReadInv ==
    ASSUME IInv, NEW t \in Threads, NEW e \in Stat, PurgeRead(t, e) PROVE IInv'
<1> DEFINE p == IF Expired(t, e.key) THEN "purgetry" ELSE "purge"
           k == KeyFromMetaPath(e.key)
<1>0. th \in [Threads -> Local] /\ th[t] \in Local /\ Fetched(th[t])
  BY StepFacts
<1>1. p \in {"purgetry", "purge"} /\ k \in Keys
  BY MetaPathInKeys DEF Stat
<1>2. th' = [th EXCEPT ![t].pc = p, ![t].victim = k, ![t].todo = @ \ {e}]
  BY DEF PurgeRead
<1> HIDE DEF p, k
<1> DEFINE l == [th[t] EXCEPT !.pc = p, !.victim = k, !.todo = @ \ {e}]
<1>3. l \in Local
  BY <1>0, <1>1 DEF Local, PCs
<1>4. Fetched(l)
  BY <1>0, <1>1, NoneAssumption DEF Fetched, Local
<1>5. th' = [th EXCEPT ![t] = l]
  BY <1>0, <1>2
<1> QED
  BY <1>3, <1>4, <1>5, StepFacts, QuietStep DEF PurgeRead, world

\* A purge that gets the lock of its victim goes on to remove it.
LEMMA PurgeTakeInv ==
    ASSUME IInv, NEW t \in Threads, PurgeTake(t) PROVE IInv'
<1> DEFINE l == [th[t] EXCEPT !.pc = "rmdata", !.held = {th[t].victim}, !.after = "purge"]
<1>0. th \in [Threads -> Local] /\ th[t] \in Local /\ Fetched(th[t])
  BY StepFacts
<1>5. th[t].victim \in Keys /\ {th[t].victim} \in SUBSET Keys
  BY <1>0 DEF PurgeTake, At, Fetched, Local
<1>1. l \in Local
  BY <1>0, <1>5 DEF Local, PCs, Continuations
<1>2. Fetched(l)
  BY <1>0 DEF Fetched, Local, PurgeTake, At
<1>3. th' = [th EXCEPT ![t] = l]
  BY <1>0 DEF PurgeTake
<1> QED
  BY <1>1, <1>2, <1>3, <1>5, StepFacts, QuietStep DEF PurgeTake, world

\* A purge that does not get the lock goes on to the next file.
LEMMA PurgeSkipInv ==
    ASSUME IInv, NEW t \in Threads, PurgeSkip(t) PROVE IInv'
<1> DEFINE l == [th[t] EXCEPT !.pc = "purge"]
<1>0. th \in [Threads -> Local] /\ th[t] \in Local /\ Fetched(th[t])
  BY StepFacts
<1>1. l \in Local
  BY <1>0 DEF Local, PCs, Continuations
<1>2. Fetched(l)
  BY <1>0 DEF Fetched, Local, PurgeSkip, At
<1>3. th' = [th EXCEPT ![t] = l]
  BY <1>0 DEF PurgeSkip
<1> QED
  BY <1>1, <1>2, <1>3, StepFacts, QuietStep DEF PurgeSkip, world

\* Returning from a call blanks the locals of the thread.
LEMMA StopInv ==
    ASSUME IInv, NEW t \in Threads, Stop(t) PROVE IInv'
<1> DEFINE l == Blank
<1>0. th \in [Threads -> Local] /\ th[t] \in Local /\ Fetched(th[t])
  BY StepFacts
<1>1. l \in Local
  BY <1>0, BlankLocal DEF Local, PCs, Continuations
<1>2. Fetched(l)
  BY <1>0, BlankLocal DEF Fetched, Local, Stop, At
<1>3. th' = [th EXCEPT ![t] = l]
  BY <1>0 DEF Stop
<1> QED
  BY <1>1, <1>2, <1>3, StepFacts, QuietStep DEF Stop, world

\* Returning a path keeps only the request.
LEMMA ReturnPathInv ==
    ASSUME IInv, NEW t \in Threads, ReturnPath(t) PROVE IInv'
<1> DEFINE l == [Blank EXCEPT !.pc = "loading", !.obj = th[t].obj,
                               !.sha = th[t].sha, !.stamp = th[t].stamp]
<1>0. th \in [Threads -> Local] /\ th[t] \in Local /\ Fetched(th[t])
  BY StepFacts
<1>1. l \in Local
  BY <1>0, BlankLocal DEF Local, PCs, Continuations
<1>2. Fetched(l)
  BY <1>0, BlankLocal DEF Fetched, Local, ReturnPath, At
<1>3. th' = [th EXCEPT ![t] = l]
  BY <1>0 DEF ReturnPath
<1> QED
  BY <1>1, <1>2, <1>3, StepFacts, QuietStep DEF ReturnPath, world

\* the entry an eviction or purge visits is one of its scanned files
LEMMA TodoTyped ==
    ASSUME IInv, NEW t \in Threads, NEW e \in th[t].todo PROVE e \in Stat
  BY StepFacts DEF Local

(***************************************************************************)
(* The steps that write the disk.                                          *)
(***************************************************************************)
\* _write_meta writes a well-typed record; the data files stay as they are.
LEMMA WriteMetaInv ==
    ASSUME IInv, NEW t \in Threads, WriteMeta(t) PROVE IInv'
<1> DEFINE l == [th[t] EXCEPT !.pc = "gotpath"]
<1>0. th \in [Threads -> Local] /\ th[t] \in Local /\ Fetched(th[t])
  BY StepFacts
<1>1. l \in Local
  BY <1>0 DEF Local, PCs
<1>2. Fetched(l)
  BY <1>0 DEF Fetched, Local
<1>3. th' = [th EXCEPT ![t] = l]
  BY <1>0 DEF WriteMeta
<1>4. meta' \in [Keys -> Meta \cup {None}]
  <2>1. th[t].buf \in Meta \cup {None}
    BY <1>0 DEF Local
  <2> QED
    BY <2>1 DEF WriteMeta, IInv, TypeOK
<1>5. faults' \in Nat
  BY StepFacts DEF WriteMeta, Fault
<1> QED
  BY <1>1, <1>2, <1>3, <1>4, <1>5, ThreadStep DEF WriteMeta, IInv, TypeOK, ContentAddressed

\* HEAD yields the current fingerprint or None.
LEMMA HeadInv ==
    ASSUME IInv, NEW t \in Threads, Head(t) PROVE IInv'
<1>0. th \in [Threads -> Local] /\ th[t] \in Local /\ Fetched(th[t])
  BY StepFacts
<1>1. PICK r \in Contents \cup {None} :
          th' = [th EXCEPT ![t].pc = "headed", ![t].etag = r]
  BY StepFacts DEF Head
<1> DEFINE l == [th[t] EXCEPT !.pc = "headed", !.etag = r]
<1>2. l \in Local
  BY <1>0 DEF Local, PCs
<1>3. Fetched(l)
  BY <1>0 DEF Fetched, Local
<1>4. th' = [th EXCEPT ![t] = l]
  BY <1>0, <1>1
<1>5. faults' \in Nat
  BY StepFacts DEF Head, Fault
<1> QED
  BY <1>2, <1>3, <1>4, <1>5, StepFacts, QuietStep DEF Head

\* The step that matters for ContentAddressed: what reaches a digest key has
\* passed the digest check.
LEMMA StoreDataInv ==
    ASSUME IInv, NEW t \in Threads, StoreData(t) PROVE IInv'
<1>0. th \in [Threads -> Local] /\ th[t] \in Local /\ Fetched(th[t])
  BY StepFacts
<1>1. PICK p \in {"storemeta", "raise"} : th' = [th EXCEPT ![t].pc = p]
  BY DEF StoreData
<1> DEFINE l == [th[t] EXCEPT !.pc = p]
<1>2. l \in Local
  BY <1>0 DEF Local, PCs
<1>3. Fetched(l)
  BY <1>0 DEF Fetched, Local, StoreData, At
<1>4. th' = [th EXCEPT ![t] = l]
  BY <1>0, <1>1
<1>5. faults' \in Nat
  BY StepFacts DEF StoreData, Fault
<1>6. data' \in [Keys -> Contents \cup {None}]
  <2>1. th[t].got \in Contents \cup {None}
    BY <1>0 DEF Local
  <2> QED
    BY <2>1 DEF StoreData, IInv, TypeOK
<1>7. \A c \in Contents : data'[c] \in {c, None}
  <2>1. ASSUME NEW c \in Contents, OwnKey(t) = c PROVE th[t].got = c
    <3>1. th[t].sha = c
      BY <2>1, OwnKeyInKeys, StepFacts
    <3> QED
      BY <3>1, <1>0, DistinctAssumption DEF Fetched, StoreData, At
  <2> QED
    BY <2>1 DEF StoreData, IInv, TypeOK, ContentAddressed, Keys
<1> QED
  BY <1>2, <1>3, <1>4, <1>5, <1>6, <1>7, ThreadStep DEF StoreData, IInv, TypeOK

\* The second os.replace of _store writes a well-typed meta record.
LEMMA StoreMetaInv ==
    ASSUME IInv, NEW t \in Threads, StoreMeta(t) PROVE IInv'
<1>0. th \in [Threads -> Local] /\ th[t] \in Local /\ Fetched(th[t])
  BY StepFacts
<1>1. PICK p \in {"evictcheck", "raise"} : th' = [th EXCEPT ![t].pc = p]
  BY DEF StoreMeta
<1> DEFINE l == [th[t] EXCEPT !.pc = p]
<1>2. l \in Local
  BY <1>0 DEF Local, PCs
<1>3. Fetched(l)
  BY <1>0 DEF Fetched, Local
<1>4. th' = [th EXCEPT ![t] = l]
  BY <1>0, <1>1
<1>5. faults' \in Nat
  BY StepFacts DEF StoreMeta, Fault
<1>6. NewMeta(t) \in Meta
  <2>1. th[t].etag \in Contents /\ th[t].got \in Contents /\ th[t].stamp \in Nat
    BY <1>0 DEF Fetched, Local, StoreMeta, At
  <2> QED
    BY <2>1, DomainAssumption DEF NewMeta, Meta
<1>7. meta' \in [Keys -> Meta \cup {None}]
  BY <1>6 DEF StoreMeta, IInv, TypeOK
<1> QED
  BY <1>2, <1>3, <1>4, <1>5, <1>7, ThreadStep DEF StoreMeta, IInv, TypeOK, ContentAddressed

\* The size check decides between returning and evicting.
LEMMA EvictCheckInv ==
    ASSUME IInv, NEW t \in Threads, EvictCheck(t) PROVE IInv'
<1>0. th \in [Threads -> Local] /\ th[t] \in Local /\ Fetched(th[t])
  BY StepFacts
<1>1. PICK p \in {"gotpath", "collect"} : th' = [th EXCEPT ![t].pc = p]
  BY DEF EvictCheck
<1> DEFINE l == [th[t] EXCEPT !.pc = p]
<1>2. l \in Local
  BY <1>0 DEF Local, PCs
<1>3. Fetched(l)
  BY <1>0 DEF Fetched, Local
<1>4. th' = [th EXCEPT ![t] = l]
  BY <1>0, <1>1
<1>5. DOMAIN need' = Threads
  BY StepFacts DEF EvictCheck
<1> QED
  BY <1>2, <1>3, <1>4, <1>5, StepFacts, QuietStep DEF EvictCheck, world

\* Unlinking a data file keeps the rest content-addressed.
LEMMA RemoveDataInv ==
    ASSUME IInv, NEW t \in Threads, RemoveData(t) PROVE IInv'
<1> DEFINE l == [th[t] EXCEPT !.pc = "rmmeta"]
<1>0. th \in [Threads -> Local] /\ th[t] \in Local /\ Fetched(th[t])
  BY StepFacts
<1>1. l \in Local
  BY <1>0 DEF Local, PCs
<1>2. Fetched(l)
  BY <1>0 DEF Fetched, Local, RemoveData, At
<1>3. th' = [th EXCEPT ![t] = l]
  BY <1>0 DEF RemoveData
<1>4. faults' \in Nat
  BY StepFacts DEF RemoveData, Fault
<1>5. /\ data' \in [Keys -> Contents \cup {None}]
      /\ \A c \in Contents : data'[c] \in {c, None}
  BY DEF RemoveData, IInv, TypeOK, ContentAddressed, Keys
<1> QED
  BY <1>1, <1>2, <1>3, <1>4, <1>5, ThreadStep DEF RemoveData, IInv, TypeOK

\* Unlinking a meta file leaves the data files alone.
LEMMA RemoveMetaInv ==
    ASSUME IInv, NEW t \in Threads, RemoveMeta(t) PROVE IInv'
<1> DEFINE l == [th[t] EXCEPT !.pc = th[t].after, !.held = @ \ Borrowed(t)]
<1>0. th \in [Threads -> Local] /\ th[t] \in Local /\ Fetched(th[t])
  BY StepFacts
<1>1. l \in Local
  <2>1. th[t].after \in PCs /\ th[t].held \ Borrowed(t) \in SUBSET Keys
    BY <1>0 DEF Local, Continuations, PCs
  <2> QED
    BY <1>0, <2>1 DEF Local
<1>2. Fetched(l)
  <2>1. th[t].after \in Continuations /\ th[t].pc = "rmmeta"
    BY <1>0 DEF Local, RemoveMeta, At
  <2>2. l.pc = th[t].after /\ l.etag = th[t].etag
    BY <1>0 DEF Local
  <2> QED
    BY <1>0, <2>1, <2>2 DEF Fetched, Continuations
<1>3. th' = [th EXCEPT ![t] = l]
  BY <1>0 DEF RemoveMeta
<1>4. faults' \in Nat
  BY StepFacts DEF RemoveMeta, Fault
<1>5. meta' \in [Keys -> Meta \cup {None}]
  BY DEF RemoveMeta, IInv, TypeOK
<1> QED
  BY <1>1, <1>2, <1>3, <1>4, <1>5, ThreadStep DEF RemoveMeta, IInv, TypeOK, ContentAddressed

(***************************************************************************)
(* The environment.                                                        *)
(***************************************************************************)
\* Uploads, deletions, the clock and crashes keep the invariant.
LEMMA EnvironmentInv ==
    ASSUME IInv, Environment PROVE IInv'
<1>1. ASSUME NEW o \in Objects, NEW c \in Contents, RemotePut(o, c) PROVE IInv'
  BY <1>1 DEF IInv, TypeOK, ContentAddressed, Fetched, RemotePut, disk
<1>2. ASSUME NEW o \in Objects, RemoteDelete(o) PROVE IInv'
  BY <1>2 DEF IInv, TypeOK, ContentAddressed, Fetched, RemoteDelete, disk
<1>3. ASSUME Tick PROVE IInv'
  BY <1>3 DEF IInv, TypeOK, ContentAddressed, Fetched, Tick, disk, bucket
<1>4. ASSUME NEW p \in Procs, Crash(p) PROVE IInv'
  <2>1. th' \in [Threads -> Local] /\ \A t \in Threads : Fetched(th'[t])
    BY <1>4, BlankLocal DEF IInv, TypeOK, Crash
  <2>2. TypeOK' /\ ContentAddressed'
    BY <1>4, <2>1 DEF IInv, TypeOK, ContentAddressed, Crash, Fault, disk, bucket
  <2> QED
    BY <2>1, <2>2 DEF IInv, Fetched
<1> QED
  BY <1>1, <1>2, <1>3, <1>4 DEF Environment

(***************************************************************************)
(* The theorems.                                                           *)
(***************************************************************************)
\* Every step of resolve_or_download keeps the invariant.
LEMMA ResolveStepInv ==
    ASSUME IInv, NEW t \in Threads, ResolveStep(t) PROVE IInv'
<1>1. CASE LookupHit(t) \/ HeadNoneSha(t)
  BY <1>1, ServeInv DEF LookupHit, HeadNoneSha
<1>2. CASE HeadNoneDirty(t)
  BY <1>2, RemoveOwnInv DEF HeadNoneDirty, Continuations
<1>3. CASE Outdated(t)
  BY <1>3, RemoveOwnInv DEF Outdated, Continuations
<1>4. CASE LookupMiss(t) \/ WriteMeta(t) \/ Head(t) \/ HeadNoneMiss(t) \/ Revalidated(t) \/ NotCached(t)
  BY <1>4, LookupMissInv, WriteMetaInv, HeadInv, HeadNoneMissInv, RevalidatedInv, NotCachedInv
<1>5. CASE Download(t) \/ DownloadFails(t) \/ StoreData(t) \/ StoreMeta(t)
  BY <1>5, DownloadInv, DownloadFailsInv, StoreDataInv, StoreMetaInv
<1>6. CASE EvictCheck(t) \/ Collect(t) \/ EvictDone(t)
  BY <1>6, EvictCheckInv, CollectInv, EvictDoneInv
<1>7. CASE \E e \in th[t].todo : EvictTake(t, e) \/ EvictSkip(t, e)
  BY <1>7, EvictTakeInv, EvictSkipInv, TodoTyped
<1>8. CASE RemoveData(t) \/ RemoveMeta(t) \/ ReturnPath(t) \/ Load(t)
  BY <1>8, RemoveDataInv, RemoveMetaInv, ReturnPathInv, LoadInv
<1>9. CASE EndCall(t) \/ LoadFails(t) \/ FinishUse(t)
  BY <1>9, StopInv DEF EndCall, LoadFails, FinishUse
<1> QED
  BY <1>1, <1>2, <1>3, <1>4, <1>5, <1>6, <1>7, <1>8, <1>9 DEF ResolveStep

\* Every step of invalidate and purge_expired keeps the invariant.
LEMMA MaintenanceInv ==
    ASSUME IInv, NEW t \in Threads, Maintain(t) \/ PurgeStep(t) PROVE IInv'
<1>1. ASSUME NEW r \in Requests, StartInvalidate(t, r[1], r[2]) PROVE IInv'
  <2>1. r[1] \in Objects /\ r[2] \in Contents \cup {NoSha}
    BY DomainAssumption
  <2> QED
    BY <1>1, <2>1, StartInvalidateInv
<1>2. ASSUME NEW e \in th[t].todo, PurgeRead(t, e) PROVE IInv'
  BY <1>2, TodoTyped, PurgeReadInv
<1>3. ASSUME StartPurge(t) \/ PurgeTake(t) \/ PurgeSkip(t) \/ PurgeDone(t) PROVE IInv'
  BY <1>3, StartPurgeInv, PurgeTakeInv, PurgeSkipInv, StopInv DEF PurgeDone
<1> QED
  BY <1>1, <1>2, <1>3 DEF Maintain, PurgeStep

\* IInv is inductive: one case per group of actions.
LEMMA Inductive == ASSUME IInv, [Next]_vars PROVE IInv'
<1>1. ASSUME NEW t \in Threads, Request(t) PROVE IInv'
  <2>1. PICK r \in Requests : StartResolve(t, r[1], r[2])
    BY <1>1 DEF Request
  <2>2. r[1] \in Objects /\ r[2] \in Contents \cup {NoSha}
    BY DomainAssumption
  <2> QED
    BY <2>1, <2>2, StartResolveInv
<1>2. ASSUME NEW t \in Threads, LockStep(t) PROVE IInv'
  BY <1>2, AcquireInv, InvalidateInv DEF LockStep
<1>3. ASSUME UNCHANGED vars PROVE IInv'
  BY <1>3 DEF IInv, TypeOK, ContentAddressed, Fetched, vars, world, bucket, disk
<1> QED
  BY <1>1, <1>2, <1>3, ResolveStepInv, MaintenanceInv, EnvironmentInv DEF Next, WorkerNext

\* An empty cache satisfies the invariant.
LEMMA Initially == Init => IInv
<1> SUFFICES ASSUME Init PROVE IInv
  OBVIOUS
<1>1. th \in [Threads -> Local] /\ \A t \in Threads : Fetched(th[t])
  BY BlankLocal DEF Init
<1>2. TypeOK /\ ContentAddressed
  BY <1>1 DEF Init, TypeOK, ContentAddressed, Keys
<1> QED
  BY <1>1, <1>2 DEF IInv

\* The cache never reaches an ill-typed state: in particular every meta file
\* is written with the ETag of a HEAD that succeeded and the size of bytes
\* that were downloaded.
THEOREM CacheTyped == Spec => []TypeOK
<1>1. IInv => TypeOK
  BY DEF IInv
<1> QED
  BY <1>1, Initially, Inductive, PTL DEF Spec

\* A file under a digest key has that digest, for any number of threads and
\* processes on one directory, any crashes, I/O errors and remote changes.
THEOREM CacheContentAddressed == Spec => []ContentAddressed
<1>1. IInv => ContentAddressed
  BY DEF IInv
<1> QED
  BY <1>1, Initially, Inductive, PTL DEF Spec

(***************************************************************************)
(* The cache of one process.  A thread touches the files of a key only     *)
(* while it holds the key's lock, so what it has learnt about a key it     *)
(* holds stays true until it changes the key itself.  CacheInv says, for   *)
(* each control point, which locks are held and what is known of the disk. *)
(***************************************************************************)
OneProcess == \A t, u \in Threads : ProcOf[t] = ProcOf[u]

Key(l) == CacheKey(l.obj, l.sha)

Outside == {"idle", "acquire", "invalidate", "purge", "purgetry", "loading", "inuse"}
Inside == {"lookup", "writemeta", "head", "headed", "download", "storedata",
           "storemeta", "evictcheck", "collect", "evict", "gotpath"}
Removing == {"rmdata", "rmmeta"}

\* which locks a thread holds where
Locked(l) ==
    /\ l.pc \in Outside => l.held = {}
    /\ l.pc \in Inside => Key(l) \in l.held
    /\ l.pc \in Removing =>
          /\ l.victim \in l.held
          /\ l.after # "idle"
          /\ l.after \in {"gotnone", "download", "evict"} => Key(l) \in l.held
          /\ l.after \in {"gotnone", "download", "invalidated"} => l.victim = Key(l)
          /\ l.after = "purge" => l.held = {l.victim}
    /\ l.pc = "idle" => l.etag = None

\* what it knows of its own entry
View(l, d, m) ==
    /\ l.pc \in {"head", "headed"} /\ l.sha # NoSha => d[Key(l)] = None
    /\ l.pc = "storemeta" => d[Key(l)] = l.got
    /\ l.pc = "writemeta" =>
          /\ d[Key(l)] # None /\ m[Key(l)] # None /\ l.buf # None
          /\ l.buf.etag = m[Key(l)].etag /\ l.buf.size = m[Key(l)].size
    /\ l.pc \in {"evictcheck", "collect"} =>
          /\ d[Key(l)] # None /\ m[Key(l)] # None
          /\ m[Key(l)].accessed = l.stamp

\* its own entry is gone, or about to go, in its own eviction
SelfEvicted(l, d) ==
    \/ d[Key(l)] = None
    \/ l.pc \in Removing /\ l.victim = Key(l)
    \/ l.pc # "gotpath" /\ \E e \in l.todo : KeyFromMetaPath(e.key) = Key(l)

\* which happens only to a call that took longer than the grace period
Late(l, d, n) ==
    l.pc \in {"gotpath", "evict"} \/ (l.pc \in Removing /\ l.after = "evict")
        => (SelfEvicted(l, d) => n - l.stamp > LruGracePeriod)

LockInv ==
    /\ \A t \in Threads : Locked(th[t]) /\ View(th[t], data, meta) /\ Late(th[t], data, now)
    /\ \A t, u \in Threads : t # u => th[t].held \cap th[u].held = {}

\* between its two file operations an entry may be unpaired
Mid(l, k) ==
    \/ l.pc = "rmmeta" /\ l.victim = k
    \/ l.pc = "storemeta" /\ Key(l) = k

Paired(d, m, k) ==
    /\ d[k] = None <=> m[k] = None
    /\ d[k] # None => m[k].size = Size[d[k]]

PairInv ==
    faults = 0 =>
        /\ \A k \in Keys : (\A t \in Threads : ~Mid(th[t], k)) => Paired(data, meta, k)
        /\ \A t \in Threads : th[t].pc = "rmmeta" => data[th[t].victim] = None

\* e was a fingerprint of o, and never is again
Gone(o, e) == e \in past[o] /\ e # remote[o]

\* bytes c stored with fingerprint e
Honest(o, c, e) == c = e \/ Gone(o, e)

Origin(l, m) ==
    l.sha = NoSha =>
        /\ l.etag # None => l.etag \in past[l.obj]
        /\ l.pc \in {"storedata", "storemeta"} =>
              /\ Honest(l.obj, l.got, l.etag)
              /\ m[l.obj] # None => Honest(l.obj, l.got, m[l.obj].etag)

HonestInv ==
    ~AllowRevert =>
        /\ \A o \in Objects : remote[o] \in past[o]
        /\ \A o \in Objects : meta[o] # None =>
              /\ meta[o].etag \in past[o]
              /\ data[o] # None => Honest(o, data[o], meta[o].etag)
        /\ \A t \in Threads : Origin(th[t], meta)

CacheInv == LockInv /\ PairInv /\ HonestInv

(***************************************************************************)
(* A step of one thread, reduced to its effect.                            *)
(***************************************************************************)
\* The key of a request is a cache key.
LEMMA KeyOfLocal == ASSUME NEW l \in Local PROVE Key(l) \in Keys
  BY DEF Key, CacheKey, Keys, Local

\* What the invariants say about one thread.
LEMMA ThreadFacts ==
    ASSUME IInv, LockInv, NEW t \in Threads
    PROVE  /\ th[t] \in Local /\ Fetched(th[t]) /\ Key(th[t]) = OwnKey(t)
           /\ Key(th[t]) \in Keys
           /\ Locked(th[t]) /\ View(th[t], data, meta) /\ Late(th[t], data, now)
<1>1. th[t] \in Local /\ Fetched(th[t])
  BY DEF IInv, TypeOK
<1>2. Locked(th[t]) /\ View(th[t], data, meta) /\ Late(th[t], data, now)
  BY DEF LockInv
<1> QED
  BY <1>1, <1>2, KeyOfLocal DEF Key, OwnKey

\* What a thread knows of the disk concerns keys it holds.
LEMMA ViewIsLocal ==
    ASSUME NEW l \in Local, NEW d1, NEW d2, NEW m1, NEW m2, Locked(l), NEW n,
           \A k \in l.held : d2[k] = d1[k] /\ m2[k] = m1[k],
           View(l, d1, m1), Late(l, d1, n)
    PROVE  View(l, d2, m2) /\ Late(l, d2, n)
<1>1. l.pc \in Inside => d2[Key(l)] = d1[Key(l)] /\ m2[Key(l)] = m1[Key(l)]
  BY DEF Locked
<1>2. l.pc \in Removing /\ l.after = "evict" => d2[Key(l)] = d1[Key(l)]
  BY DEF Locked
<1>3. View(l, d2, m2)
  BY <1>1 DEF View, Inside
<1>4. Late(l, d2, n)
  BY <1>1, <1>2 DEF Late, SelfEvicted, Inside
<1> QED
  BY <1>3, <1>4

\* A thread that changes the disk only at keys it holds leaves the others'
\* knowledge intact.
LEMMA MoveStep ==
    ASSUME IInv, LockInv, NEW t \in Threads, NEW l \in Local,
           th' = [th EXCEPT ![t] = l],
           Locked(l), View(l, data', meta'), Late(l, data', now),
           \A u \in Threads \ {t} : l.held \cap th[u].held = {},
           \A k \in Keys \ th[t].held : data'[k] = data[k] /\ meta'[k] = meta[k],
           now' = now
    PROVE  LockInv'
<1>1. /\ th'[t] = l
      /\ \A u \in Threads \ {t} : th'[u] = th[u]
  BY DEF IInv, TypeOK
<1>2. ASSUME NEW u \in Threads \ {t}
      PROVE  Locked(th[u]) /\ View(th[u], data', meta') /\ Late(th[u], data', now)
  <2>1. th[u] \in Local /\ Locked(th[u]) /\ View(th[u], data, meta) /\ Late(th[u], data, now)
    BY ThreadFacts
  <2>2. th[u].held \in SUBSET Keys
    BY <2>1 DEF Local
  <2>3. th[t].held \cap th[u].held = {}
    BY DEF LockInv
  <2>4. \A k \in th[u].held : data'[k] = data[k] /\ meta'[k] = meta[k]
    BY <2>2, <2>3
  <2> QED
    BY <2>1, <2>4, ViewIsLocal
<1>3. \A u \in Threads : Locked(th'[u]) /\ View(th'[u], data', meta') /\ Late(th'[u], data', now')
  BY <1>1, <1>2
<1>4. \A u, v \in Threads : u # v => th'[u].held \cap th'[v].held = {}
  BY <1>1 DEF LockInv
<1> QED
  BY <1>3, <1>4 DEF LockInv

\* No key is between its two file operations because of a thread that stands
\* elsewhere.
LEMMA MidElsewhere ==
    ASSUME NEW l, l.pc \notin {"rmmeta", "storemeta"} PROVE \A k : ~Mid(l, k)
  BY DEF Mid

\* Other threads' beliefs about where bytes come from survive a change of
\* metas they do not hold.
LEMMA OriginIsLocal ==
    ASSUME NEW l \in Local, NEW m1, NEW m2, Locked(l), Origin(l, m1),
           \A k \in l.held : m2[k] = m1[k]
    PROVE  Origin(l, m2)
<1>1. l.sha = NoSha => Key(l) = l.obj
  BY DEF Key, CacheKey
<1>2. l.pc \in {"storedata", "storemeta"} => Key(l) \in l.held
  BY DEF Locked, Inside
<1> QED
  BY <1>1, <1>2 DEF Origin

\* A step that leaves the disk alone and is not one of the two that finish a
\* pair of file operations.
LEMMA QuietMove ==
    ASSUME IInv, CacheInv, NEW t \in Threads, NEW l \in Local,
           th' = [th EXCEPT ![t] = l],
           Locked(l), View(l, data, meta), Late(l, data, now),
           ~AllowRevert => Origin(l, meta),
           \A u \in Threads \ {t} : l.held \cap th[u].held = {},
           th[t].pc \notin {"rmmeta", "storemeta"}, l.pc \notin {"rmmeta", "storemeta"},
           UNCHANGED <<bucket, disk, now>>, faults' = 0 => faults = 0
    PROVE  CacheInv'
<1>0. /\ th'[t] = l
      /\ \A u \in Threads \ {t} : th'[u] = th[u]
  BY DEF IInv, TypeOK
<1>d. data' = data /\ meta' = meta /\ remote' = remote /\ past' = past /\ now' = now
  BY DEF disk, bucket
<1>1. LockInv'
  BY <1>d, MoveStep DEF CacheInv
<1>2. PairInv'
  <2> SUFFICES ASSUME faults' = 0
               PROVE  /\ \A k \in Keys : (\A u \in Threads : ~Mid(th'[u], k)) => Paired(data, meta, k)
                      /\ \A u \in Threads : th'[u].pc = "rmmeta" => data[th'[u].victim] = None
    BY <1>d DEF PairInv
  <2>1. /\ \A k \in Keys : (\A u \in Threads : ~Mid(th[u], k)) => Paired(data, meta, k)
        /\ \A u \in Threads : th[u].pc = "rmmeta" => data[th[u].victim] = None
    BY DEF CacheInv, PairInv
  <2>2. \A k \in Keys : ~Mid(th[t], k)
    BY MidElsewhere
  <2>3. \A k \in Keys : (\A u \in Threads : ~Mid(th'[u], k)) => (\A u \in Threads : ~Mid(th[u], k))
    BY <1>0, <2>2
  <2> QED
    BY <1>0, <2>1, <2>3
<1>3. HonestInv'
  <2> SUFFICES ASSUME ~AllowRevert
               PROVE  /\ \A o \in Objects : remote[o] \in past[o]
                      /\ \A o \in Objects : meta[o] # None =>
                            /\ meta[o].etag \in past[o]
                            /\ data[o] # None => Honest(o, data[o], meta[o].etag)
                      /\ \A u \in Threads : Origin(th'[u], meta)
    BY <1>d DEF HonestInv, Origin, Honest, Gone
  <2> QED
    BY <1>0 DEF CacheInv, HonestInv
<1> QED
  BY <1>1, <1>2, <1>3 DEF CacheInv

\* Everything known about the thread that takes a step.
LEMMA CacheFacts ==
    ASSUME IInv, CacheInv, NEW t \in Threads
    PROVE  /\ th \in [Threads -> Local] /\ th[t] \in Local /\ Fetched(th[t])
           /\ Key(th[t]) = OwnKey(t) /\ Key(th[t]) \in Keys
           /\ Locked(th[t]) /\ View(th[t], data, meta) /\ Late(th[t], data, now)
           /\ ~AllowRevert => Origin(th[t], meta)
           /\ \A u \in Threads \ {t} : th[t].held \cap th[u].held = {}
           /\ meta[Key(th[t])] \in Meta \cup {None} /\ data[Key(th[t])] \in Contents \cup {None}
           /\ now \in Nat /\ faults \in Nat
           /\ remote[th[t].obj] \in Contents \cup {None}
<1>1. LockInv /\ TypeOK
  BY DEF CacheInv, IInv
<1>2. /\ th[t] \in Local /\ Fetched(th[t]) /\ Key(th[t]) = OwnKey(t)
      /\ Key(th[t]) \in Keys
      /\ Locked(th[t]) /\ View(th[t], data, meta) /\ Late(th[t], data, now)
  BY <1>1, ThreadFacts
<1>3. ~AllowRevert => Origin(th[t], meta)
  BY DEF CacheInv, HonestInv
<1>4. \A u \in Threads \ {t} : th[t].held \cap th[u].held = {}
  BY <1>1 DEF LockInv
<1>5. th[t].obj \in Objects
  BY <1>2 DEF Local
<1> QED
  BY <1>1, <1>2, <1>3, <1>4, <1>5 DEF TypeOK

\* A lock that is free in the only process is held by nobody else.
LEMMA FreeMeansFree ==
    ASSUME OneProcess, NEW t \in Threads, NEW k, Free(t, k)
    PROVE  \A u \in Threads \ {t} : k \notin th[u].held
  BY DEF OneProcess, Free

(***************************************************************************)
(* The steps that leave the disk alone.                                    *)
(***************************************************************************)
\* A request holds nothing yet.
LEMMA StartResolveCache ==
    ASSUME IInv, CacheInv, NEW t \in Threads, NEW o \in Objects,
           NEW sha \in Contents \cup {NoSha}, StartResolve(t, o, sha) PROVE CacheInv'
<1> DEFINE l == [th[t] EXCEPT !.pc = "acquire", !.obj = o, !.sha = sha]
<1>0. th \in [Threads -> Local] /\ th[t] \in Local /\ Locked(th[t])
  BY CacheFacts
<1>1. l \in Local
  BY <1>0 DEF Local, PCs, Continuations
<1>2. /\ l.pc = "acquire" /\ l.held = {} /\ l.etag = None /\ th[t].pc = "idle"
  BY <1>0 DEF Local, Locked, Outside, StartResolve, At
<1>3. th' = [th EXCEPT ![t] = l]
  BY <1>0 DEF StartResolve
<1> HIDE DEF l
<1>4. Locked(l) /\ View(l, data, meta) /\ Late(l, data, now) /\ Origin(l, meta)
  BY <1>2 DEF Locked, View, Late, Origin, Outside, Inside, Removing
<1> QED
  BY <1>1, <1>2, <1>3, <1>4, QuietMove DEF StartResolve, world

\* The lock of the key is taken only if no other thread has it.
LEMMA AcquireCache ==
    ASSUME IInv, CacheInv, OneProcess, NEW t \in Threads, Acquire(t) PROVE CacheInv'
<1> DEFINE l == [th[t] EXCEPT !.pc = "lookup", !.held = {OwnKey(t)}]
<1>0. /\ th \in [Threads -> Local] /\ th[t] \in Local /\ Key(th[t]) = OwnKey(t) /\ OwnKey(t) \in Keys
      /\ (~AllowRevert => Origin(th[t], meta))
  BY CacheFacts
<1>5. {OwnKey(t)} \in SUBSET Keys
  BY <1>0
<1>1. l \in Local
  BY <1>0, <1>5 DEF Local, PCs, Continuations
<1>2. /\ l.pc = "lookup" /\ l.held = {OwnKey(t)} /\ l.etag = th[t].etag /\ l.obj = th[t].obj
      /\ l.sha = th[t].sha /\ th[t].pc = "acquire"
  BY <1>0 DEF Local, Acquire, At
<1>3. th' = [th EXCEPT ![t] = l]
  BY <1>0 DEF Acquire
<1> HIDE DEF l
<1>4. Key(l) = OwnKey(t)
  BY <1>0, <1>2 DEF Key
<1>6. Locked(l) /\ View(l, data, meta) /\ Late(l, data, now) /\ (~AllowRevert => Origin(l, meta))
  BY <1>0, <1>2, <1>4 DEF Locked, View, Late, Origin, Outside, Inside, Removing
<1>7. \A u \in Threads \ {t} : l.held \cap th[u].held = {}
  BY <1>2, FreeMeansFree DEF Acquire
<1> QED
  BY <1>1, <1>2, <1>3, <1>6, <1>7, QuietMove DEF Acquire, world

\* A miss by digest means that the data file is absent.
LEMMA LookupMissCache ==
    ASSUME IInv, CacheInv, NEW t \in Threads, LookupMiss(t) PROVE CacheInv'
<1> DEFINE l == [th[t] EXCEPT !.pc = "head"]
<1>0. /\ th \in [Threads -> Local] /\ th[t] \in Local /\ Fetched(th[t])
      /\ Key(th[t]) = OwnKey(t) /\ OwnKey(t) \in Keys
      /\ Locked(th[t]) /\ View(th[t], data, meta) /\ Late(th[t], data, now)
      /\ (~AllowRevert => Origin(th[t], meta)) /\ now \in Nat
  BY CacheFacts
<1>1. l \in Local
  BY <1>0 DEF Local, PCs, Continuations
<1>2. /\ l.pc = "head" /\ l.held = th[t].held /\ l.obj = th[t].obj /\ l.sha = th[t].sha
      /\ l.etag = th[t].etag /\ l.got = th[t].got /\ l.stamp = th[t].stamp
      /\ l.buf = th[t].buf /\ l.victim = th[t].victim /\ l.after = th[t].after
      /\ l.todo = th[t].todo
  BY <1>0 DEF Local
<1>3. th' = [th EXCEPT ![t] = l] /\ th[t].pc = "lookup" /\ (th[t].sha # NoSha => data[OwnKey(t)] = None)
  BY <1>0 DEF LookupMiss, At, Hit
<1> HIDE DEF l
<1>4. Key(l) = OwnKey(t)
  BY <1>0, <1>2 DEF Key
<1>5. Locked(l) /\ View(l, data, meta)
  BY <1>0, <1>2, <1>3, <1>4 DEF Locked, View, Outside, Inside, Removing
<1>6. Late(l, data, now)
  BY <1>0, <1>2, <1>3, <1>4 DEF Late, SelfEvicted, Removing
<1>7. ~AllowRevert => Origin(l, meta)
  BY <1>0, <1>2, <1>3 DEF Origin
<1>8. \A u \in Threads \ {t} : l.held \cap th[u].held = {}
  BY <1>2, CacheFacts
<1> QED
  BY <1>1, <1>2, <1>3, <1>5, <1>6, <1>7, <1>8, QuietMove DEF LookupMiss, world

\* Answering None needs nothing from the disk.
LEMMA HeadNoneMissCache ==
    ASSUME IInv, CacheInv, NEW t \in Threads, HeadNoneMiss(t) PROVE CacheInv'
<1> DEFINE l == [th[t] EXCEPT !.pc = "gotnone"]
<1>0. /\ th \in [Threads -> Local] /\ th[t] \in Local /\ Fetched(th[t])
      /\ Key(th[t]) = OwnKey(t) /\ OwnKey(t) \in Keys
      /\ Locked(th[t]) /\ View(th[t], data, meta) /\ Late(th[t], data, now)
      /\ (~AllowRevert => Origin(th[t], meta)) /\ now \in Nat
  BY CacheFacts
<1>1. l \in Local
  BY <1>0 DEF Local, PCs, Continuations
<1>2. /\ l.pc = "gotnone" /\ l.held = th[t].held /\ l.obj = th[t].obj /\ l.sha = th[t].sha
      /\ l.etag = th[t].etag /\ l.got = th[t].got /\ l.stamp = th[t].stamp
      /\ l.buf = th[t].buf /\ l.victim = th[t].victim /\ l.after = th[t].after
      /\ l.todo = th[t].todo
  BY <1>0 DEF Local
<1>3. th' = [th EXCEPT ![t] = l] /\ th[t].pc = "headed"
  BY <1>0 DEF HeadNoneMiss, At
<1> HIDE DEF l
<1>4. Key(l) = OwnKey(t)
  BY <1>0, <1>2 DEF Key
<1>5. Locked(l) /\ View(l, data, meta)
  BY <1>0, <1>2, <1>3, <1>4 DEF Locked, View, Outside, Inside, Removing
<1>6. Late(l, data, now)
  BY <1>0, <1>2, <1>3, <1>4 DEF Late, SelfEvicted, Removing
<1>7. ~AllowRevert => Origin(l, meta)
  BY <1>0, <1>2, <1>3 DEF Origin
<1>8. \A u \in Threads \ {t} : l.held \cap th[u].held = {}
  BY <1>2, CacheFacts
<1> QED
  BY <1>1, <1>2, <1>3, <1>5, <1>6, <1>7, <1>8, QuietMove DEF HeadNoneMiss, world

\* The download goes on under the lock.
LEMMA NotCachedCache ==
    ASSUME IInv, CacheInv, NEW t \in Threads, NotCached(t) PROVE CacheInv'
<1> DEFINE l == [th[t] EXCEPT !.pc = "download"]
<1>0. /\ th \in [Threads -> Local] /\ th[t] \in Local /\ Fetched(th[t])
      /\ Key(th[t]) = OwnKey(t) /\ OwnKey(t) \in Keys
      /\ Locked(th[t]) /\ View(th[t], data, meta) /\ Late(th[t], data, now)
      /\ (~AllowRevert => Origin(th[t], meta)) /\ now \in Nat
  BY CacheFacts
<1>1. l \in Local
  BY <1>0 DEF Local, PCs, Continuations
<1>2. /\ l.pc = "download" /\ l.held = th[t].held /\ l.obj = th[t].obj /\ l.sha = th[t].sha
      /\ l.etag = th[t].etag /\ l.got = th[t].got /\ l.stamp = th[t].stamp
      /\ l.buf = th[t].buf /\ l.victim = th[t].victim /\ l.after = th[t].after
      /\ l.todo = th[t].todo
  BY <1>0 DEF Local
<1>3. th' = [th EXCEPT ![t] = l] /\ th[t].pc = "headed"
  BY <1>0 DEF NotCached, At
<1> HIDE DEF l
<1>4. Key(l) = OwnKey(t)
  BY <1>0, <1>2 DEF Key
<1>5. Locked(l) /\ View(l, data, meta)
  BY <1>0, <1>2, <1>3, <1>4 DEF Locked, View, Outside, Inside, Removing
<1>6. Late(l, data, now)
  BY <1>0, <1>2, <1>3, <1>4 DEF Late, SelfEvicted, Removing
<1>7. ~AllowRevert => Origin(l, meta)
  BY <1>0, <1>2, <1>3 DEF Origin
<1>8. \A u \in Threads \ {t} : l.held \cap th[u].held = {}
  BY <1>2, CacheFacts
<1> QED
  BY <1>1, <1>2, <1>3, <1>5, <1>6, <1>7, <1>8, QuietMove DEF NotCached, world

\* A failed download leaves the entry as it was.
LEMMA DownloadFailsCache ==
    ASSUME IInv, CacheInv, NEW t \in Threads, DownloadFails(t) PROVE CacheInv'
<1> DEFINE l == [th[t] EXCEPT !.pc = "raise"]
<1>0. /\ th \in [Threads -> Local] /\ th[t] \in Local /\ Fetched(th[t])
      /\ Key(th[t]) = OwnKey(t) /\ OwnKey(t) \in Keys
      /\ Locked(th[t]) /\ View(th[t], data, meta) /\ Late(th[t], data, now)
      /\ (~AllowRevert => Origin(th[t], meta)) /\ now \in Nat
  BY CacheFacts
<1>1. l \in Local
  BY <1>0 DEF Local, PCs, Continuations
<1>2. /\ l.pc = "raise" /\ l.held = th[t].held /\ l.obj = th[t].obj /\ l.sha = th[t].sha
      /\ l.etag = th[t].etag /\ l.got = th[t].got /\ l.stamp = th[t].stamp
      /\ l.buf = th[t].buf /\ l.victim = th[t].victim /\ l.after = th[t].after
      /\ l.todo = th[t].todo
  BY <1>0 DEF Local
<1>3. th' = [th EXCEPT ![t] = l] /\ th[t].pc = "download"
  BY <1>0 DEF DownloadFails, At
<1> HIDE DEF l
<1>4. Key(l) = OwnKey(t)
  BY <1>0, <1>2 DEF Key
<1>5. Locked(l) /\ View(l, data, meta)
  BY <1>0, <1>2, <1>3, <1>4 DEF Locked, View, Outside, Inside, Removing
<1>6. Late(l, data, now)
  BY <1>0, <1>2, <1>3, <1>4 DEF Late, SelfEvicted, Removing
<1>7. ~AllowRevert => Origin(l, meta)
  BY <1>0, <1>2, <1>3 DEF Origin
<1>8. \A u \in Threads \ {t} : l.held \cap th[u].held = {}
  BY <1>2, CacheFacts
<1>9. faults' = 0 => faults = 0
  BY CacheFacts DEF DownloadFails, Fault
<1> QED
  BY <1>1, <1>2, <1>3, <1>5, <1>6, <1>7, <1>8, <1>9, QuietMove DEF DownloadFails

\* A candidate that is the thread's own entry was stored longer than the grace period
\* ago: its meta carries the time of this very call.
LEMMA CollectCache ==
    ASSUME IInv, CacheInv, NEW t \in Threads, Collect(t) PROVE CacheInv'
<1> DEFINE l == [th[t] EXCEPT !.pc = "evict", !.todo = Candidates]
<1>0. /\ th \in [Threads -> Local] /\ th[t] \in Local /\ Fetched(th[t])
      /\ Key(th[t]) = OwnKey(t) /\ OwnKey(t) \in Keys
      /\ Locked(th[t]) /\ View(th[t], data, meta) /\ Late(th[t], data, now)
      /\ (~AllowRevert => Origin(th[t], meta)) /\ now \in Nat
  BY CacheFacts
<1>t. Candidates \in SUBSET Stat
  BY StatsTyped DEF IInv
<1>1. l \in Local
  BY <1>0, <1>t DEF Local, PCs, Continuations
<1>2. /\ l.pc = "evict" /\ l.todo = Candidates /\ l.held = th[t].held /\ l.obj = th[t].obj
      /\ l.sha = th[t].sha /\ l.etag = th[t].etag /\ l.got = th[t].got
      /\ l.stamp = th[t].stamp /\ l.buf = th[t].buf /\ l.victim = th[t].victim
      /\ l.after = th[t].after
  BY <1>0 DEF Local
<1>3. th' = [th EXCEPT ![t] = l] /\ th[t].pc = "collect"
  BY <1>0 DEF Collect, At
<1> HIDE DEF l
<1>4. Key(l) = OwnKey(t)
  BY <1>0, <1>2 DEF Key
<1>9. (\E e \in Candidates : KeyFromMetaPath(e.key) = OwnKey(t)) => now - th[t].stamp > LruGracePeriod
  <2> SUFFICES ASSUME NEW e \in Candidates, KeyFromMetaPath(e.key) = OwnKey(t)
               PROVE  now - th[t].stamp > LruGracePeriod
    OBVIOUS
  <2>1. PICK k \in Keys : e.key = k /\ e.accessed = meta[k].accessed /\ now - e.accessed > LruGracePeriod
    BY DEF Candidates, CollectStats, MetaFiles
  <2>2. OwnKey(t) \notin BareNames
    BY <1>0, DistinctAssumption DEF OwnKey, CacheKey, Local
  <2>3. k = OwnKey(t)
    BY <2>1, <2>2, DomainAssumption DEF KeyFromMetaPath
  <2>4. meta[OwnKey(t)].accessed = th[t].stamp
    BY <1>0, <1>3 DEF View
  <2> QED
    BY <2>1, <2>3, <2>4
<1>5. Locked(l) /\ View(l, data, meta)
  BY <1>0, <1>2, <1>3, <1>4 DEF Locked, View, Outside, Inside, Removing
<1>6. Late(l, data, now)
  BY <1>0, <1>2, <1>3, <1>4, <1>9 DEF Late, SelfEvicted, Removing, View
<1>7. ~AllowRevert => Origin(l, meta)
  BY <1>0, <1>2, <1>3 DEF Origin
<1>8. \A u \in Threads \ {t} : l.held \cap th[u].held = {}
  BY <1>2, CacheFacts
<1> QED
  BY <1>1, <1>2, <1>3, <1>5, <1>6, <1>7, <1>8, QuietMove DEF Collect, world

\* A busy candidate is dropped.
LEMMA EvictSkipCache ==
    ASSUME IInv, CacheInv, NEW t \in Threads, NEW e \in Stat, EvictSkip(t, e) PROVE CacheInv'
<1> DEFINE l == [th[t] EXCEPT !.todo = @ \ {e}]
<1>0. /\ th \in [Threads -> Local] /\ th[t] \in Local /\ Fetched(th[t])
      /\ Key(th[t]) = OwnKey(t) /\ OwnKey(t) \in Keys
      /\ Locked(th[t]) /\ View(th[t], data, meta) /\ Late(th[t], data, now)
      /\ (~AllowRevert => Origin(th[t], meta)) /\ now \in Nat
  BY CacheFacts
<1>1. l \in Local
  BY <1>0 DEF Local, PCs, Continuations
<1>2. /\ l.todo = th[t].todo \ {e} /\ l.pc = th[t].pc /\ l.held = th[t].held
      /\ l.obj = th[t].obj /\ l.sha = th[t].sha /\ l.etag = th[t].etag /\ l.got = th[t].got
      /\ l.stamp = th[t].stamp /\ l.buf = th[t].buf /\ l.victim = th[t].victim
      /\ l.after = th[t].after
  BY <1>0 DEF Local
<1>3. th' = [th EXCEPT ![t] = l] /\ th[t].pc = "evict"
  BY <1>0 DEF EvictSkip, At
<1> HIDE DEF l
<1>4. Key(l) = OwnKey(t)
  BY <1>0, <1>2 DEF Key
<1>5. Locked(l) /\ View(l, data, meta)
  BY <1>0, <1>2, <1>3, <1>4 DEF Locked, View, Outside, Inside, Removing
<1>6. Late(l, data, now)
  BY <1>0, <1>2, <1>3, <1>4 DEF Late, SelfEvicted, Removing
<1>7. ~AllowRevert => Origin(l, meta)
  BY <1>0, <1>2, <1>3 DEF Origin
<1>8. \A u \in Threads \ {t} : l.held \cap th[u].held = {}
  BY <1>2, CacheFacts
<1> QED
  BY <1>1, <1>2, <1>3, <1>5, <1>6, <1>7, <1>8, QuietMove DEF EvictSkip, world

\* The eviction is over; the own entry is missing only after the grace period.
LEMMA EvictDoneCache ==
    ASSUME IInv, CacheInv, NEW t \in Threads, EvictDone(t) PROVE CacheInv'
<1> DEFINE l == [th[t] EXCEPT !.pc = "gotpath"]
<1>0. /\ th \in [Threads -> Local] /\ th[t] \in Local /\ Fetched(th[t])
      /\ Key(th[t]) = OwnKey(t) /\ OwnKey(t) \in Keys
      /\ Locked(th[t]) /\ View(th[t], data, meta) /\ Late(th[t], data, now)
      /\ (~AllowRevert => Origin(th[t], meta)) /\ now \in Nat
  BY CacheFacts
<1>1. l \in Local
  BY <1>0 DEF Local, PCs, Continuations
<1>2. /\ l.pc = "gotpath" /\ l.held = th[t].held /\ l.obj = th[t].obj /\ l.sha = th[t].sha
      /\ l.etag = th[t].etag /\ l.got = th[t].got /\ l.stamp = th[t].stamp
      /\ l.buf = th[t].buf /\ l.victim = th[t].victim /\ l.after = th[t].after
      /\ l.todo = th[t].todo
  BY <1>0 DEF Local
<1>3. th' = [th EXCEPT ![t] = l] /\ th[t].pc = "evict"
  BY <1>0 DEF EvictDone, At
<1> HIDE DEF l
<1>4. Key(l) = OwnKey(t)
  BY <1>0, <1>2 DEF Key
<1>5. Locked(l) /\ View(l, data, meta)
  BY <1>0, <1>2, <1>3, <1>4 DEF Locked, View, Outside, Inside, Removing
<1>6. Late(l, data, now)
  BY <1>0, <1>2, <1>3, <1>4 DEF Late, SelfEvicted, Removing
<1>7. ~AllowRevert => Origin(l, meta)
  BY <1>0, <1>2, <1>3 DEF Origin
<1>8. \A u \in Threads \ {t} : l.held \cap th[u].held = {}
  BY <1>2, CacheFacts
<1> QED
  BY <1>1, <1>2, <1>3, <1>5, <1>6, <1>7, <1>8, QuietMove DEF EvictDone, world

\* Outside the cache nothing is held.
LEMMA LoadCache ==
    ASSUME IInv, CacheInv, NEW t \in Threads, Load(t) PROVE CacheInv'
<1> DEFINE l == [th[t] EXCEPT !.pc = "inuse"]
<1>0. /\ th \in [Threads -> Local] /\ th[t] \in Local /\ Fetched(th[t])
      /\ Key(th[t]) = OwnKey(t) /\ OwnKey(t) \in Keys
      /\ Locked(th[t]) /\ View(th[t], data, meta) /\ Late(th[t], data, now)
      /\ (~AllowRevert => Origin(th[t], meta)) /\ now \in Nat
  BY CacheFacts
<1>1. l \in Local
  BY <1>0 DEF Local, PCs, Continuations
<1>2. /\ l.pc = "inuse" /\ l.held = th[t].held /\ l.obj = th[t].obj /\ l.sha = th[t].sha
      /\ l.etag = th[t].etag /\ l.got = th[t].got /\ l.stamp = th[t].stamp
      /\ l.buf = th[t].buf /\ l.victim = th[t].victim /\ l.after = th[t].after
      /\ l.todo = th[t].todo
  BY <1>0 DEF Local
<1>3. th' = [th EXCEPT ![t] = l] /\ th[t].pc = "loading"
  BY <1>0 DEF Load, At
<1> HIDE DEF l
<1>4. Key(l) = OwnKey(t)
  BY <1>0, <1>2 DEF Key
<1>5. Locked(l) /\ View(l, data, meta)
  BY <1>0, <1>2, <1>3, <1>4 DEF Locked, View, Outside, Inside, Removing
<1>6. Late(l, data, now)
  BY <1>0, <1>2, <1>3, <1>4 DEF Late, SelfEvicted, Removing
<1>7. ~AllowRevert => Origin(l, meta)
  BY <1>0, <1>2, <1>3 DEF Origin
<1>8. \A u \in Threads \ {t} : l.held \cap th[u].held = {}
  BY <1>2, CacheFacts
<1> QED
  BY <1>1, <1>2, <1>3, <1>5, <1>6, <1>7, <1>8, QuietMove DEF Load, world

\* A busy file is skipped.
LEMMA PurgeSkipCache ==
    ASSUME IInv, CacheInv, NEW t \in Threads, PurgeSkip(t) PROVE CacheInv'
<1> DEFINE l == [th[t] EXCEPT !.pc = "purge"]
<1>0. /\ th \in [Threads -> Local] /\ th[t] \in Local /\ Fetched(th[t])
      /\ Key(th[t]) = OwnKey(t) /\ OwnKey(t) \in Keys
      /\ Locked(th[t]) /\ View(th[t], data, meta) /\ Late(th[t], data, now)
      /\ (~AllowRevert => Origin(th[t], meta)) /\ now \in Nat
  BY CacheFacts
<1>1. l \in Local
  BY <1>0 DEF Local, PCs, Continuations
<1>2. /\ l.pc = "purge" /\ l.held = th[t].held /\ l.obj = th[t].obj /\ l.sha = th[t].sha
      /\ l.etag = th[t].etag /\ l.got = th[t].got /\ l.stamp = th[t].stamp
      /\ l.buf = th[t].buf /\ l.victim = th[t].victim /\ l.after = th[t].after
      /\ l.todo = th[t].todo
  BY <1>0 DEF Local
<1>3. th' = [th EXCEPT ![t] = l] /\ th[t].pc = "purgetry"
  BY <1>0 DEF PurgeSkip, At
<1> HIDE DEF l
<1>4. Key(l) = OwnKey(t)
  BY <1>0, <1>2 DEF Key
<1>5. Locked(l) /\ View(l, data, meta)
  BY <1>0, <1>2, <1>3, <1>4 DEF Locked, View, Outside, Inside, Removing
<1>6. Late(l, data, now)
  BY <1>0, <1>2, <1>3, <1>4 DEF Late, SelfEvicted, Removing
<1>7. ~AllowRevert => Origin(l, meta)
  BY <1>0, <1>2, <1>3 DEF Origin
<1>8. \A u \in Threads \ {t} : l.held \cap th[u].held = {}
  BY <1>2, CacheFacts
<1> QED
  BY <1>1, <1>2, <1>3, <1>5, <1>6, <1>7, <1>8, QuietMove DEF PurgeSkip, world

\* A purge holds nothing while it scans.
LEMMA StartPurgeCache ==
    ASSUME IInv, CacheInv, NEW t \in Threads, StartPurge(t) PROVE CacheInv'
<1> DEFINE l == [th[t] EXCEPT !.pc = "purge", !.stamp = now, !.todo = CollectStats]
<1>0. /\ th \in [Threads -> Local] /\ th[t] \in Local /\ Fetched(th[t])
      /\ Key(th[t]) = OwnKey(t) /\ OwnKey(t) \in Keys
      /\ Locked(th[t]) /\ View(th[t], data, meta) /\ Late(th[t], data, now)
      /\ (~AllowRevert => Origin(th[t], meta)) /\ now \in Nat
  BY CacheFacts
<1>t. CollectStats \in SUBSET Stat
  BY StatsTyped DEF IInv
<1>1. l \in Local
  BY <1>0, <1>t DEF Local, PCs, Continuations
<1>2. /\ l.pc = "purge" /\ l.stamp = now /\ l.todo = CollectStats /\ l.held = th[t].held
      /\ l.obj = th[t].obj /\ l.sha = th[t].sha /\ l.etag = th[t].etag /\ l.got = th[t].got
      /\ l.buf = th[t].buf /\ l.victim = th[t].victim /\ l.after = th[t].after
  BY <1>0 DEF Local
<1>3. th' = [th EXCEPT ![t] = l] /\ th[t].pc = "idle"
  BY <1>0 DEF StartPurge, At
<1> HIDE DEF l
<1>4. Key(l) = OwnKey(t)
  BY <1>0, <1>2 DEF Key
<1>5. Locked(l) /\ View(l, data, meta)
  BY <1>0, <1>2, <1>3, <1>4 DEF Locked, View, Outside, Inside, Removing
<1>6. Late(l, data, now)
  BY <1>0, <1>2, <1>3, <1>4 DEF Late, SelfEvicted, Removing
<1>7. ~AllowRevert => Origin(l, meta)
  BY <1>0, <1>2, <1>3 DEF Origin
<1>8. \A u \in Threads \ {t} : l.held \cap th[u].held = {}
  BY <1>2, CacheFacts
<1> QED
  BY <1>1, <1>2, <1>3, <1>5, <1>6, <1>7, <1>8, QuietMove DEF StartPurge, world

\* invalidate holds nothing yet.
LEMMA StartInvalidateCache ==
    ASSUME IInv, CacheInv, NEW t \in Threads, NEW o \in Objects,
           NEW sha \in Contents \cup {NoSha}, StartInvalidate(t, o, sha) PROVE CacheInv'
<1> DEFINE l == [th[t] EXCEPT !.pc = "invalidate", !.obj = o, !.sha = sha]
<1>0. /\ th \in [Threads -> Local] /\ th[t] \in Local /\ Fetched(th[t])
      /\ Key(th[t]) = OwnKey(t) /\ OwnKey(t) \in Keys
      /\ Locked(th[t]) /\ View(th[t], data, meta) /\ Late(th[t], data, now)
      /\ (~AllowRevert => Origin(th[t], meta)) /\ now \in Nat
  BY CacheFacts
<1>1. l \in Local
  BY <1>0 DEF Local, PCs, Continuations
<1>2. /\ l.pc = "invalidate" /\ l.obj = o /\ l.sha = sha /\ l.held = th[t].held
      /\ l.etag = th[t].etag /\ l.got = th[t].got /\ l.stamp = th[t].stamp
      /\ l.buf = th[t].buf /\ l.victim = th[t].victim /\ l.after = th[t].after
      /\ l.todo = th[t].todo
  BY <1>0 DEF Local
<1>3. th' = [th EXCEPT ![t] = l] /\ th[t].pc = "idle"
  BY <1>0 DEF StartInvalidate, At
<1> HIDE DEF l
<1>5. Locked(l) /\ View(l, data, meta)
  BY <1>0, <1>2, <1>3 DEF Locked, View, Outside, Inside, Removing
<1>6. Late(l, data, now)
  BY <1>0, <1>2, <1>3 DEF Late, SelfEvicted, Removing
<1>7. ~AllowRevert => Origin(l, meta)
  BY <1>0, <1>2, <1>3 DEF Origin, Locked
<1>8. \A u \in Threads \ {t} : l.held \cap th[u].held = {}
  BY <1>2, CacheFacts
<1> QED
  BY <1>1, <1>2, <1>3, <1>5, <1>6, <1>7, <1>8, QuietMove DEF StartInvalidate, world

\* invalidate takes the lock of the entry it removes.
LEMMA InvalidateCache ==
    ASSUME IInv, CacheInv, OneProcess, NEW t \in Threads, Invalidate(t) PROVE CacheInv'
<1> DEFINE l == [th[t] EXCEPT !.pc = "rmdata", !.held = {OwnKey(t)}, !.victim = OwnKey(t), !.after = "invalidated"]
<1>0. /\ th \in [Threads -> Local] /\ th[t] \in Local /\ Fetched(th[t])
      /\ Key(th[t]) = OwnKey(t) /\ OwnKey(t) \in Keys
      /\ Locked(th[t]) /\ View(th[t], data, meta) /\ Late(th[t], data, now)
      /\ (~AllowRevert => Origin(th[t], meta)) /\ now \in Nat
  BY CacheFacts
<1>t. {OwnKey(t)} \in SUBSET Keys
  BY <1>0
<1>1. l \in Local
  BY <1>0, <1>t DEF Local, PCs, Continuations
<1>2. /\ l.pc = "rmdata" /\ l.held = {OwnKey(t)} /\ l.victim = OwnKey(t)
      /\ l.after = "invalidated" /\ l.obj = th[t].obj /\ l.sha = th[t].sha
      /\ l.etag = th[t].etag /\ l.got = th[t].got /\ l.stamp = th[t].stamp
      /\ l.buf = th[t].buf /\ l.todo = th[t].todo
  BY <1>0 DEF Local
<1>3. th' = [th EXCEPT ![t] = l] /\ th[t].pc = "invalidate"
  BY <1>0 DEF Invalidate, At
<1> HIDE DEF l
<1>4. Key(l) = OwnKey(t)
  BY <1>0, <1>2 DEF Key
<1>5. Locked(l) /\ View(l, data, meta)
  BY <1>0, <1>2, <1>3, <1>4 DEF Locked, View, Outside, Inside, Removing
<1>6. Late(l, data, now)
  BY <1>0, <1>2, <1>3, <1>4 DEF Late, SelfEvicted, Removing
<1>7. ~AllowRevert => Origin(l, meta)
  BY <1>0, <1>2, <1>3 DEF Origin
<1>8. \A u \in Threads \ {t} : l.held \cap th[u].held = {}
  BY <1>2, FreeMeansFree DEF Invalidate
<1> QED
  BY <1>1, <1>2, <1>3, <1>5, <1>6, <1>7, <1>8, QuietMove DEF Invalidate, world

\* A purge takes the lock of the entry it removes, and no other.
LEMMA PurgeTakeCache ==
    ASSUME IInv, CacheInv, OneProcess, NEW t \in Threads, PurgeTake(t) PROVE CacheInv'
<1> DEFINE l == [th[t] EXCEPT !.pc = "rmdata", !.held = {th[t].victim}, !.after = "purge"]
<1>0. /\ th \in [Threads -> Local] /\ th[t] \in Local /\ Fetched(th[t])
      /\ Key(th[t]) = OwnKey(t) /\ OwnKey(t) \in Keys
      /\ Locked(th[t]) /\ View(th[t], data, meta) /\ Late(th[t], data, now)
      /\ (~AllowRevert => Origin(th[t], meta)) /\ now \in Nat
  BY CacheFacts
<1>t. th[t].victim \in Keys /\ {th[t].victim} \in SUBSET Keys
  BY <1>0 DEF PurgeTake, At, Fetched, Local
<1>1. l \in Local
  BY <1>0, <1>t DEF Local, PCs, Continuations
<1>2. /\ l.pc = "rmdata" /\ l.held = {th[t].victim} /\ l.after = "purge"
      /\ l.obj = th[t].obj /\ l.sha = th[t].sha /\ l.etag = th[t].etag /\ l.got = th[t].got
      /\ l.stamp = th[t].stamp /\ l.buf = th[t].buf /\ l.victim = th[t].victim
      /\ l.todo = th[t].todo
  BY <1>0 DEF Local
<1>3. th' = [th EXCEPT ![t] = l] /\ th[t].pc = "purgetry"
  BY <1>0 DEF PurgeTake, At
<1> HIDE DEF l
<1>4. Key(l) = OwnKey(t)
  BY <1>0, <1>2 DEF Key
<1>5. Locked(l) /\ View(l, data, meta)
  BY <1>0, <1>2, <1>3, <1>4 DEF Locked, View, Outside, Inside, Removing
<1>6. Late(l, data, now)
  BY <1>0, <1>2, <1>3, <1>4 DEF Late, SelfEvicted, Removing
<1>7. ~AllowRevert => Origin(l, meta)
  BY <1>0, <1>2, <1>3 DEF Origin
<1>8. \A u \in Threads \ {t} : l.held \cap th[u].held = {}
  BY <1>2, FreeMeansFree DEF PurgeTake
<1> QED
  BY <1>1, <1>2, <1>3, <1>5, <1>6, <1>7, <1>8, QuietMove DEF PurgeTake, world

\* Bytes that are not the ones HEAD saw prove that the ETag is gone for good; the
\* same for the ETag of a meta that was left behind.
LEMMA DownloadCache ==
    ASSUME IInv, CacheInv, NEW t \in Threads, Download(t) PROVE CacheInv'
<1> DEFINE l == [th[t] EXCEPT !.pc = "storedata", !.got = remote[th[t].obj], !.stamp = now]
<1>0. /\ th \in [Threads -> Local] /\ th[t] \in Local /\ Fetched(th[t])
      /\ Key(th[t]) = OwnKey(t) /\ OwnKey(t) \in Keys
      /\ Locked(th[t]) /\ View(th[t], data, meta) /\ Late(th[t], data, now)
      /\ (~AllowRevert => Origin(th[t], meta)) /\ now \in Nat
  BY CacheFacts
<1>t. remote[th[t].obj] \in Contents \cup {None}
  BY CacheFacts
<1>1. l \in Local
  BY <1>0, <1>t DEF Local, PCs, Continuations
<1>2. /\ l.pc = "storedata" /\ l.got = remote[th[t].obj] /\ l.stamp = now
      /\ l.held = th[t].held /\ l.obj = th[t].obj /\ l.sha = th[t].sha
      /\ l.etag = th[t].etag /\ l.buf = th[t].buf /\ l.victim = th[t].victim
      /\ l.after = th[t].after /\ l.todo = th[t].todo
  BY <1>0 DEF Local
<1>3. th' = [th EXCEPT ![t] = l] /\ th[t].pc = "download"
  BY <1>0 DEF Download, At
<1> HIDE DEF l
<1>4. Key(l) = OwnKey(t)
  BY <1>0, <1>2 DEF Key
<1>5. Locked(l) /\ View(l, data, meta)
  BY <1>0, <1>2, <1>3, <1>4 DEF Locked, View, Outside, Inside, Removing
<1>6. Late(l, data, now)
  BY <1>0, <1>2, <1>3, <1>4 DEF Late, SelfEvicted, Removing
<1>7. ~AllowRevert => Origin(l, meta)
  <2> SUFFICES ASSUME ~AllowRevert, l.sha = NoSha PROVE Origin(l, meta)
    BY DEF Origin
  <2>1. th[t].obj \in Objects /\ th[t].etag # None /\ Origin(th[t], meta)
    BY <1>0, <1>3 DEF Fetched, Local
  <2>2. th[t].etag \in past[th[t].obj]
    BY <1>2, <2>1 DEF Origin
  <2>3. meta[th[t].obj] # None => meta[th[t].obj].etag \in past[th[t].obj]
    BY <2>1 DEF CacheInv, HonestInv
  <2> QED
    BY <1>2, <2>2, <2>3 DEF Origin, Honest, Gone
<1>8. \A u \in Threads \ {t} : l.held \cap th[u].held = {}
  BY <1>2, CacheFacts
<1> QED
  BY <1>1, <1>2, <1>3, <1>5, <1>6, <1>7, <1>8, QuietMove DEF Download, world

\* A thread that drops its own entry holds its lock.
LEMMA RemoveOwnCache ==
    ASSUME IInv, CacheInv, NEW t \in Threads, NEW cont \in {"gotnone", "download"},
           At(t, "headed"), RemoveOwn(t, cont) PROVE CacheInv'
<1> DEFINE l == [th[t] EXCEPT !.pc = "rmdata", !.victim = OwnKey(t), !.after = cont]
<1>0. /\ th \in [Threads -> Local] /\ th[t] \in Local /\ Fetched(th[t])
      /\ Key(th[t]) = OwnKey(t) /\ OwnKey(t) \in Keys
      /\ Locked(th[t]) /\ View(th[t], data, meta) /\ Late(th[t], data, now)
      /\ (~AllowRevert => Origin(th[t], meta)) /\ now \in Nat
  BY CacheFacts
<1>1. l \in Local
  BY <1>0 DEF Local, PCs, Continuations
<1>2. /\ l.pc = "rmdata" /\ l.victim = OwnKey(t) /\ l.after = cont /\ l.held = th[t].held
      /\ l.obj = th[t].obj /\ l.sha = th[t].sha /\ l.etag = th[t].etag /\ l.got = th[t].got
      /\ l.stamp = th[t].stamp /\ l.buf = th[t].buf /\ l.todo = th[t].todo
  BY <1>0 DEF Local
<1>3. th' = [th EXCEPT ![t] = l] /\ th[t].pc = "headed"
  BY <1>0 DEF RemoveOwn, At
<1> HIDE DEF l
<1>4. Key(l) = OwnKey(t)
  BY <1>0, <1>2 DEF Key
<1>5. Locked(l) /\ View(l, data, meta)
  BY <1>0, <1>2, <1>3, <1>4 DEF Locked, View, Outside, Inside, Removing
<1>6. Late(l, data, now)
  BY <1>0, <1>2, <1>3, <1>4 DEF Late, SelfEvicted, Removing
<1>7. ~AllowRevert => Origin(l, meta)
  BY <1>0, <1>2, <1>3 DEF Origin
<1>8. \A u \in Threads \ {t} : l.held \cap th[u].held = {}
  BY <1>2, CacheFacts
<1> QED
  BY <1>1, <1>2, <1>3, <1>5, <1>6, <1>7, <1>8, QuietMove DEF RemoveOwn, world

\* An eviction takes the lock of its victim; the victim is the own entry only after
\* the grace period.
LEMMA EvictTakeCache ==
    ASSUME IInv, CacheInv, OneProcess, NEW t \in Threads, NEW e \in th[t].todo, EvictTake(t, e) PROVE CacheInv'
<1> DEFINE l == [th[t] EXCEPT !.pc = "rmdata", !.held = @ \cup {KeyFromMetaPath(e.key)}, !.victim = KeyFromMetaPath(e.key), !.after = "evict", !.todo = @ \ {e}]
<1>0. /\ th \in [Threads -> Local] /\ th[t] \in Local /\ Fetched(th[t])
      /\ Key(th[t]) = OwnKey(t) /\ OwnKey(t) \in Keys
      /\ Locked(th[t]) /\ View(th[t], data, meta) /\ Late(th[t], data, now)
      /\ (~AllowRevert => Origin(th[t], meta)) /\ now \in Nat
  BY CacheFacts
<1>t. e \in Stat /\ KeyFromMetaPath(e.key) \in Keys
  BY TodoTyped, MetaPathInKeys DEF Stat
<1>1. l \in Local
  BY <1>0, <1>t DEF Local, PCs, Continuations
<1>2. /\ l.pc = "rmdata" /\ l.held = th[t].held \cup {KeyFromMetaPath(e.key)}
      /\ l.victim = KeyFromMetaPath(e.key) /\ l.after = "evict" /\ l.todo = th[t].todo \ {e}
      /\ l.obj = th[t].obj /\ l.sha = th[t].sha /\ l.etag = th[t].etag /\ l.got = th[t].got
      /\ l.stamp = th[t].stamp /\ l.buf = th[t].buf
  BY <1>0 DEF Local
<1>3. th' = [th EXCEPT ![t] = l] /\ th[t].pc = "evict"
  BY <1>0 DEF EvictTake, At
<1> HIDE DEF l
<1>4. Key(l) = OwnKey(t)
  BY <1>0, <1>2 DEF Key
<1>5. Locked(l) /\ View(l, data, meta)
  BY <1>0, <1>2, <1>3, <1>4 DEF Locked, View, Outside, Inside, Removing
<1>6. Late(l, data, now)
  BY <1>0, <1>2, <1>3, <1>4 DEF Late, SelfEvicted, Removing
<1>7. ~AllowRevert => Origin(l, meta)
  BY <1>0, <1>2, <1>3 DEF Origin
<1>8. \A u \in Threads \ {t} : l.held \cap th[u].held = {}
  BY <1>2, CacheFacts, FreeMeansFree DEF EvictTake
<1> QED
  BY <1>1, <1>2, <1>3, <1>5, <1>6, <1>7, <1>8, QuietMove DEF EvictTake, world

\* _touch_meta changes the access time only.
LEMMA TouchedKeeps ==
    ASSUME NEW m \in Meta \cup {None}, Touched(m) # None, now \in Nat
    PROVE  m # None /\ Touched(m).etag = m.etag /\ Touched(m).size = m.size
  BY DEF Touched, Meta

\* A file that is served is there.
LEMMA ServeCache ==
    ASSUME IInv, CacheInv, NEW t \in Threads, th[t].pc \in {"lookup", "headed"},
           data[OwnKey(t)] # None, Serve(t) PROVE CacheInv'
<1> DEFINE m == Touched(meta[OwnKey(t)])
           p == IF m = None THEN "gotpath" ELSE "writemeta"
<1>0. /\ th \in [Threads -> Local] /\ th[t] \in Local
      /\ Key(th[t]) = OwnKey(t) /\ OwnKey(t) \in Keys /\ Locked(th[t])
      /\ (~AllowRevert => Origin(th[t], meta))
      /\ now \in Nat /\ meta[OwnKey(t)] \in Meta \cup {None}
  BY CacheFacts
<1>1. /\ p \in {"gotpath", "writemeta"} /\ m \in Meta \cup {None}
      /\ p = "writemeta" => m # None
  BY <1>0, TouchedTyped
<1>2. m # None => /\ meta[OwnKey(t)] # None
                  /\ m.etag = meta[OwnKey(t)].etag /\ m.size = meta[OwnKey(t)].size
  BY <1>0, TouchedKeeps
<1>3. th' = [th EXCEPT ![t].pc = p, ![t].buf = m, ![t].stamp = now]
  BY DEF Serve
<1> HIDE DEF m, p
<1> DEFINE l == [th[t] EXCEPT !.pc = p, !.buf = m, !.stamp = now]
<1>4. l \in Local
  BY <1>0, <1>1 DEF Local, PCs
<1>5. /\ l.pc = p /\ l.buf = m /\ l.held = th[t].held /\ l.obj = th[t].obj
      /\ l.sha = th[t].sha /\ l.etag = th[t].etag
  BY <1>0 DEF Local
<1>6. th' = [th EXCEPT ![t] = l]
  BY <1>0, <1>3
<1> HIDE DEF l
<1>7. Key(l) = OwnKey(t)
  BY <1>0, <1>5 DEF Key
<1>8. Locked(l) /\ View(l, data, meta)
  BY <1>0, <1>1, <1>2, <1>5, <1>7 DEF Locked, View, Outside, Inside, Removing
<1>9. Late(l, data, now)
  BY <1>1, <1>5, <1>7 DEF Late, SelfEvicted, Removing
<1>10. ~AllowRevert => Origin(l, meta)
  BY <1>0, <1>1, <1>5 DEF Origin
<1>11. \A u \in Threads \ {t} : l.held \cap th[u].held = {}
  BY <1>5, CacheFacts
<1> QED
  BY <1>1, <1>4, <1>5, <1>6, <1>8, <1>9, <1>10, <1>11, QuietMove DEF Serve, world

\* HEAD learns a fingerprint the object has now, or none.
LEMMA HeadCache ==
    ASSUME IInv, CacheInv, NEW t \in Threads, Head(t) PROVE CacheInv'
<1>0. /\ th \in [Threads -> Local] /\ th[t] \in Local
      /\ Key(th[t]) = OwnKey(t) /\ Locked(th[t]) /\ View(th[t], data, meta)
      /\ (~AllowRevert => Origin(th[t], meta)) /\ th[t].pc = "head"
  BY CacheFacts DEF Head, At
<1>1. PICK r \in {remote[th[t].obj], None} : th' = [th EXCEPT ![t].pc = "headed", ![t].etag = r]
  BY DEF Head
<1>2. r \in Contents \cup {None}
  BY CacheFacts
<1> DEFINE l == [th[t] EXCEPT !.pc = "headed", !.etag = r]
<1>3. l \in Local
  BY <1>0, <1>2 DEF Local, PCs
<1>4. /\ l.pc = "headed" /\ l.etag = r /\ l.held = th[t].held /\ l.obj = th[t].obj
      /\ l.sha = th[t].sha
  BY <1>0 DEF Local
<1>5. th' = [th EXCEPT ![t] = l]
  BY <1>0, <1>1
<1> HIDE DEF l
<1>6. Key(l) = OwnKey(t)
  BY <1>0, <1>4 DEF Key
<1>7. Locked(l) /\ View(l, data, meta) /\ Late(l, data, now)
  BY <1>0, <1>4, <1>6 DEF Locked, View, Late, Outside, Inside, Removing
<1>8. ~AllowRevert => Origin(l, meta)
  <2>1. th[t].obj \in Objects
    BY <1>0 DEF Local
  <2>2. ~AllowRevert => remote[th[t].obj] \in past[th[t].obj]
    BY <2>1 DEF CacheInv, HonestInv
  <2> QED
    BY <1>4, <2>2 DEF Origin
<1>9. \A u \in Threads \ {t} : l.held \cap th[u].held = {}
  BY <1>4, CacheFacts
<1>10. faults' = 0 => faults = 0
  BY CacheFacts DEF Head, Fault
<1> QED
  BY <1>0, <1>3, <1>4, <1>5, <1>7, <1>8, <1>9, <1>10, QuietMove DEF Head

\* An ETag match keeps the ETag and the size of the meta.
LEMMA RevalidatedCache ==
    ASSUME IInv, CacheInv, NEW t \in Threads, Revalidated(t) PROVE CacheInv'
<1> DEFINE m == [meta[OwnKey(t)] EXCEPT !.validated = now, !.accessed = now]
<1>0. /\ th \in [Threads -> Local] /\ th[t] \in Local
      /\ Key(th[t]) = OwnKey(t) /\ Locked(th[t])
      /\ (~AllowRevert => Origin(th[t], meta)) /\ th[t].pc = "headed"
      /\ now \in Nat /\ meta[OwnKey(t)] \in Meta /\ data[OwnKey(t)] # None
  BY CacheFacts DEF Revalidated, At, EtagMatch
<1>1. m \in Meta /\ m.etag = meta[OwnKey(t)].etag /\ m.size = meta[OwnKey(t)].size
  BY <1>0 DEF Meta
<1>2. th' = [th EXCEPT ![t].pc = "writemeta", ![t].stamp = now, ![t].buf = m]
  BY DEF Revalidated
<1> HIDE DEF m
<1> DEFINE l == [th[t] EXCEPT !.pc = "writemeta", !.stamp = now, !.buf = m]
<1>3. l \in Local
  BY <1>0, <1>1 DEF Local, PCs
<1>4. /\ l.pc = "writemeta" /\ l.buf = m /\ l.held = th[t].held /\ l.obj = th[t].obj
      /\ l.sha = th[t].sha /\ l.etag = th[t].etag
  BY <1>0 DEF Local
<1>5. th' = [th EXCEPT ![t] = l]
  BY <1>0, <1>2
<1> HIDE DEF l
<1>6. Key(l) = OwnKey(t)
  BY <1>0, <1>4 DEF Key
<1>7. Locked(l) /\ Late(l, data, now)
  BY <1>0, <1>4, <1>6 DEF Locked, Late, Outside, Inside, Removing
<1>8. View(l, data, meta)
  BY <1>0, <1>1, <1>4, <1>6, NoneAssumption DEF View
<1>9. ~AllowRevert => Origin(l, meta)
  BY <1>0, <1>4 DEF Origin
<1>10. \A u \in Threads \ {t} : l.held \cap th[u].held = {}
  BY <1>4, CacheFacts
<1> QED
  BY <1>0, <1>3, <1>4, <1>5, <1>7, <1>8, <1>9, <1>10, QuietMove DEF Revalidated, world

\* The size check leaves the freshly stored entry in place.
LEMMA EvictCheckCache ==
    ASSUME IInv, CacheInv, NEW t \in Threads, EvictCheck(t) PROVE CacheInv'
<1>0. /\ th \in [Threads -> Local] /\ th[t] \in Local
      /\ Key(th[t]) = OwnKey(t) /\ Locked(th[t]) /\ View(th[t], data, meta)
      /\ (~AllowRevert => Origin(th[t], meta)) /\ th[t].pc = "evictcheck"
  BY CacheFacts DEF EvictCheck, At
<1>1. PICK p \in {"gotpath", "collect"} : th' = [th EXCEPT ![t].pc = p]
  BY DEF EvictCheck
<1> DEFINE l == [th[t] EXCEPT !.pc = p]
<1>2. l \in Local
  BY <1>0 DEF Local, PCs
<1>3. /\ l.pc = p /\ l.held = th[t].held /\ l.obj = th[t].obj /\ l.stamp = th[t].stamp
      /\ l.sha = th[t].sha /\ l.etag = th[t].etag
  BY <1>0 DEF Local
<1>4. th' = [th EXCEPT ![t] = l]
  BY <1>0, <1>1
<1> HIDE DEF l
<1>5. Key(l) = OwnKey(t)
  BY <1>0, <1>3 DEF Key
<1>6. Locked(l) /\ View(l, data, meta)
  BY <1>0, <1>3, <1>5 DEF Locked, View, Outside, Inside, Removing
<1>7. Late(l, data, now)
  BY <1>0, <1>3, <1>5 DEF Late, SelfEvicted, View, Removing
<1>8. ~AllowRevert => Origin(l, meta)
  BY <1>0, <1>3 DEF Origin
<1>9. \A u \in Threads \ {t} : l.held \cap th[u].held = {}
  BY <1>3, CacheFacts
<1> QED
  BY <1>0, <1>2, <1>3, <1>4, <1>6, <1>7, <1>8, <1>9, QuietMove DEF EvictCheck, world

\* A purge holds nothing while it reads a meta.
LEMMA PurgeReadCache ==
    ASSUME IInv, CacheInv, NEW t \in Threads, NEW e \in Stat, PurgeRead(t, e) PROVE CacheInv'
<1> DEFINE p == IF Expired(t, e.key) THEN "purgetry" ELSE "purge"
           k == KeyFromMetaPath(e.key)
<1>0. /\ th \in [Threads -> Local] /\ th[t] \in Local /\ Locked(th[t])
      /\ (~AllowRevert => Origin(th[t], meta)) /\ th[t].pc = "purge"
  BY CacheFacts DEF PurgeRead, At
<1>1. p \in {"purgetry", "purge"} /\ k \in Keys
  BY MetaPathInKeys DEF Stat
<1>2. th' = [th EXCEPT ![t].pc = p, ![t].victim = k, ![t].todo = @ \ {e}]
  BY DEF PurgeRead
<1> HIDE DEF p, k
<1> DEFINE l == [th[t] EXCEPT !.pc = p, !.victim = k, !.todo = @ \ {e}]
<1>3. l \in Local
  BY <1>0, <1>1 DEF Local, PCs
<1>4. /\ l.pc = p /\ l.held = th[t].held /\ l.obj = th[t].obj
      /\ l.sha = th[t].sha /\ l.etag = th[t].etag
  BY <1>0 DEF Local
<1>5. th' = [th EXCEPT ![t] = l]
  BY <1>0, <1>2
<1> HIDE DEF l
<1>6. Locked(l) /\ View(l, data, meta) /\ Late(l, data, now)
  BY <1>0, <1>1, <1>4 DEF Locked, View, Late, Outside, Inside, Removing
<1>7. ~AllowRevert => Origin(l, meta)
  BY <1>0, <1>1, <1>4 DEF Origin
<1>8. \A u \in Threads \ {t} : l.held \cap th[u].held = {}
  BY <1>4, CacheFacts
<1> QED
  BY <1>0, <1>1, <1>3, <1>4, <1>5, <1>6, <1>7, <1>8, QuietMove DEF PurgeRead, world

\* A thread outside the cache knows and holds nothing.
LEMMA OutsideSound ==
    ASSUME NEW l, l.pc \in {"idle", "loading"}, l.held = {}, l.etag = None
    PROVE  /\ Locked(l) /\ View(l, data, meta) /\ Late(l, data, now) /\ Origin(l, meta)
  BY DEF Locked, View, Late, Origin, Outside, Inside, Removing

\* The end of a call releases every lock.
LEMMA StopCache ==
    ASSUME IInv, CacheInv, NEW t \in Threads,
           th[t].pc \notin {"rmmeta", "storemeta"}, Stop(t) PROVE CacheInv'
<1>1. Blank \in Local /\ Blank.pc = "idle" /\ Blank.held = {} /\ Blank.etag = None
  BY BlankLocal DEF Blank
<1>2. th' = [th EXCEPT ![t] = Blank]
  BY DEF Stop
<1>3. /\ Locked(Blank) /\ View(Blank, data, meta) /\ Late(Blank, data, now)
      /\ Origin(Blank, meta)
  BY <1>1, OutsideSound
<1> QED
  BY <1>1, <1>2, <1>3, QuietMove DEF Stop, world

\* Returning a path releases every lock.
LEMMA ReturnPathCache ==
    ASSUME IInv, CacheInv, NEW t \in Threads, ReturnPath(t) PROVE CacheInv'
<1> DEFINE l == [Blank EXCEPT !.pc = "loading", !.obj = th[t].obj,
                               !.sha = th[t].sha, !.stamp = th[t].stamp]
<1>0. th[t] \in Local /\ th[t].pc = "gotpath"
  BY CacheFacts DEF ReturnPath, At
<1>1. l \in Local
  BY <1>0, BlankLocal DEF Local, PCs
<1>2. l.pc = "loading" /\ l.held = {} /\ l.etag = None
  BY DEF Blank
<1>3. th' = [th EXCEPT ![t] = l]
  BY DEF ReturnPath
<1> HIDE DEF l
<1>4. Locked(l) /\ View(l, data, meta) /\ Late(l, data, now) /\ Origin(l, meta)
  BY <1>2, OutsideSound
<1> QED
  BY <1>0, <1>1, <1>2, <1>3, <1>4, QuietMove DEF ReturnPath, world

(***************************************************************************)
(* The steps that write the disk.                                          *)
(***************************************************************************)
\* Only the holder of a key can be between the two file operations on it.
LEMMA MidIsHeld ==
    ASSUME NEW l, Locked(l), NEW k, Mid(l, k) PROVE k \in l.held
  BY DEF Locked, Mid, Inside, Removing

\* An entry whose holder is not between its two file operations is paired.
LEMMA HeldIsPaired ==
    ASSUME IInv, CacheInv, faults = 0, NEW t \in Threads, NEW k \in th[t].held,
           ~Mid(th[t], k)
    PROVE  Paired(data, meta, k)
<1>1. k \in Keys
  BY CacheFacts DEF Local
<1>2. ASSUME NEW u \in Threads \ {t} PROVE ~Mid(th[u], k)
  <2>1. Locked(th[u]) /\ k \notin th[u].held
    BY CacheFacts
  <2> QED
    BY <2>1, MidIsHeld
<1> QED
  BY <1>1, <1>2 DEF CacheInv, PairInv

\* One file operation on a key that is held.
LEMMA DiskMove ==
    ASSUME IInv, CacheInv, NEW t \in Threads, NEW l \in Local,
           th' = [th EXCEPT ![t] = l], l.held \subseteq th[t].held,
           NEW k \in th[t].held,
           \A j \in Keys \ {k} : data'[j] = data[j] /\ meta'[j] = meta[j],
           UNCHANGED <<bucket, now>>, faults' = 0 => faults = 0,
           Locked(l), View(l, data', meta'), Late(l, data', now),
           \A j : Mid(th[t], j) => j = k,
           faults' = 0 => Mid(l, k) \/ Paired(data', meta', k),
           faults' = 0 /\ l.pc = "rmmeta" => data'[l.victim] = None,
           ~AllowRevert => Origin(l, meta'),
           ~AllowRevert /\ k \in Objects /\ meta'[k] # None =>
               /\ meta'[k].etag \in past[k]
               /\ data'[k] # None => Honest(k, data'[k], meta'[k].etag)
    PROVE  CacheInv'
<1>0. /\ th'[t] = l
      /\ \A u \in Threads \ {t} : th'[u] = th[u]
  BY DEF IInv, TypeOK
<1>d. remote' = remote /\ past' = past /\ now' = now
  BY DEF bucket
<1>h. /\ \A u \in Threads \ {t} : th[u] \in Local /\ Locked(th[u])
      /\ \A u \in Threads \ {t} : th[t].held \cap th[u].held = {}
      /\ \A u \in Threads \ {t} : th[u].held \in SUBSET Keys
  BY CacheFacts DEF Local
<1>1. LockInv'
  <2>1. \A u \in Threads \ {t} : l.held \cap th[u].held = {}
    BY <1>h
  <2> QED
    BY <1>d, <2>1, MoveStep DEF CacheInv
<1>2. PairInv'
  <2> SUFFICES ASSUME faults' = 0
               PROVE  /\ \A j \in Keys : (\A u \in Threads : ~Mid(th'[u], j)) => Paired(data', meta', j)
                      /\ \A u \in Threads : th'[u].pc = "rmmeta" => data'[th'[u].victim] = None
    BY DEF PairInv
  <2>1. /\ \A j \in Keys : (\A u \in Threads : ~Mid(th[u], j)) => Paired(data, meta, j)
        /\ \A u \in Threads : th[u].pc = "rmmeta" => data[th[u].victim] = None
    BY DEF CacheInv, PairInv
  <2>2. ASSUME NEW j \in Keys, \A u \in Threads : ~Mid(th'[u], j) PROVE Paired(data', meta', j)
    <3>1. CASE j = k
      BY <1>0, <2>2, <3>1
    <3>2. CASE j # k
      <4>1. \A u \in Threads : ~Mid(th[u], j)
        BY <1>0, <2>2, <3>2
      <4> QED
        BY <2>1, <3>2, <4>1 DEF Paired
    <3> QED
      BY <3>1, <3>2
  <2>3. ASSUME NEW u \in Threads \ {t}, th[u].pc = "rmmeta" PROVE data'[th[u].victim] = None
    <3>1. th[u].victim \in th[u].held
      BY <1>h, <2>3 DEF Locked, Removing
    <3>2. th[u].victim \in Keys \ {k}
      BY <1>h, <3>1
    <3> QED
      BY <2>1, <2>3, <3>2
  <2> QED
    BY <1>0, <2>2, <2>3
<1>3. HonestInv'
  <2> SUFFICES ASSUME ~AllowRevert
               PROVE  /\ \A o \in Objects : remote[o] \in past[o]
                      /\ \A o \in Objects : meta'[o] # None =>
                            /\ meta'[o].etag \in past[o]
                            /\ data'[o] # None => Honest(o, data'[o], meta'[o].etag)
                      /\ \A u \in Threads : Origin(th'[u], meta')
    BY <1>d DEF HonestInv, Origin, Honest, Gone
  <2>1. /\ \A o \in Objects : remote[o] \in past[o]
        /\ \A o \in Objects : meta[o] # None =>
              /\ meta[o].etag \in past[o]
              /\ data[o] # None => Honest(o, data[o], meta[o].etag)
        /\ \A u \in Threads : Origin(th[u], meta)
    BY DEF CacheInv, HonestInv
  <2>2. \A o \in Objects : o \in Keys
    BY DEF Keys
  <2>3. \A o \in Objects : meta'[o] # None =>
            /\ meta'[o].etag \in past[o]
            /\ data'[o] # None => Honest(o, data'[o], meta'[o].etag)
    BY <2>1, <2>2
  <2>4. ASSUME NEW u \in Threads \ {t} PROVE Origin(th[u], meta')
    <3>1. \A j \in th[u].held : meta'[j] = meta[j]
      BY <1>h
    <3> QED
      BY <1>h, <2>1, <3>1, OriginIsLocal
  <2> QED
    BY <1>0, <2>1, <2>3, <2>4
<1> QED
  BY <1>1, <1>2, <1>3 DEF CacheInv

\* What HonestInv says about a key, if it is an object name.
LEMMA HonestFacts ==
    ASSUME IInv, CacheInv, NEW k \in Keys
    PROVE  ~AllowRevert /\ k \in Objects /\ meta[k] # None =>
               /\ meta[k].etag \in past[k]
               /\ data[k] # None => Honest(k, data[k], meta[k].etag)
  BY DEF CacheInv, HonestInv

\* An object key is the key of a request without a digest.
LEMMA ObjectKey ==
    ASSUME NEW l \in Local, Key(l) \in Objects PROVE l.sha = NoSha /\ Key(l) = l.obj
  BY DistinctAssumption DEF Key, CacheKey, Local

\* A refreshed meta keeps its ETag and its size.
LEMMA WriteMetaCache ==
    ASSUME IInv, CacheInv, NEW t \in Threads, WriteMeta(t) PROVE CacheInv'
<1> DEFINE l == [th[t] EXCEPT !.pc = "gotpath"]
           k == OwnKey(t)
<1>0. /\ th \in [Threads -> Local] /\ th[t] \in Local /\ Key(th[t]) = k /\ k \in Keys
      /\ Locked(th[t]) /\ View(th[t], data, meta) /\ th[t].pc = "writemeta"
      /\ (~AllowRevert => Origin(th[t], meta)) /\ faults \in Nat
  BY CacheFacts DEF WriteMeta, At
<1>1. l \in Local
  BY <1>0 DEF Local, PCs
<1>2. /\ l.pc = "gotpath" /\ l.held = th[t].held /\ l.obj = th[t].obj /\ l.sha = th[t].sha
      /\ l.etag = th[t].etag
  BY <1>0 DEF Local
<1>3. th' = [th EXCEPT ![t] = l]
  BY <1>0 DEF WriteMeta
<1> HIDE DEF l, k
<1>4. /\ Key(l) = k /\ k \in th[t].held
      /\ data[k] # None /\ meta[k] # None /\ th[t].buf # None
      /\ th[t].buf.etag = meta[k].etag /\ th[t].buf.size = meta[k].size
  BY <1>0, <1>2 DEF Key, Locked, View, Inside
<1>5. data' = data /\ UNCHANGED <<bucket, now>>
  BY DEF WriteMeta
<1>6. /\ \A j \in Keys \ {k} : meta'[j] = meta[j]
      /\ \/ meta'[k] = th[t].buf /\ faults' = faults
         \/ meta'[k] = meta[k] /\ faults' # 0
  BY <1>0 DEF WriteMeta, Fault, IInv, TypeOK, k
<1>7. Locked(l) /\ View(l, data', meta') /\ Late(l, data', now)
  BY <1>2, <1>4, <1>5 DEF Locked, View, Late, SelfEvicted, Outside, Inside, Removing
<1>8. \A j : ~Mid(th[t], j)
  BY <1>0, MidElsewhere
<1>9. faults' = 0 => faults = 0 /\ Paired(data', meta', k)
  <2>1. faults = 0 => Paired(data, meta, k)
    BY <1>4, <1>8, HeldIsPaired
  <2> QED
    BY <1>4, <1>5, <1>6, <2>1 DEF Paired
<1>10. ~AllowRevert => Origin(l, meta')
  BY <1>0, <1>2 DEF Origin
<1>11. ~AllowRevert /\ k \in Objects /\ meta'[k] # None =>
            /\ meta'[k].etag \in past[k]
            /\ data'[k] # None => Honest(k, data'[k], meta'[k].etag)
  BY <1>0, <1>4, <1>5, <1>6, HonestFacts
<1> QED
  BY <1>1, <1>2, <1>3, <1>4, <1>5, <1>6, <1>7, <1>8, <1>9, <1>10, <1>11, DiskMove

\* The first half of _store: the data file is the downloaded bytes.
LEMMA StoreDataCache ==
    ASSUME IInv, CacheInv, NEW t \in Threads, StoreData(t) PROVE CacheInv'
<1> DEFINE k == OwnKey(t)
<1>0. /\ th \in [Threads -> Local] /\ th[t] \in Local /\ Key(th[t]) = k /\ k \in Keys
      /\ Locked(th[t]) /\ th[t].pc = "storedata"
      /\ (~AllowRevert => Origin(th[t], meta)) /\ faults \in Nat
  BY CacheFacts DEF StoreData, At
<1>1. PICK p \in {"storemeta", "raise"} :
          /\ th' = [th EXCEPT ![t].pc = p]
          /\ \/ p = "storemeta" /\ data' = [data EXCEPT ![k] = th[t].got] /\ faults' = faults
             \/ p = "raise" /\ data' = data /\ faults' # 0
  BY <1>0 DEF StoreData, Fault
<1> DEFINE l == [th[t] EXCEPT !.pc = p]
<1>2. l \in Local
  BY <1>0 DEF Local, PCs
<1>3. /\ l.pc = p /\ l.held = th[t].held /\ l.obj = th[t].obj /\ l.sha = th[t].sha
      /\ l.etag = th[t].etag /\ l.got = th[t].got
  BY <1>0 DEF Local
<1>4. th' = [th EXCEPT ![t] = l]
  BY <1>0, <1>1
<1> HIDE DEF l, k
<1>5. Key(l) = k /\ k \in th[t].held /\ meta' = meta /\ UNCHANGED <<bucket, now>>
  BY <1>0, <1>3 DEF Key, Locked, Inside, StoreData
<1>6. /\ \A j \in Keys \ {k} : data'[j] = data[j]
      /\ \/ p = "storemeta" /\ data'[k] = th[t].got /\ faults' = faults
         \/ p = "raise" /\ data'[k] = data[k] /\ faults' # 0
  BY <1>0, <1>1 DEF IInv, TypeOK
<1>7. Locked(l) /\ View(l, data', meta') /\ Late(l, data', now)
  BY <1>3, <1>5, <1>6 DEF Locked, View, Late, Outside, Inside, Removing
<1>8. (\A j : ~Mid(th[t], j)) /\ (p = "storemeta" => Mid(l, k))
  BY <1>0, <1>3, <1>5 DEF Mid
<1>9. ~AllowRevert => Origin(l, meta')
  BY <1>0, <1>3, <1>5 DEF Origin
<1>10. ~AllowRevert /\ k \in Objects /\ meta'[k] # None =>
            /\ meta'[k].etag \in past[k]
            /\ data'[k] # None => Honest(k, data'[k], meta'[k].etag)
  <2>1. k \in Objects => th[t].sha = NoSha /\ k = th[t].obj
    BY <1>0, ObjectKey
  <2>2. ~AllowRevert /\ k \in Objects /\ meta[k] # None => Honest(k, th[t].got, meta[k].etag)
    BY <1>0, <2>1 DEF Origin
  <2> QED
    BY <1>0, <1>5, <1>6, <2>2, HonestFacts
<1> QED
  BY <1>2, <1>3, <1>4, <1>5, <1>6, <1>7, <1>8, <1>9, <1>10, DiskMove

\* The second half of _store: the meta belongs to the bytes stored before it.
LEMMA StoreMetaCache ==
    ASSUME IInv, CacheInv, NEW t \in Threads, StoreMeta(t) PROVE CacheInv'
<1> DEFINE k == OwnKey(t)
           m == NewMeta(t)
<1>0. /\ th \in [Threads -> Local] /\ th[t] \in Local /\ Key(th[t]) = k /\ k \in Keys
      /\ Fetched(th[t]) /\ Locked(th[t]) /\ View(th[t], data, meta) /\ th[t].pc = "storemeta"
      /\ (~AllowRevert => Origin(th[t], meta)) /\ faults \in Nat
  BY CacheFacts DEF StoreMeta, At
<1>1. PICK p \in {"evictcheck", "raise"} :
          /\ th' = [th EXCEPT ![t].pc = p]
          /\ \/ p = "evictcheck" /\ meta' = [meta EXCEPT ![k] = m] /\ faults' = faults
             \/ p = "raise" /\ meta' = meta /\ faults' # 0
  BY <1>0 DEF StoreMeta, Fault
<1>2. /\ m \in Meta /\ m.etag = th[t].etag /\ m.size = Size[th[t].got]
      /\ m.accessed = th[t].stamp
  <2>1. th[t].etag \in Contents /\ th[t].got \in Contents /\ th[t].stamp \in Nat
    BY <1>0 DEF Fetched, Local
  <2> QED
    BY <2>1, DomainAssumption DEF NewMeta, Meta
<1>3. m # None
  BY <1>2, NoneAssumption
<1> DEFINE l == [th[t] EXCEPT !.pc = p]
<1>4. l \in Local
  BY <1>0 DEF Local, PCs
<1>5. /\ l.pc = p /\ l.held = th[t].held /\ l.obj = th[t].obj /\ l.sha = th[t].sha
      /\ l.etag = th[t].etag /\ l.got = th[t].got /\ l.stamp = th[t].stamp
  BY <1>0 DEF Local
<1>6. th' = [th EXCEPT ![t] = l]
  BY <1>0, <1>1
<1> HIDE DEF l, k, m
<1>7. /\ Key(l) = k /\ k \in th[t].held /\ data' = data /\ UNCHANGED <<bucket, now>>
      /\ data[k] = th[t].got /\ data[k] # None
  BY <1>0, <1>5 DEF Key, Locked, View, Inside, StoreMeta, Fetched
<1>8. /\ \A j \in Keys \ {k} : meta'[j] = meta[j]
      /\ \/ p = "evictcheck" /\ meta'[k] = m /\ faults' = faults
         \/ p = "raise" /\ meta'[k] = meta[k] /\ faults' # 0
  BY <1>0, <1>1 DEF IInv, TypeOK
<1>9. Locked(l) /\ View(l, data', meta') /\ Late(l, data', now)
  BY <1>2, <1>3, <1>5, <1>7, <1>8 DEF Locked, View, Late, Outside, Inside, Removing
<1>10. \A j : Mid(th[t], j) => j = k
  BY <1>0 DEF Mid
<1>11. faults' = 0 => Paired(data', meta', k)
  BY <1>2, <1>3, <1>7, <1>8 DEF Paired
<1>12. ~AllowRevert => Origin(l, meta')
  BY <1>0, <1>5 DEF Origin
<1>13. ~AllowRevert /\ k \in Objects /\ meta'[k] # None =>
            /\ meta'[k].etag \in past[k]
            /\ data'[k] # None => Honest(k, data'[k], meta'[k].etag)
  <2>1. k \in Objects => th[t].sha = NoSha /\ k = th[t].obj
    BY <1>0, ObjectKey
  <2>2. ~AllowRevert /\ k \in Objects => th[t].etag \in past[k] /\ Honest(k, th[t].got, th[t].etag)
    BY <1>0, <2>1 DEF Origin, Fetched
  <2> QED
    BY <1>0, <1>2, <1>7, <1>8, <2>2, HonestFacts
<1> QED
  BY <1>4, <1>5, <1>6, <1>7, <1>8, <1>9, <1>10, <1>11, <1>12, <1>13, DiskMove

\* The first unlink of _remove_entry.
LEMMA RemoveDataCache ==
    ASSUME IInv, CacheInv, NEW t \in Threads, RemoveData(t) PROVE CacheInv'
<1> DEFINE k == th[t].victim
           l == [th[t] EXCEPT !.pc = "rmmeta"]
<1>0. /\ th \in [Threads -> Local] /\ th[t] \in Local
      /\ Locked(th[t]) /\ Late(th[t], data, now) /\ th[t].pc = "rmdata"
      /\ (~AllowRevert => Origin(th[t], meta)) /\ faults \in Nat
  BY CacheFacts DEF RemoveData, At
<1>1. k \in th[t].held /\ k \in Keys
  BY <1>0 DEF Locked, Removing, Local
<1>2. l \in Local
  BY <1>0 DEF Local, PCs
<1>3. /\ l.pc = "rmmeta" /\ l.held = th[t].held /\ l.obj = th[t].obj /\ l.sha = th[t].sha
      /\ l.etag = th[t].etag /\ l.victim = k /\ l.after = th[t].after
      /\ l.todo = th[t].todo /\ l.stamp = th[t].stamp
  BY <1>0 DEF Local
<1>4. th' = [th EXCEPT ![t] = l]
  BY <1>0 DEF RemoveData
<1>5. /\ \A j \in Keys \ {k} : data'[j] = data[j]
      /\ \/ data'[k] = None /\ faults' = faults
         \/ data'[k] = data[k] /\ faults' # 0
      /\ meta' = meta /\ UNCHANGED <<bucket, now>>
  BY <1>0, <1>1 DEF RemoveData, Fault, IInv, TypeOK
<1> HIDE DEF l, k
<1>6. Key(l) = Key(th[t]) /\ Key(l) \in Keys
  BY <1>0, <1>3, KeyOfLocal DEF Key
<1>7. Locked(l) /\ View(l, data', meta')
  BY <1>0, <1>1, <1>3, <1>6 DEF Locked, View, Outside, Inside, Removing, k
<1>8. Late(l, data', now)
  <2>1. SelfEvicted(l, data') => SelfEvicted(th[t], data)
    BY <1>0, <1>3, <1>5, <1>6 DEF SelfEvicted, Removing, k
  <2> QED
    BY <1>0, <1>3, <2>1 DEF Late, Removing
<1>9. (\A j : ~Mid(th[t], j)) /\ Mid(l, k)
  BY <1>0, <1>3 DEF Mid
<1>10. ~AllowRevert => Origin(l, meta')
  BY <1>0, <1>3 DEF Origin
<1>11. ~AllowRevert /\ k \in Objects /\ meta'[k] # None =>
            /\ meta'[k].etag \in past[k]
            /\ data'[k] # None => Honest(k, data'[k], meta'[k].etag)
  BY <1>1, <1>5, HonestFacts
<1>12. /\ faults' = 0 => faults = 0
       /\ faults' = 0 => data'[l.victim] = None
       /\ l.held \subseteq th[t].held
  BY <1>3, <1>5
<1> QED
  BY <1>1, <1>2, <1>4, <1>5, <1>7, <1>8, <1>9, <1>10, <1>11, <1>12, DiskMove

\* The second unlink of _remove_entry, and the release of a borrowed lock.
LEMMA RemoveMetaCache ==
    ASSUME IInv, CacheInv, NEW t \in Threads, RemoveMeta(t) PROVE CacheInv'
<1> DEFINE k == th[t].victim
           h == th[t].held \ Borrowed(t)
           l == [th[t] EXCEPT !.pc = th[t].after, !.held = h]
<1>0. /\ th \in [Threads -> Local] /\ th[t] \in Local /\ Key(th[t]) = OwnKey(t)
      /\ Locked(th[t]) /\ Late(th[t], data, now) /\ th[t].pc = "rmmeta"
      /\ (~AllowRevert => Origin(th[t], meta)) /\ faults \in Nat
  BY CacheFacts DEF RemoveMeta, At
<1>1. k \in th[t].held /\ k \in Keys
  BY <1>0 DEF Locked, Removing, Local
<1>2. l \in Local
  <2>1. th[t].after \in PCs /\ h \in SUBSET Keys
    BY <1>0 DEF Local, Continuations, PCs
  <2> QED
    BY <1>0, <2>1 DEF Local
<1>3. /\ l.pc = th[t].after /\ l.held = h /\ l.obj = th[t].obj /\ l.sha = th[t].sha
      /\ l.etag = th[t].etag /\ l.victim = k /\ l.after = th[t].after
      /\ l.todo = th[t].todo /\ l.stamp = th[t].stamp
  BY <1>0 DEF Local
<1>4. th' = [th EXCEPT ![t] = l]
  BY <1>0 DEF RemoveMeta
<1>5. /\ \A j \in Keys \ {k} : meta'[j] = meta[j]
      /\ \/ meta'[k] = None /\ faults' = faults
         \/ meta'[k] = meta[k] /\ faults' # 0
      /\ data' = data /\ UNCHANGED <<bucket, now>>
  BY <1>0, <1>1 DEF RemoveMeta, Fault, IInv, TypeOK
<1> HIDE DEF l
<1>6. Key(l) = Key(th[t])
  BY <1>3 DEF Key
<1>7. th[t].after \in {"gotnone", "download", "evict", "invalidated", "purge"}
  BY <1>0 DEF Local, Continuations, Locked, Removing
<1>8. Locked(l)
  <2>1. th[t].after = "purge" => h = {}
    BY <1>0 DEF Locked, Removing, Borrowed
  <2>2. th[t].after \in {"download", "evict"} => Key(th[t]) \in h
    BY <1>0 DEF Locked, Removing, Borrowed
  <2> QED
    BY <1>3, <1>6, <1>7, <2>1, <2>2 DEF Locked, Outside, Inside, Removing
<1> HIDE DEF k, h
<1>9. View(l, data', meta')
  BY <1>3, <1>7 DEF View
<1>10. Late(l, data', now)
  <2>1. l.pc = "evict" /\ SelfEvicted(l, data) => SelfEvicted(th[t], data)
    BY <1>0, <1>3, <1>6 DEF SelfEvicted, Removing
  <2> QED
    BY <1>0, <1>3, <1>5, <1>7, <2>1 DEF Late, Removing
<1>11. \A j : Mid(th[t], j) => j = k
  BY <1>0 DEF Mid, k
<1>12. faults' = 0 => Paired(data', meta', k)
  <2>1. faults = 0 => data[k] = None
    BY <1>0 DEF CacheInv, PairInv, k
  <2> QED
    BY <1>5, <2>1 DEF Paired
<1>13. ~AllowRevert => Origin(l, meta')
  BY <1>0, <1>3, <1>7 DEF Origin
<1>14. ~AllowRevert /\ k \in Objects /\ meta'[k] # None =>
            /\ meta'[k].etag \in past[k]
            /\ data'[k] # None => Honest(k, data'[k], meta'[k].etag)
  BY <1>1, <1>5, HonestFacts
<1>15. l.held \subseteq th[t].held
  BY <1>3 DEF h
<1>16. l.pc # "rmmeta"
  BY <1>3, <1>7
<1> QED
  BY <1>1, <1>2, <1>4, <1>5, <1>8, <1>9, <1>10, <1>11, <1>12, <1>13, <1>14, <1>15, <1>16, DiskMove

(***************************************************************************)
(* The environment.                                                        *)
(***************************************************************************)
\* A fingerprint that is gone stays gone where objects do not return to old
\* bytes, and what was current is remembered.
LEMMA BucketCache ==
    ASSUME IInv, CacheInv, NEW o \in Objects, NEW c \in Contents \cup {None}, c # remote[o],
           ~AllowRevert => c \notin past[o] \/ c = None,
           remote' = [remote EXCEPT ![o] = c], past' = [past EXCEPT ![o] = @ \cup {c}],
           UNCHANGED <<disk, now, faults, th>>
    PROVE  CacheInv'
<1>d. data' = data /\ meta' = meta
  BY DEF disk
<1>1. LockInv' /\ PairInv'
  BY <1>d DEF CacheInv, LockInv, PairInv
<1>2. HonestInv'
  <2> SUFFICES ASSUME ~AllowRevert
               PROVE  /\ \A q \in Objects : remote'[q] \in past'[q]
                      /\ \A q \in Objects : meta[q] # None =>
                            /\ meta[q].etag \in past'[q]
                            /\ data[q] # None => Honest(q, data[q], meta[q].etag)'
                      /\ \A t \in Threads : Origin(th[t], meta)'
    BY <1>d DEF HonestInv
  <2>1. /\ \A q \in Objects : remote[q] \in past[q]
        /\ \A q \in Objects : meta[q] # None =>
              /\ meta[q].etag \in past[q]
              /\ data[q] # None => Honest(q, data[q], meta[q].etag)
        /\ \A t \in Threads : Origin(th[t], meta)
    BY DEF CacheInv, HonestInv
  <2>2. \A q \in Objects : remote'[q] \in past'[q] /\ past[q] \subseteq past'[q]
    BY <2>1 DEF IInv, TypeOK
  <2>3. ASSUME NEW q \in Objects, NEW b, NEW e \in Contents, Honest(q, b, e)
        PROVE  b = e \/ (e \in past'[q] /\ e # remote'[q])
    <3>1. e # None
      BY DistinctAssumption
    <3>2. e \in past[q] => e # c \/ q # o
      BY <3>1
    <3> QED
      BY <2>2, <2>3, <3>2 DEF Honest, Gone, IInv, TypeOK
  <2>4. ASSUME NEW q \in Objects, meta[q] # None
        PROVE  /\ meta[q].etag \in past'[q]
               /\ data[q] # None => Honest(q, data[q], meta[q].etag)'
    <3>1. meta[q] \in Meta
      BY <2>4 DEF IInv, TypeOK, Keys
    <3>2. meta[q].etag \in Contents
      BY <3>1 DEF Meta
    <3> QED
      BY <1>d, <2>1, <2>2, <2>3, <2>4, <3>2 DEF Honest, Gone
  <2>5. ASSUME NEW t \in Threads, th[t].sha = NoSha
        PROVE  /\ th[t].etag # None => th[t].etag \in past'[th[t].obj]
               /\ th[t].pc \in {"storedata", "storemeta"} =>
                     /\ Honest(th[t].obj, th[t].got, th[t].etag)'
                     /\ meta[th[t].obj] # None => Honest(th[t].obj, th[t].got, meta[th[t].obj].etag)'
    <3>1. th[t] \in Local /\ th[t].obj \in Objects /\ Fetched(th[t])
      BY DEF IInv, TypeOK, Local
    <3>2. th[t].pc \in {"storedata", "storemeta"} => th[t].etag \in Contents
      BY <3>1 DEF Fetched, Local
    <3>3. meta[th[t].obj] # None => meta[th[t].obj] \in Meta
      BY <3>1 DEF IInv, TypeOK, Keys
    <3>4. meta[th[t].obj] # None => meta[th[t].obj].etag \in Contents
      BY <3>3 DEF Meta
    <3>5. Origin(th[t], meta)
      BY <2>1
    <3> QED
      BY <1>d, <2>2, <2>3, <2>5, <3>1, <3>2, <3>4, <3>5 DEF Origin, Honest, Gone
  <2> QED
    BY <1>d, <2>2, <2>4, <2>5 DEF Origin
<1> QED
  BY <1>1, <1>2 DEF CacheInv

\* Time only makes a call later.
LEMMA TickCache == ASSUME IInv, CacheInv, Tick PROVE CacheInv'
<1>1. ASSUME NEW t \in Threads PROVE Late(th[t], data, now')
  <2>1. Late(th[t], data, now) /\ th[t].stamp \in Nat /\ now \in Nat /\ now' = now + 1
    BY CacheFacts DEF Local, Tick
  <2> QED
    BY <2>1, BoundAssumption DEF Late
<1>2. LockInv'
  BY <1>1 DEF CacheInv, LockInv, Tick, disk
<1>3. PairInv' /\ HonestInv'
  BY DEF CacheInv, PairInv, HonestInv, Origin, Honest, Gone, Tick, disk, bucket
<1> QED
  BY <1>2, <1>3 DEF CacheInv

\* A crash leaves files in any order behind and every lock free.
LEMMA CrashCache ==
    ASSUME IInv, CacheInv, OneProcess, NEW p \in Procs, Crash(p) PROVE CacheInv'
<1>1. \A t \in Threads : ProcOf[t] = p
  BY DEF OneProcess, Procs
<1>2. \A t \in Threads : th'[t] = Blank
  BY <1>1 DEF Crash
<1>3. Blank.pc = "idle" /\ Blank.held = {} /\ Blank.etag = None
  BY DEF Blank
<1>d. data' = data /\ meta' = meta /\ now' = now /\ remote' = remote /\ past' = past
  BY DEF Crash, disk, bucket
<1>4. LockInv'
  <2>1. Locked(Blank) /\ View(Blank, data, meta) /\ Late(Blank, data, now)
    BY <1>3, OutsideSound
  <2> QED
    BY <1>2, <1>3, <1>d, <2>1 DEF LockInv
<1>5. PairInv'
  <2>1. faults' # 0
    BY DEF Crash, Fault, IInv, TypeOK
  <2> QED
    BY <2>1 DEF PairInv
<1>6. HonestInv'
  <2>1. Origin(Blank, meta)
    BY <1>3, OutsideSound
  <2>2. \A t \in Threads : Origin(th'[t], meta)
    BY <1>2, <2>1
  <2> QED
    BY <1>d, <2>2 DEF CacheInv, HonestInv, Origin, Honest, Gone
<1> QED
  BY <1>4, <1>5, <1>6 DEF CacheInv

(***************************************************************************)
(* CacheInv is inductive in one process.                                   *)
(***************************************************************************)
\* Every step of resolve_or_download.
LEMMA ResolveStepCache ==
    ASSUME IInv, CacheInv, OneProcess, NEW t \in Threads, ResolveStep(t) PROVE CacheInv'
<1>1. CASE LookupHit(t) \/ HeadNoneSha(t)
  BY <1>1, ServeCache DEF LookupHit, HeadNoneSha, Hit, At
<1>2. CASE HeadNoneDirty(t) \/ Outdated(t)
  BY <1>2, RemoveOwnCache DEF HeadNoneDirty, Outdated
<1>3. CASE LookupMiss(t) \/ WriteMeta(t) \/ Head(t) \/ HeadNoneMiss(t) \/ Revalidated(t) \/ NotCached(t)
  BY <1>3, LookupMissCache, WriteMetaCache, HeadCache, HeadNoneMissCache, RevalidatedCache,
     NotCachedCache
<1>4. CASE Download(t) \/ DownloadFails(t) \/ StoreData(t) \/ StoreMeta(t)
  BY <1>4, DownloadCache, DownloadFailsCache, StoreDataCache, StoreMetaCache
<1>5. CASE EvictCheck(t) \/ Collect(t) \/ EvictDone(t)
  BY <1>5, EvictCheckCache, CollectCache, EvictDoneCache
<1>6. CASE \E e \in th[t].todo : EvictTake(t, e) \/ EvictSkip(t, e)
  BY <1>6, EvictTakeCache, EvictSkipCache, TodoTyped
<1>7. CASE RemoveData(t) \/ RemoveMeta(t) \/ ReturnPath(t) \/ Load(t)
  BY <1>7, RemoveDataCache, RemoveMetaCache, ReturnPathCache, LoadCache
<1>8. CASE EndCall(t) \/ LoadFails(t) \/ FinishUse(t)
  BY <1>8, StopCache DEF EndCall, LoadFails, FinishUse, At
<1> QED
  BY <1>1, <1>2, <1>3, <1>4, <1>5, <1>6, <1>7, <1>8 DEF ResolveStep

\* Every step of invalidate and purge_expired.
LEMMA MaintenanceCache ==
    ASSUME IInv, CacheInv, OneProcess, NEW t \in Threads, Maintain(t) \/ PurgeStep(t)
    PROVE  CacheInv'
<1>1. ASSUME NEW r \in Requests, StartInvalidate(t, r[1], r[2]) PROVE CacheInv'
  <2>1. r[1] \in Objects /\ r[2] \in Contents \cup {NoSha}
    BY DomainAssumption
  <2> QED
    BY <1>1, <2>1, StartInvalidateCache
<1>2. ASSUME NEW e \in th[t].todo, PurgeRead(t, e) PROVE CacheInv'
  BY <1>2, TodoTyped, PurgeReadCache
<1>3. ASSUME StartPurge(t) \/ PurgeTake(t) \/ PurgeSkip(t) PROVE CacheInv'
  BY <1>3, StartPurgeCache, PurgeTakeCache, PurgeSkipCache
<1>4. ASSUME PurgeDone(t) PROVE CacheInv'
  BY <1>4, StopCache DEF PurgeDone, At
<1> QED
  BY <1>1, <1>2, <1>3, <1>4 DEF Maintain, PurgeStep

\* Uploads, deletions, the clock and crashes.
LEMMA EnvironmentCache ==
    ASSUME IInv, CacheInv, OneProcess, Environment PROVE CacheInv'
<1>1. ASSUME NEW o \in Objects, NEW c \in Contents, RemotePut(o, c) PROVE CacheInv'
  BY <1>1, BucketCache DEF RemotePut
<1>2. ASSUME NEW o \in Objects, RemoteDelete(o) PROVE CacheInv'
  BY <1>2, BucketCache DEF RemoteDelete
<1> QED
  BY <1>1, <1>2, TickCache, CrashCache DEF Environment

\* One case per group of actions.
LEMMA CacheInductive == ASSUME IInv, CacheInv, OneProcess, [Next]_vars PROVE CacheInv'
<1>1. ASSUME NEW t \in Threads, Request(t) PROVE CacheInv'
  <2>1. PICK r \in Requests : StartResolve(t, r[1], r[2])
    BY <1>1 DEF Request
  <2>2. r[1] \in Objects /\ r[2] \in Contents \cup {NoSha}
    BY DomainAssumption
  <2> QED
    BY <2>1, <2>2, StartResolveCache
<1>2. ASSUME NEW t \in Threads, LockStep(t) PROVE CacheInv'
  BY <1>2, AcquireCache, InvalidateCache DEF LockStep
<1>3. ASSUME UNCHANGED vars PROVE CacheInv'
  BY <1>3 DEF CacheInv, LockInv, PairInv, HonestInv, Origin, Honest, Gone, vars, world, bucket, disk
<1> QED
  BY <1>1, <1>2, <1>3, ResolveStepCache, MaintenanceCache, EnvironmentCache DEF Next, WorkerNext

\* An empty cache without running calls.
LEMMA CacheInitially == Init => CacheInv
<1> SUFFICES ASSUME Init PROVE CacheInv
  OBVIOUS
<1>1. \A t \in Threads : th[t] = Blank
  BY DEF Init
<1>2. Blank.pc = "idle" /\ Blank.held = {} /\ Blank.etag = None
  BY DEF Blank
<1>3. Locked(Blank) /\ View(Blank, data, meta) /\ Late(Blank, data, now) /\ Origin(Blank, meta)
  BY <1>2, OutsideSound
<1>4. LockInv
  BY <1>1, <1>2, <1>3 DEF LockInv
<1>5. \A k \in Keys : data[k] = None /\ meta[k] = None
  BY DEF Init
<1>6. PairInv
  BY <1>1, <1>2, <1>5 DEF PairInv, Paired
<1>7. HonestInv
  BY <1>1, <1>3, <1>5 DEF HonestInv, Init, Keys
<1> QED
  BY <1>4, <1>6, <1>7 DEF CacheInv

\* The invariant of the cache of one process.
LEMMA CacheAlways == ASSUME OneProcess PROVE Spec => [](IInv /\ CacheInv)
<1>1. IInv /\ CacheInv /\ [Next]_vars => (IInv /\ CacheInv)'
  BY Inductive, CacheInductive
<1> QED
  BY <1>1, Initially, CacheInitially, PTL DEF Spec

\* In one process, and as long as no I/O operation fails and nothing crashes,
\* an entry that no call of resolve_or_download, invalidate or purge_expired
\* holds has both of its files or neither, and its meta has the size of its
\* data: the scans of the LRU, which read metas, see what is there.
THEOREM EntriesPaired == ASSUME OneProcess PROVE Spec => []EntryPaired
<1>1. IInv /\ CacheInv => EntryPaired
  <2> SUFFICES ASSUME IInv, CacheInv, faults = 0, NEW k \in Keys, Unlocked(k)
               PROVE  Paired(data, meta, k)
    BY DEF EntryPaired, Paired
  <2>1. ASSUME NEW t \in Threads PROVE ~Mid(th[t], k)
    <3>1. Locked(th[t]) /\ k \notin th[t].held
      BY CacheFacts DEF Unlocked
    <3> QED
      BY <3>1, MidIsHeld
  <2> QED
    BY <2>1 DEF CacheInv, PairInv
<1> QED
  BY <1>1, CacheAlways, PTL

\* In one process, whatever fails or crashes, and where an object never
\* returns to bytes it had before, an entry whose ETag is the bucket's current
\* one holds the bucket's current bytes: the ETag match of resolve_or_download
\* (step 3b) validates no outdated test data although HEAD and GET are two
\* calls.
THEOREM EtagsHonest == ASSUME OneProcess, ~AllowRevert PROVE Spec => []EtagHonest
<1>1. IInv /\ CacheInv => EtagHonest
  BY DEF CacheInv, HonestInv, Honest, Gone, EtagHonest
<1> QED
  BY <1>1, CacheAlways, PTL

\* In one process, whatever fails or crashes, a path that resolve_or_download
\* returns names a file that is there, unless the call took longer than the
\* LRU's grace period.
THEOREM PathsExist == ASSUME OneProcess PROVE Spec => []ReturnedPathExists
<1>1. IInv /\ CacheInv => ReturnedPathExists
  <2> SUFFICES ASSUME IInv, CacheInv, NEW t \in Threads, At(t, "gotpath"), data[OwnKey(t)] = None
               PROVE  now - th[t].stamp > LruGracePeriod
    BY DEF ReturnedPathExists
  <2> QED
    BY CacheFacts DEF Late, SelfEvicted, At
<1> QED
  BY <1>1, CacheAlways, PTL

(***************************************************************************)
(* The comparison with the expected output (JudgeFiles).  The worker calls *)
(* neither invalidate nor purge_expired, and with a digest it never finds  *)
(* a file to drop after a miss, so only the LRU takes a digest's file away.*)
(***************************************************************************)
Maintenance == {"invalidate", "invalidated", "purge", "purgetry"}

Working(l) ==
    /\ l.pc \notin Maintenance
    /\ l.pc \in Removing =>
          /\ l.after \in {"gotnone", "download", "evict"}
          /\ l.victim \in Contents => l.after = "evict"

\* the file is there unless the history says that the LRU took it
InUse(t) == Comparing(t) /\ ~evicted[t] => data[th[t].sha] # None

VerdictInv ==
    \A t \in Threads : Working(th[t]) /\ InUse(t) /\ (EvictedInUse(t) => evicted[t])

\* The three things VerdictInv needs to know of a step of the worker: where it
\* leads a thread, how a thread comes to use a file, who removes data.
Effect(t) ==
    /\ Working(th[t]) => Working(th'[t])
    /\ th'[t].pc = "inuse" =>
          /\ th'[t].sha = th[t].sha /\ th'[t].obj = th[t].obj
          /\ th[t].pc = "inuse" \/ (data[OwnKey(t)] # None /\ data' = data)

Removal ==
    \A k \in Keys : data[k] # None /\ data'[k] = None =>
        \E u \in Threads : At(u, "rmdata") /\ th[u].victim = k

\* Steps that lead neither to a removal nor to the use of a file.
LEMMA PlainEffect ==
    ASSUME NEW t \in Threads, th'[t].pc \notin Maintenance \cup Removing \cup {"inuse"}
    PROVE  Effect(t)
  BY DEF Effect, Working

\* A thread that does not move.
LEMMA IdleEffect == ASSUME NEW t \in Threads, th'[t] = th[t] PROVE Effect(t)
  BY DEF Effect

\* The step of one thread.
LEMMA OneMoves ==
    ASSUME IInv, NEW t \in Threads, NEW l, th' = [th EXCEPT ![t] = l], Effect(t)
    PROVE  \A u \in Threads : Effect(u)
<1>1. \A u \in Threads \ {t} : th'[u] = th[u]
  BY DEF IInv, TypeOK
<1> QED
  BY <1>1, IdleEffect

\* A thread that starts to drop its own entry has no digest: with one it
\* would have missed a file that is there.
LEMMA RemoveOwnEffect ==
    ASSUME IInv, CacheInv, NEW t \in Threads, HeadNoneDirty(t) \/ Outdated(t)
    PROVE  (\A u \in Threads : Effect(u)) /\ data' = data
<1>0. /\ th \in [Threads -> Local] /\ th[t] \in Local /\ Key(th[t]) = OwnKey(t)
      /\ View(th[t], data, meta) /\ th[t].pc = "headed" /\ data[OwnKey(t)] # None
  BY CacheFacts DEF HeadNoneDirty, Outdated, At
<1>1. th[t].sha = NoSha
  BY <1>0 DEF View
<1>2. OwnKey(t) \notin Contents
  BY <1>0, <1>1, DistinctAssumption DEF OwnKey, CacheKey, Local
<1>3. PICK cont \in {"gotnone", "download"} : RemoveOwn(t, cont)
  BY DEF HeadNoneDirty, Outdated
<1> DEFINE l == [th[t] EXCEPT !.pc = "rmdata", !.victim = OwnKey(t), !.after = cont]
<1>4. th' = [th EXCEPT ![t] = l] /\ data' = data
  BY <1>0, <1>3 DEF RemoveOwn, world, disk
<1>5. th'[t].pc = "rmdata" /\ th'[t].victim = OwnKey(t) /\ th'[t].after = cont
  BY <1>0, <1>4 DEF Local
<1>6. Effect(t)
  BY <1>2, <1>5 DEF Effect, Working, Maintenance
<1> QED
  BY <1>4, <1>6, OneMoves

\* An eviction.
LEMMA EvictTakeEffect ==
    ASSUME IInv, NEW t \in Threads, NEW e, EvictTake(t, e)
    PROVE  (\A u \in Threads : Effect(u)) /\ data' = data
<1> DEFINE l == [th[t] EXCEPT !.pc = "rmdata", !.held = @ \cup {KeyFromMetaPath(e.key)},
                              !.victim = KeyFromMetaPath(e.key),
                              !.after = "evict", !.todo = @ \ {e}]
<1>0. th \in [Threads -> Local] /\ th[t] \in Local
  BY StepFacts
<1>1. th' = [th EXCEPT ![t] = l] /\ data' = data
  BY <1>0 DEF EvictTake, world, disk
<1>2. th'[t].pc = "rmdata" /\ th'[t].after = "evict"
  BY <1>0, <1>1 DEF Local
<1>3. Effect(t)
  BY <1>2 DEF Effect, Working, Maintenance
<1> QED
  BY <1>1, <1>3, OneMoves

\* The two unlinks.
LEMMA RemoveEffect ==
    ASSUME IInv, NEW t \in Threads, RemoveData(t) \/ RemoveMeta(t)
    PROVE  (\A u \in Threads : Effect(u)) /\ Removal
<1>0. th \in [Threads -> Local] /\ th[t] \in Local /\ data \in [Keys -> Contents \cup {None}]
  BY DEF IInv, TypeOK
<1>1. CASE RemoveData(t)
  <2> DEFINE l == [th[t] EXCEPT !.pc = "rmmeta"]
  <2>1. th' = [th EXCEPT ![t] = l]
    BY <1>0, <1>1 DEF RemoveData
  <2>2. th[t].pc = "rmdata" /\ th'[t].pc = "rmmeta" /\ th'[t].after = th[t].after /\ th'[t].victim = th[t].victim
    BY <1>0, <1>1, <2>1 DEF Local, RemoveData, At
  <2>3. Effect(t)
    BY <2>2 DEF Effect, Working, Maintenance, Removing
  <2>4. Removal
    BY <1>0, <1>1 DEF Removal, RemoveData
  <2> QED
    BY <2>1, <2>3, <2>4, OneMoves
<1>2. CASE RemoveMeta(t)
  <2> DEFINE l == [th[t] EXCEPT !.pc = th[t].after, !.held = @ \ Borrowed(t)]
  <2>1. th' = [th EXCEPT ![t] = l] /\ data' = data
    BY <1>0, <1>2 DEF RemoveMeta
  <2>2. th[t].pc = "rmmeta" /\ th'[t].pc = th[t].after /\ th[t].after \in Continuations
    BY <1>0, <1>2, <2>1 DEF Local, RemoveMeta, At
  <2>3. Effect(t)
    BY <2>2 DEF Effect, Working, Maintenance, Removing, Continuations
  <2> QED
    BY <2>1, <2>3, OneMoves DEF Removal
<1> QED
  BY <1>1, <1>2

\* Stored bytes are not None.
LEMMA StoreDataEffect ==
    ASSUME IInv, NEW t \in Threads, StoreData(t)
    PROVE  (\A u \in Threads : Effect(u)) /\ Removal
<1>0. /\ th \in [Threads -> Local] /\ th[t] \in Local /\ data \in [Keys -> Contents \cup {None}]
      /\ Fetched(th[t]) /\ th[t].pc = "storedata"
  BY DEF IInv, TypeOK, StoreData, At
<1>1. th[t].got # None
  BY <1>0 DEF Fetched
<1>2. Removal
  BY <1>0, <1>1 DEF Removal, StoreData
<1>3. PICK p \in {"storemeta", "raise"} : th' = [th EXCEPT ![t].pc = p]
  BY DEF StoreData
<1> DEFINE l == [th[t] EXCEPT !.pc = p]
<1>4. th' = [th EXCEPT ![t] = l]
  BY <1>0, <1>3
<1>5. th'[t].pc \in {"storemeta", "raise"}
  BY <1>0, <1>4 DEF Local
<1>6. Effect(t)
  BY <1>5, PlainEffect DEF Maintenance, Removing
<1> QED
  BY <1>2, <1>4, <1>6, OneMoves

\* The file that a thread begins to use is there.
LEMMA LoadEffect ==
    ASSUME IInv, NEW t \in Threads, Load(t)
    PROVE  (\A u \in Threads : Effect(u)) /\ data' = data
<1> DEFINE l == [th[t] EXCEPT !.pc = "inuse"]
<1>0. th \in [Threads -> Local] /\ th[t] \in Local
  BY StepFacts
<1>1. th' = [th EXCEPT ![t] = l] /\ data' = data /\ data[OwnKey(t)] # None
  BY <1>0 DEF Load, Usable, world, disk
<1>2. th'[t].pc = "inuse" /\ th'[t].sha = th[t].sha /\ th'[t].obj = th[t].obj
  BY <1>0, <1>1 DEF Local
<1>3. Effect(t)
  BY <1>1, <1>2 DEF Effect, Working, Maintenance, Removing
<1> QED
  BY <1>1, <1>3, OneMoves

\* The remaining steps lead to a control point of the call itself, or end it.
Plain == {"acquire", "lookup", "head", "headed", "writemeta", "gotpath", "gotnone", "raise",
          "download", "storedata", "evictcheck", "collect", "evict", "loading", "idle"}

Moves(t) ==
    /\ data' = data /\ th'[t].pc \in Plain
    /\ \A u \in Threads \ {t} : th'[u] = th[u]

\* Such a step keeps the promise of Effect and removes nothing.
LEMMA MovesEffect ==
    ASSUME NEW t \in Threads, Moves(t) PROVE (\A u \in Threads : Effect(u)) /\ Removal
<1>1. Effect(t)
  BY PlainEffect DEF Moves, Plain, Maintenance, Removing
<1> QED
  BY <1>1, IdleEffect DEF Moves, Removal

\* The steps of the call that only change the thread's own control point.
LEMMA PlainMoves ==
    ASSUME IInv, NEW t \in Threads,
           \/ \E o, sha : StartResolve(t, o, sha)
           \/ Acquire(t) \/ LookupMiss(t) \/ HeadNoneMiss(t) \/ NotCached(t)
           \/ WriteMeta(t) \/ Head(t) \/ Revalidated(t)
           \/ Download(t) \/ DownloadFails(t) \/ StoreMeta(t)
           \/ EvictCheck(t) \/ Collect(t) \/ EvictDone(t)
    PROVE  Moves(t)
<1>0. th \in [Threads -> Local] /\ th[t] \in Local
  BY StepFacts
<1> USE DEF Moves, Plain, Local, world, disk
<1>1. CASE \E o, sha : StartResolve(t, o, sha)
  <2>1. PICK o, sha : StartResolve(t, o, sha)
    BY <1>1
  <2> QED
    BY <1>0, <2>1 DEF StartResolve
<1>2. CASE Acquire(t) \/ LookupMiss(t) \/ HeadNoneMiss(t) \/ NotCached(t)
  BY <1>0, <1>2 DEF Acquire, LookupMiss, HeadNoneMiss, NotCached
<1>3. CASE WriteMeta(t) \/ Head(t)
  BY <1>0, <1>3 DEF WriteMeta, Head
<1>4. CASE Revalidated(t)
  BY <1>0, <1>4 DEF Revalidated
<1>5. CASE Download(t) \/ DownloadFails(t)
  BY <1>0, <1>5 DEF Download, DownloadFails
<1>6. CASE StoreMeta(t)
  BY <1>0, <1>6 DEF StoreMeta
<1>7. CASE EvictCheck(t) \/ Collect(t) \/ EvictDone(t)
  BY <1>0, <1>7 DEF EvictCheck, Collect, EvictDone
<1> QED
  BY <1>1, <1>2, <1>3, <1>4, <1>5, <1>6, <1>7

\* Serving a cached file.
LEMMA ServeMoves == ASSUME IInv, NEW t \in Threads, Serve(t) PROVE Moves(t)
<1>0. th \in [Threads -> Local] /\ th[t] \in Local
  BY StepFacts
<1> DEFINE m == Touched(meta[OwnKey(t)])
           p == IF m = None THEN "gotpath" ELSE "writemeta"
<1>1. p \in {"gotpath", "writemeta"}
  OBVIOUS
<1>2. th' = [th EXCEPT ![t].pc = p, ![t].buf = m, ![t].stamp = now]
  BY DEF Serve
<1> HIDE DEF m, p
<1> QED
  BY <1>0, <1>1, <1>2 DEF Moves, Plain, Local, Serve, world, disk

\* Skipping a busy candidate.
LEMMA EvictSkipMoves == ASSUME IInv, NEW t \in Threads, NEW e, EvictSkip(t, e) PROVE Moves(t)
<1>0. th \in [Threads -> Local] /\ th[t] \in Local /\ th[t].pc = "evict"
  BY StepFacts DEF EvictSkip, At
<1> QED
  BY <1>0 DEF Moves, Plain, Local, EvictSkip, world, disk

\* The end of a call.
LEMMA EndMoves == ASSUME IInv, NEW t \in Threads, Stop(t) \/ ReturnPath(t) PROVE Moves(t)
<1>0. th \in [Threads -> Local] /\ th[t] \in Local
  BY StepFacts
<1>1. CASE Stop(t)
  BY <1>0, <1>1 DEF Moves, Plain, Blank, Stop, world, disk
<1>2. CASE ReturnPath(t)
  BY <1>0, <1>2 DEF Moves, Plain, Blank, ReturnPath, world, disk
<1> QED
  BY <1>1, <1>2

\* Every step of the worker.
LEMMA WorkerEffect ==
    ASSUME IInv, CacheInv, WorkerNext PROVE (\A t \in Threads : Effect(t)) /\ Removal
<1>1. ASSUME NEW t \in Threads, Request(t) \/ LockStep(t) \/ ResolveStep(t), ~Invalidate(t)
      PROVE  (\A u \in Threads : Effect(u)) /\ Removal
  <2>1. CASE Request(t)
    BY <2>1, PlainMoves, MovesEffect DEF Request
  <2>2. CASE \/ Acquire(t) \/ LookupMiss(t) \/ HeadNoneMiss(t) \/ NotCached(t)
             \/ WriteMeta(t) \/ Head(t) \/ Revalidated(t)
             \/ Download(t) \/ DownloadFails(t) \/ StoreMeta(t)
             \/ EvictCheck(t) \/ Collect(t) \/ EvictDone(t)
    BY <2>2, PlainMoves, MovesEffect
  <2>3. CASE LookupHit(t) \/ HeadNoneSha(t)
    BY <2>3, ServeMoves, MovesEffect DEF LookupHit, HeadNoneSha
  <2>4. CASE HeadNoneDirty(t) \/ Outdated(t)
    BY <2>4, RemoveOwnEffect DEF Removal
  <2>5. CASE StoreData(t)
    BY <2>5, StoreDataEffect
  <2>6. CASE \E e \in th[t].todo : EvictTake(t, e) \/ EvictSkip(t, e)
    BY <2>6, EvictTakeEffect, EvictSkipMoves, MovesEffect DEF Removal
  <2>7. CASE RemoveData(t) \/ RemoveMeta(t)
    BY <2>7, RemoveEffect
  <2>8. CASE ReturnPath(t) \/ EndCall(t) \/ LoadFails(t) \/ FinishUse(t)
    BY <2>8, EndMoves, MovesEffect DEF EndCall, LoadFails, FinishUse
  <2>9. CASE Load(t)
    BY <2>9, LoadEffect DEF Removal
  <2> QED
    BY <1>1, <2>1, <2>2, <2>3, <2>4, <2>5, <2>6, <2>7, <2>8, <2>9 DEF LockStep, ResolveStep
<1>2. ASSUME NEW t \in Threads, Invalidate(t) PROVE (\A u \in Threads : Effect(u)) /\ Removal
  <2> DEFINE l == [th[t] EXCEPT !.pc = "rmdata", !.held = {OwnKey(t)}, !.victim = OwnKey(t),
                                !.after = "invalidated"]
  <2>0. th \in [Threads -> Local] /\ th[t] \in Local /\ th[t].pc = "invalidate"
    BY <1>2, StepFacts DEF Invalidate, At
  <2>1. th' = [th EXCEPT ![t] = l] /\ data' = data
    BY <1>2, <2>0 DEF Invalidate, world, disk
  <2>2. th'[t].pc = "rmdata"
    BY <2>0, <2>1 DEF Local
  <2>3. Effect(t)
    BY <2>0, <2>2 DEF Effect, Working, Maintenance
  <2> QED
    BY <2>1, <2>3, OneMoves DEF Removal
<1>3. ASSUME Environment PROVE (\A t \in Threads : Effect(t)) /\ Removal
  <2>1. data' = data
    BY <1>3 DEF Environment, RemotePut, RemoteDelete, Tick, Crash, disk
  <2>2. \A t \in Threads : th'[t] \in {th[t], Blank}
    BY <1>3 DEF Environment, RemotePut, RemoteDelete, Tick, Crash, IInv, TypeOK
  <2>3. Blank.pc = "idle"
    BY DEF Blank
  <2>4. ASSUME NEW t \in Threads PROVE Effect(t)
    BY <2>2, <2>3, IdleEffect, PlainEffect DEF Maintenance, Removing
  <2> QED
    BY <2>1, <2>4 DEF Removal
<1> QED
  BY <1>1, <1>2, <1>3 DEF WorkerNext

\* Track marks a thread as soon as its file is up for eviction, so an unmarked
\* thread's file is not the one being removed.
LEMMA VerdictInductive ==
    ASSUME IInv, CacheInv, VerdictInv, JudgeNext PROVE VerdictInv'
<1>0. (\A t \in Threads : Effect(t)) /\ Removal
  BY WorkerEffect DEF JudgeNext
<1>1. ASSUME NEW t \in Threads PROVE Working(th'[t])
  BY <1>0 DEF Effect, VerdictInv
<1>2. ASSUME NEW t \in Threads PROVE (EvictedInUse(t) => evicted[t])'
  BY DEF JudgeNext, Track
<1>3. ASSUME NEW t \in Threads, th'[t].pc = "inuse", th'[t].sha # NoSha, ~evicted'[t]
      PROVE  data'[th'[t].sha] # None
  <2>1. th[t] \in Local /\ th'[t].sha = th[t].sha
    BY <1>0, <1>3 DEF Effect, IInv, TypeOK
  <2>2. th[t].sha \in Contents /\ th[t].sha \in Keys /\ OwnKey(t) = th[t].sha
    BY <1>3, <2>1 DEF Local, Keys, OwnKey, CacheKey
  <2>3. CASE th[t].pc # "inuse"
    <3>1. data[OwnKey(t)] # None /\ data' = data
      BY <1>0, <1>3, <2>3 DEF Effect
    <3> QED
      BY <2>1, <2>2, <3>1
  <2>4. CASE th[t].pc = "inuse"
    <3>1. ~evicted[t]
      BY <1>3, <2>4 DEF JudgeNext, Track, At
    <3>2. data[th[t].sha] # None
      BY <1>3, <2>1, <2>4, <3>1 DEF VerdictInv, InUse, Comparing, At
    <3>3. ASSUME NEW u \in Threads, At(u, "rmdata"), th[u].victim = th[t].sha PROVE FALSE
      <4>1. th[u].after = "evict"
        BY <2>2, <3>3 DEF VerdictInv, Working, Removing, At
      <4>2. EvictedInUse(t)
        BY <2>2, <2>4, <3>3, <4>1 DEF EvictedInUse, Evicts, At
      <4> QED
        BY <3>1, <4>2 DEF VerdictInv
    <3> QED
      BY <1>0, <2>1, <2>2, <3>2, <3>3 DEF Removal
  <2> QED
    BY <2>3, <2>4
<1>4. ASSUME NEW t \in Threads PROVE InUse(t)'
  BY <1>3 DEF InUse, Comparing, At
<1> QED
  BY <1>1, <1>2, <1>4 DEF VerdictInv

\* In one process, whatever is uploaded, deleted, stored, crashes or fails
\* after the expected output was resolved by its digest, outputs_match accepts
\* exactly those bytes, unless the LRU took the file away meanwhile.
THEOREM VerdictsExact == ASSUME OneProcess PROVE JudgeSpec => []VerdictExact
<1>1. JudgeInit => IInv /\ CacheInv /\ VerdictInv
  <2> SUFFICES ASSUME JudgeInit PROVE VerdictInv
    BY Initially, CacheInitially DEF JudgeInit
  <2>1. \A t \in Threads : th[t].pc = "idle"
    BY DEF JudgeInit, Init, Blank
  <2> QED
    BY <2>1 DEF VerdictInv, Working, InUse, Comparing, EvictedInUse, At, Maintenance, Removing
<1>2. IInv /\ CacheInv /\ VerdictInv /\ [JudgeNext]_judgeVars => (IInv /\ CacheInv /\ VerdictInv)'
  <2> SUFFICES ASSUME IInv, CacheInv, VerdictInv, [JudgeNext]_judgeVars
               PROVE  (IInv /\ CacheInv /\ VerdictInv)'
    OBVIOUS
  <2>1. [Next]_vars
    BY DEF JudgeNext, Next, judgeVars
  <2>2. IInv' /\ CacheInv'
    BY <2>1, Inductive, CacheInductive
  <2>3. CASE UNCHANGED judgeVars
    <3>1. th' = th /\ data' = data /\ evicted' = evicted
      BY <2>3 DEF judgeVars, vars, world, disk
    <3>2. VerdictInv'
      BY <3>1 DEF VerdictInv, Working, InUse, Comparing, EvictedInUse, Evicts, OwnKey, At
    <3> QED
      BY <2>2, <3>2
  <2> QED
    BY <2>2, <2>3, VerdictInductive
<1>3. IInv /\ CacheInv /\ VerdictInv => VerdictExact
  <2> SUFFICES ASSUME IInv, VerdictInv, NEW t \in Threads, NEW actual \in Contents,
                      Comparing(t), ~evicted[t]
               PROVE  Compare(t, actual) = "AC" <=> actual = th[t].sha
    BY DEF VerdictExact
  <2>1. th[t].sha \in Contents /\ OwnKey(t) = th[t].sha
    BY DEF IInv, TypeOK, Local, Comparing, OwnKey, CacheKey
  <2>2. data[th[t].sha] = th[t].sha
    BY <2>1 DEF VerdictInv, InUse, IInv, ContentAddressed
  <2> QED
    BY <2>1, <2>2, DistinctAssumption DEF Compare, OutputsMatch
<1> QED
  BY <1>1, <1>2, <1>3, PTL DEF JudgeSpec
=============================================================================
