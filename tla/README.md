# acoj-worker: a TLA+ verification project

acoj-worker is the judge worker of an online judge. Celery delivers judge tasks
to a pool of threads (`--pool threads --concurrency 8`); each task loads its
test data, runs the submission in an external sandbox (`acoj_sandbox`), compares
outputs, scores, and returns a result. The same code base carries a generic
platform for API processes (HTTP shell, sessions, configuration, audit, rate
limiting, permission registry).

The project models the part that decides verdicts (test-data cache, the three
judge modes, scoring), the way a task travels between broker and worker, and the
stateful parts of the platform.

## 1. Inventory

| Component | State | Operations | Interacts with | What is hard | What makes it correct |
|---|---|---|---|---|---|
| File cache (`judge/file_cache.py`) | data and meta files, per-process key locks | `resolve_or_download`, `invalidate`, `purge_expired`, LRU | bucket (HEAD, GET), all judge threads, other processes on the directory | many threads, two files per entry, crashes between them, HEAD and GET apart, locks taken while holding locks | bytes match their digest; entries complete; ETag match means current bytes; no deadlock |
| Data loader (`judge/data_loader.py`) | cached storage client | `resolve_input_ref`, `resolve_output_ref` | cache, modes | the path is used long after it was resolved | missing data fails the task |
| Checker (`judge/checker.py`) | none | `outputs_match` | files of the cache | a file that has gone meanwhile | AC only for the expected output |
| Scoring (`judge/scoring.py`, `result_mapper.py`) | none | batches, dependencies, totals | STANDARD mode | in-place marking in four phases | agrees with the rules in its header |
| STANDARD mode, orchestrator | sandbox client, results | one task | loader, sandbox, scoring | early stop, compile errors, exceptions | every case reported once; AC exactly if all pass; client closed |
| INTERACTIVE mode | FIFOs, clients, programs, futures, work directory | one task, case by case | sandbox, two programs | two programs, two time-outs, release order | AC only for a real acceptance; ends; leaks nothing |
| SPECIAL_JUDGE mode | two clients, two programs | one task | sandbox | exception paths, order of closing | result follows the runs; ends; leaks nothing after set-up |
| Task delivery (`judge/tasks.py`, `platform/tasks`) | broker queue, unacknowledged tasks, results | deliver, acknowledge, retry | API, modes | redelivery, retries, worker loss | every task is settled; repeated runs are accounted for |
| Session store (`core/security/session.py`, `deps/auth.py`) | Redis: sessions, two token indexes | set, get, touch, refresh, delete, prune | request handlers | read-modify-write across awaits | a deleted session stays deleted; the index finds every session; limit and permissions hold |
| Rate limiter (`middleware/rate_limit.py`) | a sorted set per key | stamp, count, refuse | other middlewares, Redis | stamps counted out of order; context set by others | a window admits at most the limit, per client |
| Captcha and password key (`core/security/transport.py`) | two Redis keys | create, get, delete | login handlers | get and delete are two commands | a secret is used once |
| Module discovery (`platform/module`) | manifests, order | collect, sort, run hooks | lifespan | cycles, disabled and missing modules | hooks follow dependencies |
| Audit queue (`platform/audit/queue.py`) | queue, writer task | start, stop, enqueue | middleware, lifespan | stop against writer and requests | accepted events are written |
| Configuration sync (`platform/config`) | version counter, subscription | publish, listen, reload | Redis pub/sub, lifespan | messages lost while reconnecting | each peer's event is answered once, own ones never |
| Permission registry (`core/security/permission_registry.py`) | two Redis keys | scan, write, test | other releases, lifespan | two writes, several processes | a serving process finds what it scanned; the two keys are of one scan |
| API process (`lifespan.py`, `factory.py`) | clients, tasks, hooks | start-up, shutdown | all of the above | order, exceptions half-way | nothing is closed while in use |
| Async runner, process group, pool metrics | event loop, processes, counters | – | – | – | not modelled, see section 8 |
| Encryption, logging, observability, settings, exception handlers | – | – | – | – | not modelled: pure I/O, formatting or cryptography |

The hazards of each part, at the line where they bite, are in `PROJECT.json`.

## 2. Plan

Done: `FileCache` -> `JudgeFiles` (cache composed with the comparison);
`Scoring` -> `StandardMode`; `InteractiveMode`; `SpjMode`; the abstract
`JudgeTask` that the three modes implement; `TaskDelivery`; `SessionStore`;
`RateLimit` and `OneTimeSecrets`, composed in `LoginPath`; `ModuleOrder`,
`AuditQueue`, `ConfigSync` and `PermissionRegistry`, composed in `Lifespan`;
proofs in `FileCacheProofs`, `StandardModeProofs`, `InteractiveModeProofs`,
`SpjModeProofs`, `TaskDeliveryProofs`, `SessionStoreProofs`, `LoginPathProofs`,
`LifespanProofs`. Every safety invariant a run checks is stated by a theorem.

Next: that `need` of the eviction stays a number (the type of a sum of sizes, which
`CacheTyped` leaves out); that every visit of the module sort ends (a measure on
the names not yet visited).

## 3. Modules

**FileCache** – `remote` is the bucket, `data` and `meta` the two files of a key,
`th[t]` the control point and locals of a thread, `need[t]` what its eviction
still wants to free. One action per file-system or storage operation another
thread can observe: `Acquire`, `LookupHit`/`LookupMiss` (steps 1 and 2 of
`_resolve_or_download_locked`), `Head`, `HeadNone*` (3a), `Revalidated`/`Outdated`
(3b), `Download` (3c), `StoreData`/`StoreMeta`/`EvictCheck`/`Collect`/`Evict*`
(`_store` and its trailing LRU), `RemoveData`/`RemoveMeta` (`_remove_entry`),
`Invalidate`, `Purge*`, then `Load`/`FinishUse` for the loader. The environment
uploads, deletes, ticks and crashes; swallowed and raised I/O errors are
alternatives of the actions that can meet them. `WorkerNext` leaves out
`invalidate` and `purge_expired`, which the worker never calls; `Next` has them.

Abstractions: contents are atoms and sha256 is injective on them, so a digest,
the key made from it and an ETag are written as the content itself; a directory
scan is one step; a test for existence and the read after it are one step;
an object name with a slash (`Nested`), of which the eviction sees only the last part,
is in no run and is covered by the theorems alone; temporary files (unique names, renamed atomically) are not modelled; the
local-storage and cache-disabled paths are left out. Clock and faults are bounded
by `MaxTime` and `MaxFaults`.

**JudgeFiles** – FileCache plus its consumer: while a thread uses a file, `Compare`
is what comparing an arbitrary output with it gives, as `outputs_match` does, a
missing file included; `evicted` remembers that the LRU took a file in use.
Contents differ by more than surrounding white space.

**Scoring** – `result_mapper.py` and `scoring.py` as operators. The points of a
case are integers. `Grouped` is the order in which `aggregate_batches` lists the
cases: each case's place is the number of cases up to it when batches are ordered
by their first case.

**JudgeTask** – the abstract specification: what `orchestrator.judge` promises its
caller whichever mode judges. Phases set-up, judging, answered; `held` says
whether anything of the sandbox is held. One answer, graded or failed, nothing
held afterwards unless set-up failed half-way, and an answer in the end.

**StandardMode** – one task: `BuildCases`/`BuildFails`, `RunCases` (what the
sandbox returns: a compile error, or an outcome per case, cut at any failed case
if it was told to stop), `CompareCase` (one round of the loop), `Finish`
(padding, scoring, result, `finally`), `RunFails` (any exception after the client
exists). Case numbers are the positions in the list, batch numbers any integers;
`HasBatch` treats number 0 as `has_batch` does.

**InteractiveMode** – one task, case by case: `SetUp`/`SetUpFails` (before the
`try`), `CompileUser`/`CompileInteractor`, `Launch`, `FirstWait` (with the release of
the FIFOs), `SecondWait` (with cancellation), `Judge`, then the `finally` block, one
guarded close per step (`Close`), `EndCase` and `Finish`. `open` is what the task
holds, `bound` what the guards of the `finally` block can see: a descriptor that is
not -1, a client or program that is not `None`. `Exit(p)` is external: a pool thread
ends at any time with any status, with `None`, or never; the interactor's can also
end with an exception, because its limits are computed outside its `try`, and
`WaitRaises` is `future.result()` handing it over. `LaunchRaises`, `JudgeRaises` and
the exception of `PrepareSource` are the other ways out of the `try` block; all of
them go through the closes (`pc = "abort"`) and fail the task. Both waits may return
at any time, which is what a time-out is to an untimed model.

**SpjMode** – one task: both clients are created before the `try` (`CreateClient`,
`CreateCheckerClient` or `CheckerClientFails`), both sources are compiled, each
case runs the user program and then the checker (`RunUser`, `Check`,
`CaseRaises`), and the `finally` block closes one resource per step (`Close`)
before `Answer`. `runs` is a history of how each case really went.

**TaskDelivery** – `queue` is the broker's judge queue, `job[s]` what a slot of the
threads pool is doing, `orphans` the unacknowledged messages of dead slots.
`Deliver`, `Judged`, `Return`, `Retry`, `GiveUp`, `Ack` are a task's life under
`BaseTask`; `VisibilityTimeout`, `Crash`, `Restart` and `Restore` are what the
options acknowledge-late, reject-on-worker-lost and visibility time-out are there
for. Celery and Redis are external: they appear by the options the code sets. A
judge run is one step that ends, which is what `JudgeTask` promises; it raises only
if validating the answer does.

**SessionStore** – the sessions of one account: `store` the session keys, `account`
and `all` the two indexes. Every Redis command or MULTI is a step; `call[p]` is
what a handler in flight has read and has still to do. Logins, log-outs and
permission changes are made by modules outside this repository and may come at
any time. Times are abstracted: a key may expire and a session may fall idle at
any moment. Tokens are numbered in the order of `login_at`.

**RateLimit**, **OneTimeSecrets**, **LoginPath** – a request takes its stamp and
later its pipeline is executed (`TakeStamp`, `Execute`, `LetThrough`); `Stack` is
the order in which `create_app` nests the middlewares, and `ClientIp` what the
context variable holds at the limiter's place in it. Admitted logins go on to the
captcha and the password key, each read and deleted in two steps. That a login
uses the captcha first is an assumption about modules outside the repository.

**ModuleOrder**, **AuditQueue**, **ConfigSync**, **PermissionRegistry**,
**Lifespan** – `Lifespan` has one action per step of `lifespan.py`, in its order,
each with its exception. The writer of the audit queue and the configuration
listener are tasks that take steps between those of the lifespan; requests
enqueue events until the process is gone; another process publishes configuration
events and another release writes the permission registry at any time. A reload of
the configuration raises a version counter and does nothing else this process can
notice (section 7), so `ConfigSync` is about the events: which of them the listener
has answered (`answered`), which went away with a subscription (`lost`), which wait.
A listener that failed closes its subscription only after its five seconds of sleep,
so messages may still arrive during them. `log` of `PermissionRegistry` is the order
of the four writes.
`ModuleOrder` has the loops of `_topological_sort`: `VisitSpec` and
`VisitDependency` are rounds of the outer loop and of the loop in `visit`,
`EndVisit` is its end and `CircleFound` its exception; `stack` holds the calls in
progress, and their names are `path`. Nothing of the process runs beside the sort.
`TasksStarted` records an event-loop fact: the tasks created earlier have taken
their first step before the first await that suspends returns.

`MC*` modules and the `.cfg` files give the constants small values. Operators
named `Mutant...` are faulty variants of the definition they precede;
`PROJECT.json` says which property notices which.

## 4. Runs

| Run | Checks | Shows |
|---|---|---|
| `cache_processes` | `TypeOK` `ContentAddressed` | two processes with one thread each on one directory: the locks exclude nothing; requests for two digests of one object, of which only one fits, one fault |
| `cache_live` | `CallsEnd` | two threads, fair, one entry by digest and one by name of which only one fits: each call can be evicting the key the other one holds; with invalidate and purge |
| `judge_files` | `EntryPaired` `EtagHonest` `ReturnedPathExists` `VerdictExact` | two threads of one process, a digest-addressed and a name-addressed request for one object, two contents of which only one fits, three instants, one fault, compared at any time after resolving |
| `judge_files_full` | violates `NoFalseAccept` | expected output evicted during the run, comparison counts as a match |
| `standard_mode` | `ScoreMatchesReference` `ReportedPointsAddUp` `AcceptedExactly` `EveryCaseReportedOnce` `FirstErrorDecides` `ImplementsJudgeTask` | all payloads of up to 3 cases, batches numbered 0 and 1, any dependencies, partial or not; all outcomes |
| `interactive_mode` | `TypeOK` `AcceptedCaseIsReal` `AcceptedExactly` `CutOffIsNeverGraded` `ClosesAreSafe` `NothingLeaks` `ImplementsJudgeTask` | two cases, with and without a user program, all ends of both programs, all returns of both waits, an exception at every step |
| `spj_mode` | `TypeOK` `VerdictFollowsRuns` `ClosedInsideOut` `ImplementsJudgeTask` | up to three cases, all outcomes of compilations, runs and checker, an exception anywhere |
| `task_delivery` | `NothingLost` `AnswersPaidFor` `SilentOnlyAfterRetries` `EverySubmissionSettles` | two submissions, two slots, one retry, one visibility time-out, one crash |
| `session_store` | `RevokedStaysDead` `Findable` `SessionLimit` `PermissionsCurrent` | two handlers interleaved at every Redis command, two logins with room for one, one permission change |
| `login_path` | `SlidingWindow` `OneUse` | three logins of two clients against a limit of 1, stamps up to one instant old when counted |
| `limit_per_client` | violates `LimitedPerClient` | a client's first request is refused because of another client |
| `api_lifespan` | `HooksInOrder` `OrderlyShutdown` `NoAcceptedEventLost` `EventsAnsweredOnce` `RegistryServed` | every dependency graph on three modules, self-dependencies included, and on two of which one is disabled; queue of one, two events, two configuration events of this process or a peer, a peer of another release |

Why the bounds suffice. The cache decides on one key at a time; what it does to
other keys (eviction) needs two keys that do not fit together, and a race needs
two threads. Two contents tell the right bytes from others; three instants tell
fresh, in the grace period and older apart (`judge_files`); one fault reaches every single
failure. Three STANDARD cases are the least with a batch of two and a second batch
that depends on it; points 1, 2, 4 give every set of cases its own score. Two
interactive cases show what one case leaves to the next; the same holds of the
third case of SPECIAL_JUDGE. Two slots let a redelivered task overlap its first
run; one retry, one time-out and one crash already combine in every order. In the
session store each window is between two handlers, and two tokens with room for
one make every login prune. A window of three instants and a delay of one make
late stamps trim a window that is still in use. Permutations of interchangeable
model values are a symmetry where no liveness is checked. Deadlock is not checked:
an idle worker, a finished task, a stopped process and an exhausted bound are
legitimate ends.

Conditions in the properties.

- `EntryPaired` is about runs without I/O errors and crashes: with one, a data
  file can stay behind without its meta. `ReturnedPathExists` allows the caller's
  own eviction to remove its new file if storing took longer than the grace
  period. `EtagHonest` assumes that an object never returns to bytes it had before
  (`AllowRevert = FALSE`): with `AllowRevert = TRUE` TLC finds HEAD of the old
  bytes, an upload, GET of the new ones, and the old bytes uploaded again.
- `VerdictExact` leaves out files the LRU took while they were in use, which is what
  `judge_files_full` shows, and needs one process: in two, one can drop a file the
  other has just stored, because its meta is not there yet.
- `AcceptedExactly` and `FirstErrorDecides` of STANDARD are about problems worth the
  sum of their positive case points (`WorthItsCases`), the first also about acyclic
  dependencies: with zero points every result is AC.
- `ScoreMatchesReference` compares with the rules of `scoring.py`'s header: equal batch
  numbers are a batch, number 0 too. Payloads whose only batch is number 0 are left
  out, because `StandardMode` does not follow the rules there (section 7). The
  reference follows direct dependencies only, as the unit tests record.
- `NothingLeaks` and `ClosesAreSafe` of INTERACTIVE are about tasks that got past the
  set-up of their last case: an exception between `mkdtemp` and `try` leaves the
  directory, descriptors or a client behind (`pc = "raised"`). `JudgeTask` has the
  same exception in `Fail`. Closing a client or program is assumed not to raise.
- `CutOffIsNeverGraded` does not say that a program that is cut off ends. After a
  time-out of both, each still holds its ends of the two FIFOs, so that neither reads
  end of file; the sandbox's own limits have to end them.
- `AnswersPaidFor` counts answers against redeliveries: a task can be judged, and
  its callback called, more than once, and a caller must expect that.
- The session properties exclude sessions in `raced`, which are exactly the three
  windows the code leaves open: a touch or refresh that writes what it read before
  the latest change; an account-wide delete that drops the index entry of a login
  it did not see; a refresh that looks before a login has reached the index.
- `SlidingWindow` is about windows of `Window - MaxDelay` and counts distinct time
  stamps: requests with equal stamps are one member of the sorted set.
- `OneUse` allows requests that asked before the secret was deleted, because
  reading and deleting are two commands.
- `EventsAnsweredOnce` accounts for the events that reached the subscription. One that
  is published while the listener has none never does, and nothing polls. A reload
  that raises has answered its event: the version went up before.
- `OrderlyShutdown` is about undisturbed shutdowns: an exception during start-up
  runs no clean-up, and one in a shutdown hook skips what follows.
- `RegistryServed` speaks of the keys the scan found, one per route (section 7), and of
  the two Redis keys once the peer has made both of its writes. It does not exclude
  overlapping writes: it says which orders leave the list of one release beside the
  map of the other, namely those in which one pair of writes lies within the other
  (`Nested`), and that all others leave the last writer's registry.

## 5. Fairness and refinement

`cache_live`: weak fairness of each thread's own steps (the scheduler runs it, and
storage calls end) and strong fairness of the two blocking acquires (an RLock
released again and again is granted in the end). Requests, uploads, time and
faults are not assumed to happen. `standard_mode` and `spj_mode`: weak fairness of
the task; sandbox calls have their own time-outs. `interactive_mode`: weak fairness
of the main thread only, whose waits have time-outs; the programs may run for ever.
`task_delivery`: weak fairness of each slot's work (a judge run ends, which the
modes show), of the restart of a dead process (its supervisor) and of the broker's
time-out for messages of dead slots; submissions and faults are not assumed.
The other runs check safety only and state no fairness.

`StandardMode`, `InteractiveMode` and `SpjMode` each instantiate `JudgeTask` with a
mapping of control point, resources and result, and check `ImplementsJudgeTask`:
its initial states, its steps, and that the task is answered. The safety part, the
initial states and the steps, is proved for all three.

## 6. Proofs

`FileCacheProofs` proves, for any sets of threads, processes, objects and
contents, any limits and any number of faults, from the named assumptions of
FileCache (types of the constants; contents, object names and base names are
disjoint; `None` is none of them):

- `CacheTyped`: `Spec => []TypeOK`. It includes that a meta record always has
  an ETag. Of `need` only the domain is claimed, not that the sum of sizes is a
  number.
- `CacheContentAddressed`: `Spec => []ContentAddressed`, for threads of any number
  of processes: the digest of a file stored under a digest key is that key. This
  is why a hit by digest may skip every remote check, also without any locking.

Neither is inductive. `ContentAddressed` alone would allow a thread to be about to
store bytes under a digest they do not have, and `TypeOK` alone a meta without
ETag. `IInv` adds `Fetched`: at the download and after it the thread has an ETag,
and between download and store its bytes have passed the digest check. Two lemmas
reduce a step to its effect (`ThreadStep`: the new locals of one thread are sound
and the disk stays content-addressed; `QuietStep`: the disk does not change), then
there is one lemma per action, `Inductive` collects them, and the temporal step is
propositional.

For the threads of one process (`OneProcess`, the hypothesis of these theorems), any
number of them, any limits and any faults, it proves what the runs check:

- `EntriesPaired`: `EntryPaired`, whose own condition is that there was no I/O error
  or crash yet;
- `EtagsHonest`: `EtagHonest`, also from `~AllowRevert`;
- `PathsExist`: `ReturnedPathExists`;
- `VerdictsExact`: `VerdictExact` of `JudgeFiles`.

The argument is that a thread changes the files of a key only while it holds the
key's lock, so what it knows about a key it holds stays true until it lets go.
`LockInv` says which locks each control point holds, that no two threads hold the
same one, and what a thread knows of the files of its key; `PairInv` that only a
thread between its two file operations leaves an entry unpaired; `HonestInv` that
bytes are stored with their own ETag or with one the object will not have again;
`VerdictInv` that a file in use is there unless the history variable says that the
LRU took it.

`StandardModeProofs` proves, for any payloads (any number of cases, batches and
dependencies, any integer points) and any outcomes of the sandbox, from
`StandardAssumption` (the types of payloads and outcomes; `None` is neither a number
nor a verdict):

- `ScoreIsReference`: `ScoreMatchesReference`, for every payload but those whose only
  batch has the number 0;
- `ReportAddsUp`: `ReportedPointsAddUp`;
- `CasesReportedOnce`: `EveryCaseReportedOnce`;
- `StandardAcceptedExactly`: `AcceptedExactly`;
- `FirstErrorCounts`: `FirstErrorDecides`;
- `StandardImplementsTask`: every step is a step of `JudgeTask` or a stutter.

The properties speak of the answer only, so `Inv` says what leads to it: `SandboxInv`
(the list may end early only at a failed case, and only if it may stop), `RawInv`
(the loop's list is a function of the sandbox's), and that a completed answer is
the grade of finished runs. The rest is about the operators. The sums are folds over
finite sets; that the fold exists, does not depend on the order of the elements and
behaves under renaming and removal is an induction over finite sets, which the
library's theorems cannot be used for. `NatFamily` and `SubsetFamily` state it with
a family of sets in place of a predicate and prove it by a least counterexample.
`GroupedPermutes` shows that the batch order is a permutation, `Aggregated` what the
four phases amount to, and `BatchedBlame` that a failure always shows in the list,
as otherwise the skipped batches would depend on each other in a circle.

`InteractiveModeProofs` proves, for any number of test cases (the only assumption
is that it is a natural number):

- `InteractiveTyped`: `Spec => []TypeOK`, with at most one report per case;
- `AcceptedIsReal`: an AC case had two regular ends and an interactor's 0;
- `ResourcesReturned`: `NothingLeaks`, and `ClosedOnceInOrder`: `ClosesAreSafe`;
- `CutOffReported`: `CutOffIsNeverGraded`;
- `InteractiveAcceptedExactly`: `AcceptedExactly`;
- `InteractiveImplementsTask`: every step is a step of `JudgeTask` or a stutter.

The properties say nothing about the time between the launch and the verdict, so
they are not inductive. `Bookkeeping` adds it: what the holder has for a program is
that program's result in this case (so it is not `Running` and cannot change any
more), programs exist only from the launch to the `finally`, and a case inside the
`try` is not reported yet. `Holdings` says that from the set-up on the names the
guards of the `finally` block test (`bound`) are those of the resources that are
open, so that a guarded close neither misses one nor meets one that is closed, and
`MissingIsSe` that a program which still runs at the `finally` has no result and its
case is SE. `VerdictSound` then reads the verdict off the holder.
For the last two theorems `TInv` adds `TallyInv` (the flag and the sum agree with
the list of cases) and `AnswerInv` (what is held while the task judges, and that a
completed answer is the tally's after the last case). The first failed case, whose
status names the result, is a minimum of a set of numbers; that it exists comes
from the well-foundedness of the naturals.

`SpjModeProofs` proves, for any number of test cases: `SpjTyped`,
`SpjClosedInsideOut`, `SpjVerdictFollowsRuns`, and `SpjImplementsTask` (the safety
part of the refinement). `VerdictFollowsRuns` speaks only of the end, so `Inv` ties
the tally to the history of runs at every step (`TallyInv`: the score is the
cardinality of the set of good cases, which grows by at most the new position),
the open resources to the control point (`OpenInv`), and the verdict that the
`finally` block carries to the tally (`ResultInv`).

`TaskDeliveryProofs` proves, for any tasks, any finite set of slots and any bounds
on retries, time-outs and crashes, the three invariants of the delivery:

- `RetriesBeforeSilence`: `SilentOnlyAfterRetries`. `RetryInv` adds that a message or
  job that has been tried `r` times has raised at least `r` times, and that nothing
  is ever raised for a payload that fails the validation.
- `NoSubmissionLost`: `NothingLost`. `HeldInv` says where a submission without a
  result is: in the queue, among the orphans, or with a slot that has not settled
  it and whose message the broker has not given to somebody else. The last part is
  what makes it inductive: a slot whose message was redelivered may be lost.
- `CallbacksPaidFor`: `AnswersPaidFor`, which adds up messages, jobs and calls. The
  proof rests on lemmas about the cardinality of the positions of a sequence that
  hold a task's message when an element is appended or removed.

`SessionStoreProofs` proves, for any number of handlers in flight, logins, permission
changes and any limit above 0, `RevocationHolds`, `SessionsFindable`,
`PermissionsReachSessions` and `LimitHolds`. None is inductive, since each speaks of
Redis and the handlers in flight carry what they read earlier:

- `SeenInv`: a token nobody has written yet is in no set and in no handler;
- `EnterInv`: two logins in flight never have the same token, and a token is not
  usable before its login has put it into the index;
- `FreshInv`: what a touch or a refresh is about to write back is what Redis has,
  unless that token is in the handler's `stale` set;
- `DeadInv`: an account-wide log-out in flight has missed no session but a raced
  one, and an index entry is removed only of a revoked session; `IndexInv`: a live
  session is in the index or its login is about to put it there (these five and
  the types are `Guarded`);
- `PermInv`: while a session's permissions are outdated a refresh is due, or one in
  flight has that session before it;
- `LimitInv`: the sessions that are kept are within the limit, or a login in flight
  has every settled session in view and will prune. `ExcessLeaves` is the counting
  lemma: what `Excess` leaves of a finite set is at most the limit.

`LoginPathProofs` proves, for any requests, clients, rules, window, delay and clock:

- `SecretsUsedOnce`: `OneUse`. `SecretsInv` adds that a deleted secret is not found
  any more, that who is about to use a secret found it in time, and that a handler
  goes through the secrets once and in order.
- `WindowRespected`: `SlidingWindow`. `LimiterInv` adds that no stamp is in the
  future or older than the delay allows, and `Remembered`: an admitted stamp that
  is still inside a window is in the sorted set, which is what the limit is tested
  against. `MaxDelay` is assumed to be at most `Window`; beyond it the property is
  empty, as its window of `Window - MaxDelay` has no length.

`LifespanProofs` proves, for any modules and routes, any queue size and any number of
configuration events: `ShutdownIsOrderly`, `AuditComplete`, `EventsAreAnsweredOnce`,
`RegistryIsServed` and `HooksFollowDependencies`. `LifeInv` says for each point of the lifespan which clients and
tasks exist (`ListenerInv`, `WriterInv`, `ClientsInv`); `AuditInv` splits the
accepted events into those recorded and those still queued; `EventsInv` says that the
subscription keeps the order of the events, that each is waiting, answered or lost,
that only a listener that failed or was stopped has lost any, and that the version counts the
first load and the answers; `RegistryInv` says for every order of the writes of a
process and its peer what the two keys hold after it.

`HooksFollowDependencies` (`HooksInOrder`) assumes only that manifests are lists of
flags and names (`ManifestAssumption`). `SortInv` is the invariant of the depth-first
sort: the calls in progress are of different modules not yet visited (`CallsInv`),
each waits for the next, on which its module depends (`ChainInv`), what a call has
gone through is visited (`GoneInv`), a module enters the result after all it needs
(`InOrder`), and the modules the outer loop has passed are visited or at the bottom
of the stack (`SpecsInv`). Three consequences: a module found again below itself
closes a real circle, namely the calls from there on (`CircleIsReal`); a finished
sort has every loaded module (`SortedAtEnd`), so the remaining specs the code appends
never exist; and a sorted list admits no circle, whose first member would need one
before it (`SortedAcyclic`). `HooksInv` then follows the hooks along the order and
back.

Only model-checked: all liveness, the last conjunct of the refinements included, and
ENABLED, which are outside the prover's reach. That the sums of sizes in the eviction
are numbers, and that the module sort ends, is not stated as a property.

## 7. Disagreements between code and documents

Two runs show one each; they are quoted with their lines under `findings` in
`PROJECT.json`:

- `judge_files_full`: an expected output that was evicted during the run counts as
  a match (`checker.py:70`).
- `limit_per_client`: the limiter runs outside the middleware that sets the client
  address, so all clients share one key (`factory.py:49`).

Seen while modelling, without a run of their own. In the judge:

- Object names with a slash: the eviction counts bytes that it does not free
  (`file_cache.py:37` against `:355`). A HEAD that fails is treated as a 404
  (`:7` against `:288`). A hit inside the touch cooldown leaves the access time
  old, so a file in use can be evicted.
- Batch number 0 is no batch to `standard.py:52` and a batch to `scoring.py:4` and to
  `docs/judge-protocol.md`. A payload whose only batch is 0 is scored case by case;
  beside another batch it is scored as a batch. `ScoreMatchesReference` states the
  rule and leaves out the first kind of payload.
  Dependencies between batches are not transitive, which a unit test acknowledges.
  When batches depend on each other in a circle and all are skipped, the result is
  AC with score 0.
- An interactor that ends with 1 while the user program still runs gives SE
  (`interactive.py:11` against `:306`).
- An exception between the creation of the directory and the `try`
  (`interactive.py:93` to `:130`) leaves the directory, the descriptors or a client
  behind. The interactor's limits are computed outside its thread's `try` (`:205`):
  an exception there fails the task while the user program still runs.
- SPECIAL_JUDGE reports a user program that does not compile as FAILED, not CE, and
  a run that crashed or timed out as WA.
- A task whose retries are used up is stored as FAILURE without a call of its link
  callback. `settings.py:104` wants the visibility time-out to exceed the task's
  time limit, but the threads pool enforces no limit.

In the platform:

- The idle time-out's `delete` and `srem` are never awaited, so an idle session
  stays in Redis. A touch that read the session before it fell idle makes it active
  again. A refresh uses the long TTL whatever `remember_me` says.
- Audit events carry no account, for the same reason as the rate limiter's keys.
- The specs `_topological_sort` calls remaining (`discovery.py:141`) never exist.
  `on_storage_configured` and `on_permissions_synced` are listed and never emitted;
  asynchronous handlers given to `emit_sync` are not awaited.
- A reload refreshes nothing. `reader.py:9` and `:18` speak of a snapshot and `apply.py:1`
  of overrides, but `load_all` only adds 1 to `_version` and nothing ever fills
  `_cache`, so that `apply_sys_config` finds no value. `reload_and_publish` has no caller.
- A route that asks for several permissions has only the first in sorted order
  registered (`permission_registry.py:97`). Two releases that start together can
  leave the list of one beside the map of the other.
- `init_redis` leaves its client set when the ping fails.
- `process_group._env("ACOJ_CELERY_NODENAME")` lacks a required argument: `run_all`
  raises before it starts any process.

## 8. Not modelled

- The sandbox, the programs, Celery, Redis and the bucket are external and appear by
  what they may answer.
- The worker's async runner: only the init and shutdown signals of a process call
  it, and the default threads pool does not send them. If several threads did,
  `_ensure_loop` could create two loops. The process group, because of the error
  above.
- Pool metrics: whether the sandbox calls `on_event` concurrently, on which its
  shared `last` depends, cannot be seen from this repository.
- The listener threads of `sync.py` (no callers), and the cached storage client
  after a reload (no process both listens and uses it).
- Encryption, password rules, masking, logging, metrics, tracing, e-mail, settings
  and exception handlers: pure functions, declarations or I/O without a protocol to
  check. Routing: which handler serves a path.
