------------------------------ MODULE Lifespan ------------------------------
(***************************************************************************)
(* The life of one API process, app/lifespan.py: it composes module        *)
(* discovery, the audit queue, the configuration listener and the          *)
(* permission registry with the Redis and HTTP clients and the modules'    *)
(* hooks.  The writer and the listener are tasks of their own that run     *)
(* between the steps of the lifespan; requests and other processes act at  *)
(* any time.  An exception during start-up runs no clean-up, one in a      *)
(* shutdown hook skips the clean-up that would follow.                     *)
(***************************************************************************)
EXTENDS ModuleOrder, AuditQueue, ConfigSync, PermissionRegistry

CONSTANTS ManifestSets,   \* possible sequences of module manifests
          RouteTables,    \* possible routes of the application
          PeerScan        \* what another release's scan yields

\* a process whose scan is empty writes nothing
ASSUME PeerAssumption == DOMAIN PeerScan # {}

ASSUME ManifestAssumption == ManifestSets \subseteq Seq(Manifest)

VARIABLES pc,
          redis, http, \* clients: "none", "open", "closed"
          started,     \* modules whose startup hooks have run, in order
          stopped      \* modules whose shutdown hooks have run, in order

shell == <<manifests, sort, redis, http, started, stopped>>
vars == <<pc, shell, audit, sync, registry>>

Init ==
    /\ pc = "load"
    /\ manifests \in ManifestSets
    /\ redis = "none" /\ http = "none"
    /\ started = <<>> /\ stopped = <<>>
    /\ SortInit
    /\ AuditInit /\ SyncInit /\ RegistryInit

Goto(from, to) == pc = from /\ pc' = to

(***************************************************************************)
(* Start-up.                                                               *)
(***************************************************************************)
\* load_module_specs, one step of its sort at a time
LoadSpecs ==
    /\ Goto("load", "load")
    /\ VisitSpec \/ VisitDependency \/ EndVisit
    /\ UNCHANGED <<redis, http, started, stopped, audit, sync, registry>>

SpecsLoaded == Goto("load", "redis") /\ SortDone /\ UNCHANGED <<shell, audit, sync, registry>>

LoadFails == Goto("load", "failed") /\ CircleFound /\ UNCHANGED <<shell, audit, sync, registry>>

\* the client is set before ping, which may raise
InitRedis ==
    /\ pc = "redis" /\ pc' \in {"audit", "failed"}
    /\ redis' = "open"
    /\ UNCHANGED <<manifests, sort, http, started, stopped, audit, sync, registry>>

StartQueue == Goto("audit", "config") /\ StartAudit /\ UNCHANGED <<shell, sync, registry>>

\* load_all; apply_all_config finds nothing in the snapshot to apply
LoadConfig == Goto("config", "listener") /\ LoadAll /\ UNCHANGED <<shell, audit, registry>>

CreateListener ==
    Goto("listener", "modules") /\ StartListener /\ UNCHANGED <<shell, audit, registry>>

\* imports that may raise
LoadModuleConfigs ==
    /\ pc = "modules" /\ pc' \in {"handlers", "failed"}
    /\ UNCHANGED <<shell, audit, sync, registry>>

RunEventHandlers ==
    /\ pc = "handlers" /\ pc' \in {"services", "failed"}
    /\ UNCHANGED <<shell, audit, sync, registry>>

RegisterServices ==
    /\ pc = "services" /\ pc' \in {"permissions", "failed"}
    /\ UNCHANGED <<shell, audit, sync, registry>>

\* the first await that suspends: by the time Redis answers, the two tasks
\* created before have taken their first step
TasksStarted == writer # "created" /\ listener # "created"

SyncResources ==
    /\ Goto("permissions", "methods")
    /\ \E routes \in RouteTables : WriteResources(routes)
    /\ UNCHANGED <<shell, audit, sync>>

\* "Refusing to write empty permission registry", or Redis fails
SyncRefused ==
    /\ pc \in {"permissions", "methods"} /\ pc' = "failed"
    /\ UNCHANGED <<shell, audit, sync, registry>>

SyncMethods ==
    /\ Goto("methods", "http") /\ TasksStarted
    /\ WriteMethods
    /\ UNCHANGED <<shell, audit, sync>>

InitHttp ==
    /\ Goto("http", "hooks")
    /\ http' = "open"
    /\ UNCHANGED <<manifests, sort, redis, started, stopped, audit, sync, registry>>

StartupHook ==
    /\ pc = "hooks" /\ Len(started) < Len(order)
    /\ \/ pc' = pc /\ started' = Append(started, order[Len(started) + 1])
       \/ pc' = "failed" /\ UNCHANGED started
    /\ UNCHANGED <<manifests, sort, redis, http, stopped, audit, sync, registry>>

\* emit("on_config_loaded"): a handler's exception is logged and passed over
Serve ==
    /\ Goto("hooks", "serve") /\ Len(started) = Len(order)
    /\ UNCHANGED <<shell, audit, sync, registry>>

(***************************************************************************)
(* Shutdown.                                                               *)
(***************************************************************************)
BeginShutdown == Goto("serve", "unhook") /\ UNCHANGED <<shell, audit, sync, registry>>

\* reversed(module_specs)
ShutdownHook ==
    /\ pc = "unhook" /\ Len(stopped) < Len(order)
    /\ \/ pc' = pc /\ stopped' = Append(stopped, order[Len(order) - Len(stopped)])
       \/ pc' = "broken" /\ UNCHANGED stopped
    /\ UNCHANGED <<manifests, sort, redis, http, started, audit, sync, registry>>

MutantSkipsListener ==
    /\ Goto("unhook", "unaudit") /\ Len(stopped) = Len(order)
    /\ UNCHANGED <<shell, audit, sync, registry>>

StopSync ==
    /\ Goto("unhook", "unaudit") /\ Len(stopped) = Len(order)
    /\ StopListener
    /\ UNCHANGED <<shell, audit, registry>>

StopQueue == Goto("unaudit", "join") /\ TakeQueue /\ UNCHANGED <<shell, sync, registry>>

JoinQueue == Goto("join", "unhttp") /\ CancelWriter /\ UNCHANGED <<shell, sync, registry>>

CloseHttp ==
    /\ Goto("unhttp", "unredis")
    /\ http' = "closed"
    /\ UNCHANGED <<manifests, sort, redis, started, stopped, audit, sync, registry>>

CloseRedis ==
    /\ Goto("unredis", "stopped")
    /\ redis' = "closed"
    /\ UNCHANGED <<manifests, sort, http, started, stopped, audit, sync, registry>>

(***************************************************************************)
(* The tasks, requests and other processes.                                *)
(***************************************************************************)
Serving == {"serve", "unhook", "unaudit", "join", "unhttp", "unredis"}

Main ==
    \/ LoadSpecs \/ SpecsLoaded \/ LoadFails \/ InitRedis \/ StartQueue \/ LoadConfig \/ CreateListener
    \/ LoadModuleConfigs \/ RunEventHandlers \/ RegisterServices
    \/ SyncResources \/ SyncRefused \/ SyncMethods \/ InitHttp \/ StartupHook \/ Serve
    \/ BeginShutdown \/ ShutdownHook \/ StopSync \/ StopQueue \/ JoinQueue
    \/ CloseHttp \/ CloseRedis

\* a request that is still being answered when the shutdown begins is audited, too
AuditTask ==
    WriterRuns \/ WriterDrains \/ (pc \in Serving /\ \E e \in Events : Enqueue(e))

SyncTask ==
    \/ ListenerRuns \/ Subscribe \/ Receive \/ ReceiveRaises \/ ListenerFails \/ ListenerWakes
    \/ PeerChange \/ (pc = "serve" /\ LocalChange)

Ended == pc \in {"failed", "broken", "stopped"}

Next ==
    \/ Main
    \/ ~Ended /\ AuditTask /\ UNCHANGED <<pc, shell, sync, registry>>
    \/ ~Ended /\ SyncTask /\ UNCHANGED <<pc, shell, audit, registry>>
    \/ ~Ended /\ PeerWrites(PeerScan) /\ UNCHANGED <<pc, shell, audit, sync>>

Spec == Init /\ [][Next]_vars

(***************************************************************************)
(* Properties.                                                             *)
(***************************************************************************)
Before(seq, a, b) ==
    \E i, j \in DOMAIN seq : i < j /\ seq[i] = a /\ seq[j] = b

\* A module's startup hooks run after those of every loaded module it depends
\* on, its shutdown hooks before theirs, for every loaded module exactly once;
\* a process whose modules depend on each other in a circle gets no further
\* than discovery, every other one gets past it.
HooksInOrder ==
    /\ \A m \in ToSet(started) : \A d \in Needs(m) : Before(started, d, m)
    /\ \A m \in ToSet(stopped) : m \in Loaded
    /\ \A m \in Loaded, d \in Loaded :
          d \in Needs(m) /\ d \in ToSet(stopped) => Before(stopped, m, d)
    /\ pc = "serve" => IsInjective(started) /\ ToSet(started) = Loaded
    /\ pc = "failed" /\ redis = "none" => Cyclic
    /\ redis # "none" => ~Cyclic

\* Redis is open as long as anything uses it (hooks, the listener, the
\* writer's queue, requests), and after an undisturbed shutdown nothing is
\* left: no client, no task, no subscription.
OrderlyShutdown ==
    /\ listener # "off" \/ queue_set \/ pc \in {"hooks", "serve", "unhook"} => redis = "open"
    /\ pc = "stopped" =>
          /\ redis = "closed" /\ http = "closed"
          /\ listener = "off" /\ writer = "gone" /\ inbox = <<>>

\* Every event the queue accepted has reached the event bus when the writer is
\* cancelled, although requests go on while the queue is being stopped.
NoAcceptedEventLost == writer = "gone" => accepted = recorded

\* One process's pair of writes lies within the other's.
Nested == log \in {<<"own", "peer", "peer", "own">>, <<"peer", "own", "own", "peer">>}

\* A serving process finds a registry in Redis that has every key its own scan
\* found until another release starts to write (the scan finds one key of every
\* route, however many the route asks for).  However two processes' writes
\* interleave, once both are through, the method map is the one of whoever wrote
\* last, and the key list belongs to it unless one pair of writes lay within the
\* other: then the list is the other scan's, and stays so.
RegistryServed ==
    pc = "serve" =>
        /\ Synced
        /\ peer = 0 => Registered(DOMAIN own)
        /\ peer # 1 =>
              LET last  == IF log[Len(log)] = "own" THEN own ELSE PeerScan
                  other == IF log[Len(log)] = "own" THEN PeerScan ELSE own
              IN  methods = last /\ resources = DOMAIN (IF Nested THEN other ELSE last)
=============================================================================
