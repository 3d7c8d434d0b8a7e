--------------------------- MODULE LifespanProofs ---------------------------
(***************************************************************************)
(* Proofs about Lifespan, for any modules, any routes, any size of the     *)
(* audit queue and any number of configuration events.                     *)
(***************************************************************************)
EXTENDS Lifespan, FiniteSetTheorems, SequenceTheorems, WellFoundedInduction, TLAPS

(***************************************************************************)
(* Who is up in which phase.                                               *)
(***************************************************************************)
Early == {"load", "redis"}
Middle == {"audit", "config", "listener", "modules", "handlers", "services",
           "permissions", "methods", "http", "hooks", "serve"}
Late == {"unhook", "unaudit", "join", "unhttp", "unredis"}
Points == Early \cup Middle \cup Late \cup {"stopped", "failed", "broken"}

ListenerStates == {"off", "created", "subscribing", "listening", "sleeping"}

Messages == [source : {"peer", "self"}, id : Nat]

\* the listener exists from CreateListener to StopSync, and holds messages
\* only while it has a subscription
ListenerInv ==
    /\ listener \in ListenerStates /\ sent \in Nat /\ inbox \in Seq(Messages)
    /\ listener \notin {"listening", "sleeping"} => inbox = <<>>
    /\ pc \in Early \cup {"audit", "config", "listener", "unaudit", "join", "unhttp", "unredis", "stopped"}
          => listener = "off"

\* the queue accepts from StartQueue to StopQueue; its writer has started
\* before anything is accepted and goes once the queue is empty
WriterInv ==
    /\ queue_set \in BOOLEAN
    /\ writer \in {"none", "created", "running", "gone"}
    /\ pc \in Early \cup {"audit"} => ~queue_set /\ writer = "none"
    /\ pc \in (Middle \cup Late) \ {"audit"} => writer # "none"
    /\ pc \in {"join", "unhttp", "unredis", "stopped"} => ~queue_set
    /\ pc \in {"http", "hooks", "serve"} \cup Late => writer \in {"running", "gone"}
    /\ pc \in {"unhttp", "unredis", "stopped"} => writer = "gone"
    /\ writer = "created" => queue_set
    /\ writer = "gone" => ~queue_set

\* Redis is open from InitRedis to CloseRedis
ClientsInv ==
    /\ pc \in Middle \cup Late => redis = "open"
    /\ pc \in {"unredis", "stopped"} => http = "closed"
    /\ pc = "stopped" => redis = "closed"
    /\ listener # "off" \/ queue_set => redis = "open"

LifeInv == pc \in Points /\ ListenerInv /\ WriterInv /\ ClientsInv

LEMMA LifeInit == Init => LifeInv
<1> SUFFICES ASSUME Init PROVE LifeInv
  OBVIOUS
<1> USE DEF Init, AuditInit, SyncInit, Points, Early, Middle, Late
<1>1. ListenerInv
  BY DEF ListenerInv, ListenerStates
<1>2. WriterInv
  BY DEF WriterInv
<1>3. ClientsInv
  BY DEF ClientsInv
<1>4. QED
  BY <1>1, <1>2, <1>3 DEF LifeInv

\* A step of the lifespan that leaves both tasks alone.
LEMMA PlainMain ==
    ASSUME LifeInv, UNCHANGED <<audit, sync>>,
           \/ LoadSpecs \/ SpecsLoaded \/ LoadFails \/ InitRedis \/ LoadModuleConfigs \/ RunEventHandlers
           \/ RegisterServices \/ SyncResources \/ SyncRefused \/ SyncMethods
           \/ InitHttp \/ StartupHook \/ Serve \/ BeginShutdown \/ ShutdownHook
           \/ CloseHttp \/ CloseRedis
    PROVE  LifeInv'
<1> USE DEF LifeInv, Points, Early, Middle, Late, ListenerInv, WriterInv, ClientsInv, audit, sync, shell, Goto
<1>1. CASE LoadSpecs \/ SpecsLoaded \/ LoadFails
  <2>1. pc = "load" /\ pc' \in {"load", "failed", "redis"} /\ UNCHANGED <<redis, http, audit, sync>>
    BY <1>1 DEF LoadSpecs, SpecsLoaded, LoadFails
  <2>2. QED
    BY <2>1
<1>2. CASE InitRedis
  BY <1>2 DEF InitRedis
<1>3. CASE LoadModuleConfigs \/ RunEventHandlers \/ RegisterServices
  BY <1>3 DEF LoadModuleConfigs, RunEventHandlers, RegisterServices
<1>4. CASE SyncResources \/ SyncRefused
  BY <1>4 DEF SyncResources, SyncRefused
<1>5. CASE SyncMethods
  BY <1>5 DEF SyncMethods, TasksStarted
<1>6. CASE InitHttp
  BY <1>6 DEF InitHttp
<1>7. CASE StartupHook \/ Serve
  BY <1>7 DEF StartupHook, Serve
<1>8. CASE BeginShutdown \/ ShutdownHook
  BY <1>8 DEF BeginShutdown, ShutdownHook
<1>9. CASE CloseHttp
  BY <1>9 DEF CloseHttp
<1>10. CASE CloseRedis
  BY <1>10 DEF CloseRedis
<1>11. QED
  BY <1>1, <1>2, <1>3, <1>4, <1>5, <1>6, <1>7, <1>8, <1>9, <1>10

\* A step of the lifespan that starts or stops one of the tasks.
LEMMA TaskMain ==
    ASSUME LifeInv,
           \/ StartQueue \/ LoadConfig \/ CreateListener
           \/ StopSync \/ StopQueue \/ JoinQueue
    PROVE  LifeInv'
<1> USE DEF LifeInv, Points, Early, Middle, Late, ListenerInv, ListenerStates, WriterInv, ClientsInv,
            audit, sync, shell, Goto
<1>1. CASE StartQueue
  BY <1>1 DEF StartQueue, StartAudit
<1>2. CASE LoadConfig
  BY <1>2 DEF LoadConfig, LoadAll, Reload
<1>3. CASE CreateListener
  BY <1>3 DEF CreateListener, StartListener
<1>4. CASE StopSync
  BY <1>4 DEF StopSync, StopListener, ClosePubsub
<1>5. CASE StopQueue
  BY <1>5 DEF StopQueue, TakeQueue
<1>6. CASE JoinQueue
  BY <1>6 DEF JoinQueue, CancelWriter
<1>7. QED
  BY <1>1, <1>2, <1>3, <1>4, <1>5, <1>6

LEMMA AuditSteps ==
    ASSUME LifeInv, ~Ended, AuditTask, UNCHANGED <<pc, shell, sync, registry>>
    PROVE  LifeInv'
<1> USE DEF LifeInv, Points, Early, Middle, Late, Ended, audit, sync, shell
<1>1. UNCHANGED <<pc, redis, http, listener, inbox, sent>>
  OBVIOUS
<1>2. ListenerInv'
  BY <1>1 DEF ListenerInv
<1>3. CASE WriterRuns
  BY <1>1, <1>2, <1>3 DEF WriterRuns, WriterInv, ClientsInv
<1>4. CASE WriterDrains \/ \E e \in Events : Enqueue(e)
  <2>1. UNCHANGED <<queue_set, writer>>
    BY <1>4 DEF WriterDrains, Enqueue
  <2>2. QED
    BY <1>1, <1>2, <2>1 DEF WriterInv, ClientsInv
<1>5. QED
  BY <1>3, <1>4 DEF AuditTask

LEMMA SyncSteps ==
    ASSUME LifeInv, ~Ended, SyncTask, UNCHANGED <<pc, shell, audit, registry>>
    PROVE  LifeInv'
<1> USE DEF LifeInv, Points, Early, Middle, Late, Ended, audit, sync, shell
<1>1. UNCHANGED <<pc, redis, http, queue_set, writer>>
  OBVIOUS
<1>2. WriterInv'
  BY <1>1 DEF WriterInv
<1>3. ListenerInv' /\ (listener = "off" => listener' = "off")
  <2>1. CASE ListenerRuns \/ Subscribe \/ ListenerFails
    BY <1>1, <2>1 DEF ListenerRuns, Subscribe, ListenerFails, ListenerInv, ListenerStates
  <2>2. CASE ListenerWakes
    BY <1>1, <2>2 DEF ListenerWakes, ClosePubsub, ListenerInv, ListenerStates
  <2>3. CASE Receive \/ ReceiveRaises
    <3>1. /\ listener' \in {"listening", "sleeping"} /\ listener = "listening"
          /\ sent' = sent /\ inbox' \in Seq(Messages)
      BY <2>3 DEF Receive, ReceiveRaises, ListenerInv
    <3>2. QED
      BY <1>1, <3>1 DEF ListenerInv, ListenerStates
  <2>4. CASE PeerChange \/ LocalChange
    <3>1. Message("peer") \in Messages /\ Message("self") \in Messages
      BY DEF Message, Messages, ListenerInv
    <3>2. /\ listener' = listener /\ sent' = sent + 1
          /\ \/ inbox' = inbox
             \/ /\ listener \in {"listening", "sleeping"}
                /\ inbox' \in {Append(inbox, Message("peer")), Append(inbox, Message("self"))}
      BY <2>4 DEF PeerChange, LocalChange, Reached
    <3>3. inbox' \in Seq(Messages)
      BY <3>1, <3>2 DEF ListenerInv
    <3>4. QED
      BY <1>1, <3>2, <3>3 DEF ListenerInv
  <2>5. QED
    BY <2>1, <2>2, <2>3, <2>4 DEF SyncTask
<1>4. QED
  BY <1>1, <1>2, <1>3 DEF ClientsInv

LEMMA PlainFrame ==
    ASSUME \/ LoadSpecs \/ SpecsLoaded \/ LoadFails \/ InitRedis \/ LoadModuleConfigs \/ RunEventHandlers
           \/ RegisterServices \/ SyncResources \/ SyncRefused \/ SyncMethods
           \/ InitHttp \/ StartupHook \/ Serve \/ BeginShutdown \/ ShutdownHook
           \/ CloseHttp \/ CloseRedis
    PROVE  UNCHANGED <<audit, sync>>
BY DEF LoadSpecs, SpecsLoaded, LoadFails, InitRedis, LoadModuleConfigs, RunEventHandlers, RegisterServices, SyncResources,
       SyncRefused, SyncMethods, InitHttp, StartupHook, Serve, BeginShutdown, ShutdownHook,
       CloseHttp, CloseRedis

LEMMA LifeInductive == LifeInv /\ [Next]_vars => LifeInv'
<1> SUFFICES ASSUME LifeInv, [Next]_vars PROVE LifeInv'
  OBVIOUS
<1>1. CASE UNCHANGED vars
  BY <1>1 DEF LifeInv, ListenerInv, WriterInv, ClientsInv, vars, shell, audit, sync
<1>2. CASE Main
  BY <1>2, PlainMain, PlainFrame, TaskMain DEF Main
<1>3. CASE ~Ended /\ PeerWrites(PeerScan) /\ UNCHANGED <<pc, shell, audit, sync>>
  BY <1>3 DEF LifeInv, ListenerInv, WriterInv, ClientsInv, shell, audit, sync
<1>4. QED
  BY <1>1, <1>2, <1>3, AuditSteps, SyncSteps DEF Next

\* While a hook, the listener, the audit queue or a request may use it, the
\* process's Redis client is open, and an undisturbed shutdown (app/lifespan.py)
\* leaves no client, task or subscription behind.
THEOREM ShutdownIsOrderly == Spec => []OrderlyShutdown
<1>1. LifeInv => OrderlyShutdown
  BY DEF LifeInv, ListenerInv, WriterInv, ClientsInv, OrderlyShutdown, Early, Middle, Late
<1>2. QED
  BY LifeInit, LifeInductive, <1>1, PTL DEF Spec

(***************************************************************************)
(* The audit queue.                                                        *)
(***************************************************************************)
\* what was accepted is recorded or waits, and only a running writer has
\* anything to wait for
AuditInv ==
    /\ items \in Seq(Events)
    /\ accepted = recorded \cup ToSet(items)
    /\ writer # "running" => items = <<>>

LEMMA AuditInductive == LifeInv /\ AuditInv /\ [Next]_vars => AuditInv'
<1> SUFFICES ASSUME LifeInv, AuditInv, [Next]_vars PROVE AuditInv'
  OBVIOUS
<1>1. ASSUME NEW e \in Events, Enqueue(e), pc \in Serving PROVE AuditInv'
  <2>1. writer \in {"running", "gone"} /\ (writer = "gone" => ~queue_set) /\ writer' = writer
    BY <1>1 DEF LifeInv, WriterInv, Serving, Middle, Late, Enqueue
  <2>2. CASE queue_set /\ Len(items) < QueueSize
    <3>1. items' = Append(items, e) /\ accepted' = accepted \cup {e} /\ recorded' = recorded
      BY <1>1, <2>2 DEF Enqueue
    <3>2. ToSet(items') = ToSet(items) \cup {e} /\ items' \in Seq(Events)
      BY <3>1 DEF ToSet, AuditInv
    <3>3. QED
      BY <2>1, <2>2, <3>1, <3>2 DEF AuditInv
  <2>3. CASE ~(queue_set /\ Len(items) < QueueSize)
    BY <1>1, <2>1, <2>3 DEF Enqueue, AuditInv
  <2>4. QED
    BY <2>2, <2>3
<1>2. CASE WriterRuns
  BY <1>2 DEF WriterRuns, AuditInv, LifeInv, WriterInv
<1>3. CASE WriterDrains
  <2>1. ToSet(<<>>) = {}
    BY DEF ToSet
  <2>2. QED
    BY <1>3, <2>1 DEF WriterDrains, Record, AuditInv
<1>4. CASE StartQueue
  <2>1. items = <<>>
    BY <1>4 DEF StartQueue, Goto, LifeInv, WriterInv, AuditInv
  <2>2. QED
    BY <1>4, <2>1 DEF StartQueue, StartAudit, AuditInv
<1>5. CASE StopQueue
  BY <1>5 DEF StopQueue, TakeQueue, AuditInv
<1>6. CASE JoinQueue
  BY <1>6 DEF JoinQueue, CancelWriter, AuditInv
<1>7. CASE UNCHANGED audit
  BY <1>7 DEF audit, AuditInv
<1>8. CASE Main
  <2>1. UNCHANGED audit \/ StartQueue \/ StopQueue \/ JoinQueue
    BY <1>8, PlainFrame DEF Main, LoadConfig, CreateListener, StopSync
  <2>2. QED
    BY <2>1, <1>4, <1>5, <1>6, <1>7
<1>9. QED
  BY <1>1, <1>2, <1>3, <1>7, <1>8 DEF Next, AuditTask, vars

\* Every event the operation audit queue accepted has been handed to the
\* event bus when stop cancels the writer (app/platform/audit/queue.py).
THEOREM AuditComplete == Spec => []NoAcceptedEventLost
<1>1. Init => AuditInv
  BY DEF Init, AuditInit, AuditInv, ToSet
<1>2. AuditInv => NoAcceptedEventLost
  <2>1. ToSet(<<>>) = {}
    BY DEF ToSet
  <2>2. QED
    BY <2>1 DEF AuditInv, NoAcceptedEventLost
<1>3. QED
  BY LifeInit, LifeInductive, AuditInductive, <1>1, <1>2, PTL DEF Spec

(***************************************************************************)
(* The configuration listener.                                             *)
(***************************************************************************)
\* the peers' events among the messages of q
WaitingIn(q) == {q[i].id : i \in {j \in DOMAIN q : q[j].source = "peer"}}

\* What a message that arrives changes.
LEMMA Arrives ==
    ASSUME NEW q \in Seq(Messages), NEW m \in Messages
    PROVE  WaitingIn(Append(q, m)) =
               WaitingIn(q) \cup (IF m.source = "peer" THEN {m.id} ELSE {})
<1> DEFINE r == Append(q, m)
<1>1. /\ DOMAIN r = 1..(Len(q) + 1) /\ DOMAIN q = 1..Len(q) /\ Len(q) \in Nat
      /\ \A i \in 1..Len(q) : r[i] = q[i]
      /\ r[Len(q) + 1] = m
  OBVIOUS
<1> HIDE DEF r
<1>2. ASSUME NEW i \in DOMAIN r, r[i].source = "peer"
      PROVE  r[i].id \in WaitingIn(q) \cup (IF m.source = "peer" THEN {m.id} ELSE {})
  <2>1. i \in 1..Len(q) \/ i = Len(q) + 1
    BY <1>1
  <2>2. QED
    BY <1>1, <1>2, <2>1 DEF WaitingIn
<1>3. ASSUME NEW i \in DOMAIN q, q[i].source = "peer" PROVE q[i].id \in WaitingIn(r)
  <2>1. i \in DOMAIN r /\ r[i] = q[i]
    BY <1>1
  <2>2. QED
    BY <1>3, <2>1 DEF WaitingIn
<1>4. ASSUME m.source = "peer" PROVE m.id \in WaitingIn(r)
  <2>1. Len(q) + 1 \in DOMAIN r
    BY <1>1
  <2>2. QED
    BY <1>1, <1>4, <2>1 DEF WaitingIn
<1>5. WaitingIn(r) = WaitingIn(q) \cup (IF m.source = "peer" THEN {m.id} ELSE {})
  BY <1>2, <1>3, <1>4 DEF WaitingIn
<1>6. QED
  BY <1>5 DEF r

\* What taking the first message changes.
LEMMA Taken ==
    ASSUME NEW q \in Seq(Messages), q # <<>>
    PROVE  WaitingIn(q) =
               WaitingIn(Tail(q)) \cup (IF Head(q).source = "peer" THEN {Head(q).id} ELSE {})
<1> DEFINE r == Tail(q)
<1>1. /\ DOMAIN r = 1..(Len(q) - 1) /\ DOMAIN q = 1..Len(q) /\ Len(q) \in Nat \ {0}
      /\ \A i \in 1..(Len(q) - 1) : r[i] = q[i + 1]
      /\ Head(q) = q[1]
  OBVIOUS
<1> HIDE DEF r
<1>2. ASSUME NEW i \in DOMAIN q, q[i].source = "peer"
      PROVE  q[i].id \in WaitingIn(r) \cup (IF q[1].source = "peer" THEN {q[1].id} ELSE {})
  <2>1. i = 1 \/ (i - 1 \in DOMAIN r /\ r[i - 1] = q[i])
    BY <1>1
  <2>2. QED
    BY <1>1, <1>2, <2>1 DEF WaitingIn
<1>3. ASSUME NEW i \in DOMAIN r, r[i].source = "peer" PROVE r[i].id \in WaitingIn(q)
  <2>1. i + 1 \in DOMAIN q /\ q[i + 1] = r[i]
    BY <1>1
  <2>2. QED
    BY <1>3, <2>1 DEF WaitingIn
<1>4. ASSUME q[1].source = "peer" PROVE q[1].id \in WaitingIn(q)
  <2>1. 1 \in DOMAIN q
    BY <1>1
  <2>2. QED
    BY <1>4, <2>1 DEF WaitingIn
<1>5. WaitingIn(q) = WaitingIn(r) \cup (IF q[1].source = "peer" THEN {q[1].id} ELSE {})
  BY <1>2, <1>3, <1>4 DEF WaitingIn
<1>6. QED
  BY <1>1, <1>5 DEF r

\* messages lie in the order of their events
Ordered(q) == \A i, j \in DOMAIN q : i < j => q[i].id < q[j].id

\* what EventsAnsweredOnce needs: events are numbered as they are sent, the
\* subscription keeps their order, a listener sleeps only after a failure, and
\* nothing is lost before there is a listener
EventsInv ==
    /\ loads \in Nat /\ answered \subseteq Nat /\ IsFiniteSet(answered)
    /\ \A h \in heard : h \in Nat /\ h <= sent
    /\ \A i \in DOMAIN inbox : inbox[i].id <= sent
    /\ Ordered(inbox)
    /\ listener = "sleeping" => failures
    /\ pc \in Early \cup {"audit", "config", "listener"} => lost = {}
    /\ EventsAnsweredOnce

\* A reload on the first message, which is a peer's: it is newer than what was
\* answered or lost and older than what still waits.
LEMMA Answered ==
    ASSUME LifeInv, EventsInv, listener = "listening", inbox # <<>>, Head(inbox).source = "peer",
           inbox' = Tail(inbox), Reload, answered' = answered \cup {Head(inbox).id},
           UNCHANGED <<pc, sent, loads, heard, lost>>,
           \/ listener' = "listening" /\ failures' = failures
           \/ listener' = "sleeping" /\ failures' = TRUE
    PROVE  EventsInv'
<1> DEFINE h == Head(inbox).id
<1>1. inbox \in Seq(Messages) /\ Tail(inbox) \in Seq(Messages) /\ sent \in Nat
  BY DEF LifeInv, ListenerInv
<1>2. /\ DOMAIN inbox = 1..Len(inbox) /\ Len(inbox) \in Nat \ {0} /\ Head(inbox) = inbox[1]
      /\ DOMAIN inbox' = 1..(Len(inbox) - 1)
      /\ \A i \in 1..(Len(inbox) - 1) : inbox'[i] = inbox[i + 1]
  BY <1>1
<1>3. Waiting = Waiting' \cup {h}
  BY <1>1, Taken DEF Waiting, WaitingIn
<1>4. h \in Nat
  <2>1. inbox[1] \in Messages
    BY <1>1, <1>2
  <2>2. QED
    BY <1>2, <2>1 DEF Messages
<1>5. ASSUME NEW w \in Waiting' PROVE h < w
  <2>1. PICK i \in 1..(Len(inbox) - 1) : inbox'[i].id = w
    BY <1>2 DEF Waiting
  <2>2. i + 1 \in DOMAIN inbox /\ 1 \in DOMAIN inbox /\ 1 < i + 1 /\ inbox[i + 1].id = w
    BY <1>2, <2>1
  <2>3. QED
    BY <1>2, <2>2 DEF EventsInv, Ordered
<1>6. h \notin answered /\ h \notin lost
  <2>1. h \in Waiting /\ ~(h < h)
    BY <1>3, <1>4
  <2>2. QED
    BY <2>1 DEF EventsInv, EventsAnsweredOnce
<1>7. /\ answered' \subseteq Nat /\ IsFiniteSet(answered') /\ Cardinality(answered) \in Nat
      /\ Cardinality(answered') = Cardinality(answered) + 1
  BY <1>4, <1>6, FS_AddElement, FS_CardinalityType DEF EventsInv
<1>8. version' = loads' + Cardinality(answered')
  BY <1>7 DEF EventsInv, EventsAnsweredOnce, Reload
<1>9. /\ heard' = answered' \cup lost' \cup Waiting'
      /\ answered' \cap lost' = {}
      /\ \A a \in answered' \cup lost', w \in Waiting' : a < w
  BY <1>3, <1>5, <1>6 DEF EventsInv, EventsAnsweredOnce
<1>10. /\ \A i \in DOMAIN inbox' : inbox'[i].id <= sent'
       /\ Ordered(inbox')
  BY <1>2 DEF EventsInv, Ordered
<1>11. lost' # {} => failures' \/ listener' = "off"
  BY DEF EventsInv, EventsAnsweredOnce
<1>12. EventsAnsweredOnce'
  BY <1>8, <1>9, <1>11 DEF EventsAnsweredOnce
<1>13. QED
  BY <1>7, <1>10, <1>12 DEF EventsInv

\* An own message is passed over.
LEMMA Passed ==
    ASSUME LifeInv, EventsInv, inbox # <<>>, Head(inbox).source = "self", inbox' = Tail(inbox),
           UNCHANGED <<pc, version, listener, sent, histories>>
    PROVE  EventsInv'
<1>1. inbox \in Seq(Messages) /\ UNCHANGED <<loads, heard, answered, lost, failures>>
  BY DEF LifeInv, ListenerInv, histories
<1>2. /\ DOMAIN inbox = 1..Len(inbox) /\ Len(inbox) \in Nat \ {0}
      /\ DOMAIN inbox' = 1..(Len(inbox) - 1)
      /\ \A i \in 1..(Len(inbox) - 1) : inbox'[i] = inbox[i + 1]
  BY <1>1
<1>3. Waiting = Waiting'
  BY <1>1, Taken DEF Waiting, WaitingIn
<1>4. /\ \A i \in DOMAIN inbox' : inbox'[i].id <= sent'
      /\ Ordered(inbox')
  BY <1>2 DEF EventsInv, Ordered
<1>5. EventsAnsweredOnce'
  BY <1>1, <1>3 DEF EventsInv, EventsAnsweredOnce
<1>6. QED
  BY <1>1, <1>4, <1>5 DEF EventsInv

\* The subscription is closed with what waits in it.
LEMMA Closed ==
    ASSUME EventsInv, ClosePubsub, UNCHANGED <<version, sent, loads, heard, answered, failures>>,
           listener' # "sleeping", failures \/ listener' = "off",
           pc' \notin Early \cup {"audit", "config", "listener"}
    PROVE  EventsInv'
<1>1. inbox' = <<>> /\ lost' = lost \cup Waiting
  BY DEF ClosePubsub
<1>2. Waiting' = {} /\ DOMAIN inbox' = {}
  BY <1>1 DEF Waiting
<1>3. \A a \in answered : a \notin Waiting
  <2>1. \A a \in answered : ~(a < a)
    BY DEF EventsInv
  <2>2. QED
    BY <2>1 DEF EventsInv, EventsAnsweredOnce
<1>4. EventsAnsweredOnce'
  BY <1>1, <1>2, <1>3 DEF EventsInv, EventsAnsweredOnce
<1>5. QED
  BY <1>2, <1>4 DEF EventsInv, Ordered

\* A message arrives, with the next number.
LEMMA ArrivesInv ==
    ASSUME LifeInv, EventsInv, NEW source \in {"peer", "self"}, Reached(source), sent' = sent + 1,
           heard' = heard \cup (IF source = "peer" THEN {sent + 1} ELSE {}),
           UNCHANGED <<pc, listener, answered, lost, failures>>,
           \/ UNCHANGED <<version, loads>>
           \/ Reload /\ loads' = loads + 1
    PROVE  EventsInv'
<1> DEFINE m == Message(source)
<1>1. inbox \in Seq(Messages) /\ sent \in Nat
  BY DEF LifeInv, ListenerInv
<1>2. m \in Messages /\ m.id = sent + 1 /\ m.source = source
  BY <1>1 DEF Message, Messages
<1> HIDE DEF m
<1>3. inbox' = Append(inbox, m)
  BY DEF Reached, m
<1>4. /\ DOMAIN inbox = 1..Len(inbox) /\ Len(inbox) \in Nat
      /\ DOMAIN inbox' = 1..(Len(inbox) + 1)
      /\ \A i \in 1..Len(inbox) : inbox'[i] = inbox[i] /\ inbox[i] \in Messages
      /\ inbox'[Len(inbox) + 1] = m
  BY <1>1, <1>2, <1>3
<1>5. Waiting' = Waiting \cup (IF source = "peer" THEN {sent + 1} ELSE {})
  BY <1>1, <1>2, <1>3, Arrives DEF Waiting, WaitingIn
<1>6. \A i \in 1..Len(inbox) : inbox[i].id \in Nat /\ inbox[i].id <= sent
  BY <1>4 DEF EventsInv, Messages
<1>7. \A i \in DOMAIN inbox' : inbox'[i].id <= sent'
  <2> SUFFICES ASSUME NEW i \in DOMAIN inbox' PROVE inbox'[i].id <= sent'
    OBVIOUS
  <2>1. i \in 1..Len(inbox) \/ i = Len(inbox) + 1
    BY <1>4
  <2>2. QED
    BY <1>1, <1>2, <1>4, <1>6, <2>1
<1>8. Ordered(inbox')
  <2> SUFFICES ASSUME NEW i \in DOMAIN inbox', NEW j \in DOMAIN inbox', i < j
               PROVE  inbox'[i].id < inbox'[j].id
    BY DEF Ordered
  <2>1. i \in 1..Len(inbox) /\ (j \in 1..Len(inbox) \/ j = Len(inbox) + 1)
    BY <1>4
  <2>2. QED
    BY <1>1, <1>2, <1>4, <1>6, <2>1 DEF EventsInv, Ordered
<1>9. \A a \in answered \cup lost : a \in heard /\ a \in Nat /\ a < sent + 1
  BY <1>1 DEF EventsInv, EventsAnsweredOnce
<1>10. /\ heard' = answered' \cup lost' \cup Waiting'
       /\ \A a \in answered' \cup lost', w \in Waiting' : a < w
  BY <1>5, <1>9 DEF EventsInv, EventsAnsweredOnce
<1>11. loads' \in Nat /\ version' = loads' + Cardinality(answered')
  <2>1. Cardinality(answered) \in Nat
    BY FS_CardinalityType DEF EventsInv
  <2>2. QED
    BY <2>1 DEF EventsInv, EventsAnsweredOnce, Reload
<1>12. EventsAnsweredOnce'
  BY <1>10, <1>11 DEF EventsInv, EventsAnsweredOnce
<1>13. \A e \in heard' : e \in Nat /\ e <= sent'
  BY <1>1 DEF EventsInv
<1>14. QED
  BY <1>7, <1>8, <1>11, <1>12, <1>13 DEF EventsInv

\* Nothing but the numbers moves.
LEMMA CountedInv ==
    ASSUME LifeInv, EventsInv, sent' \in {sent, sent + 1},
           UNCHANGED <<inbox, heard, answered, lost>>,
           failures' = failures \/ failures' = TRUE,
           listener' = "sleeping" => failures', listener = "off" => listener' = "off" \/ lost = {},
           pc' \in Early \cup {"audit", "config", "listener"} => lost = {},
           \/ UNCHANGED <<version, loads>>
           \/ Reload /\ loads' = loads + 1
    PROVE  EventsInv'
<1>1. sent \in Nat /\ inbox \in Seq(Messages)
  BY DEF LifeInv, ListenerInv
<1>2. \A i \in DOMAIN inbox : inbox[i].id \in Nat
  <2>1. \A i \in DOMAIN inbox : inbox[i] \in Messages
    BY <1>1
  <2>2. QED
    BY <2>1 DEF Messages
<1>3. /\ \A e \in heard' : e \in Nat /\ e <= sent'
      /\ \A i \in DOMAIN inbox' : inbox'[i].id <= sent'
  BY <1>1, <1>2 DEF EventsInv
<1>4. loads' \in Nat /\ version' = loads' + Cardinality(answered')
  <2>1. Cardinality(answered) \in Nat
    BY FS_CardinalityType DEF EventsInv
  <2>2. QED
    BY <2>1 DEF EventsInv, EventsAnsweredOnce, Reload
<1>5. Waiting' = Waiting
  BY DEF Waiting
<1>6. EventsAnsweredOnce'
  BY <1>4, <1>5 DEF EventsInv, EventsAnsweredOnce
<1>7. QED
  BY <1>3, <1>4, <1>6 DEF EventsInv, Ordered

LEMMA EventsInductive == LifeInv /\ EventsInv /\ [Next]_vars => EventsInv'
<1> SUFFICES ASSUME LifeInv, EventsInv, [Next]_vars PROVE EventsInv'
  OBVIOUS
<1> DEFINE Begin == Early \cup {"audit", "config", "listener"}
<1>0. /\ pc \in Begin => lost = {} /\ listener = "off"
      /\ listener = "sleeping" => failures
      /\ listener \in {"off", "created", "subscribing", "listening", "sleeping"}
  BY DEF LifeInv, ListenerInv, ListenerStates, EventsInv
<1>1. CASE UNCHANGED sync /\ (pc' \in Begin => pc \in Begin)
  BY <1>0, <1>1, CountedInv DEF sync, histories
<1>2. CASE LoadConfig
  <2>1. /\ pc = "config" /\ pc' = "listener" /\ Reload /\ loads' = loads + 1
        /\ UNCHANGED <<listener, inbox, sent, heard, answered, lost, failures>>
    BY <1>2 DEF LoadConfig, LoadAll, Goto
  <2>2. QED
    BY <1>0, <2>1, CountedInv
<1>3. CASE CreateListener
  <2>1. /\ pc = "listener" /\ pc' = "modules" /\ listener' = "created"
        /\ UNCHANGED <<version, inbox, sent, loads, heard, answered, lost, failures>>
    BY <1>3 DEF CreateListener, StartListener, Goto, histories
  <2>2. QED
    BY <1>0, <2>1, CountedInv
<1>4. CASE StopSync
  <2>1. /\ pc' = "unaudit" /\ listener' = "off" /\ ClosePubsub
        /\ UNCHANGED <<version, sent, loads, heard, answered, failures>>
    BY <1>4 DEF StopSync, StopListener, Goto
  <2>2. QED
    BY <2>1, Closed DEF Early
<1>5. CASE SyncTask /\ UNCHANGED pc
  <2>1. CASE ListenerRuns \/ Subscribe \/ ListenerFails
    <3>1. /\ listener # "off" /\ (listener' = "sleeping" => failures') /\ pc' = pc
          /\ failures' = failures \/ failures' = TRUE
          /\ UNCHANGED <<version, inbox, sent, loads, heard, answered, lost>>
      BY <1>5, <2>1 DEF ListenerRuns, Subscribe, ListenerFails, histories
    <3>2. QED
      BY <1>0, <3>1, CountedInv
  <2>2. CASE Receive
    <3>1. CASE Head(inbox).source = "self"
      BY <1>5, <2>2, <3>1, Passed DEF Receive, histories
    <3>2. CASE Head(inbox).source = "peer"
      BY <1>5, <2>2, <3>2, Answered DEF Receive
    <3>3. QED
      BY <2>2, <3>1, <3>2 DEF Receive
  <2>3. CASE ReceiveRaises
    BY <1>5, <2>3, Answered DEF ReceiveRaises
  <2>4. CASE ListenerWakes
    <3>1. /\ listener = "sleeping" /\ listener' = "subscribing" /\ ClosePubsub /\ pc' = pc
          /\ UNCHANGED <<version, sent, loads, heard, answered, failures>>
      BY <1>5, <2>4 DEF ListenerWakes
    <3>2. QED
      BY <1>0, <3>1, Closed
  <2>5. CASE PeerChange
    <3>1. CASE Reached("peer") /\ heard' = heard \cup {sent + 1}
      BY <1>5, <2>5, <3>1, ArrivesInv DEF PeerChange
    <3>2. CASE UNCHANGED <<inbox, heard>>
      <4>1. /\ sent' = sent + 1 /\ pc' = pc
            /\ UNCHANGED <<version, listener, inbox, loads, heard, answered, lost, failures>>
        BY <1>5, <2>5, <3>2 DEF PeerChange
      <4>2. QED
        BY <1>0, <4>1, CountedInv
    <3>3. QED
      BY <2>5, <3>1, <3>2 DEF PeerChange
  <2>6. CASE LocalChange
    <3>1. /\ sent' = sent + 1 /\ Reload /\ loads' = loads + 1 /\ pc' = pc
          /\ UNCHANGED <<listener, heard, answered, lost, failures>>
      BY <1>5, <2>6 DEF LocalChange
    <3>2. CASE Reached("self")
      BY <3>1, <3>2, ArrivesInv
    <3>3. CASE UNCHANGED inbox
      BY <1>0, <3>1, <3>3, CountedInv
    <3>4. QED
      BY <2>6, <3>2, <3>3 DEF LocalChange
  <2>7. QED
    BY <1>5, <2>1, <2>2, <2>3, <2>4, <2>5, <2>6 DEF SyncTask
<1>6. CASE Main
  <2>1. \/ LoadConfig \/ CreateListener \/ StopSync
        \/ UNCHANGED sync /\ (pc' \in Begin => pc \in Begin)
    <3>1. ASSUME \/ LoadSpecs \/ SpecsLoaded \/ LoadFails \/ InitRedis \/ StartQueue
                 \/ LoadModuleConfigs \/ RunEventHandlers \/ RegisterServices
          PROVE  UNCHANGED sync /\ (pc' \in Begin => pc \in Begin)
      BY <3>1 DEF LoadSpecs, SpecsLoaded, LoadFails, InitRedis, StartQueue, LoadModuleConfigs,
                  RunEventHandlers, RegisterServices, Goto, Early
    <3>2. ASSUME \/ SyncResources \/ SyncRefused \/ SyncMethods \/ InitHttp \/ StartupHook \/ Serve
                 \/ BeginShutdown \/ ShutdownHook \/ StopQueue \/ JoinQueue
                 \/ CloseHttp \/ CloseRedis
          PROVE  UNCHANGED sync /\ pc' \notin Begin
      BY <3>2 DEF SyncResources, SyncRefused, SyncMethods, InitHttp, StartupHook, Serve,
                  BeginShutdown, ShutdownHook, StopQueue, JoinQueue, CloseHttp, CloseRedis, Goto, Early
    <3>3. QED
      BY <1>6, <3>1, <3>2 DEF Main
  <2>2. QED
    BY <1>1, <1>2, <1>3, <1>4, <2>1
<1>7. QED
  BY <1>1, <1>5, <1>6 DEF Next, vars

\* The listener of app/platform/config/sync.py reloads once on every event of a
\* peer that reached it, in their order, and on none of its own; what it does not
\* answer waits, or was closed away with a subscription that failed or stopped,
\* for any number of events and reconnections.
THEOREM EventsAreAnsweredOnce == Spec => []EventsAnsweredOnce
<1>1. Init => EventsInv
  <2> SUFFICES ASSUME Init PROVE EventsInv
    OBVIOUS
  <2>1. /\ version = 0 /\ listener = "off" /\ inbox = <<>> /\ sent = 0 /\ loads = 0
        /\ heard = {} /\ answered = {} /\ lost = {} /\ failures = FALSE
    BY DEF Init, SyncInit
  <2>2. IsFiniteSet({}) /\ Cardinality({}) = 0
    BY FS_EmptySet
  <2>3. Waiting = {} /\ DOMAIN inbox = {}
    BY <2>1 DEF Waiting
  <2>4. EventsAnsweredOnce
    BY <2>1, <2>2, <2>3 DEF EventsAnsweredOnce
  <2>5. QED
    BY <2>1, <2>2, <2>3, <2>4 DEF EventsInv, Ordered
<1>2. EventsInv => EventsAnsweredOnce
  BY DEF EventsInv
<1>3. QED
  BY LifeInit, LifeInductive, EventsInductive, <1>1, <1>2, PTL DEF Spec

(***************************************************************************)
(* The permission registry.                                                *)
(***************************************************************************)
Starting == Early \cup {"audit", "config", "listener", "modules", "handlers", "services", "permissions"}

\* The writes in a given order and what they leave: list is the scan whose keys
\* are in the key list.
Wrote(writes, list) == log = writes /\ resources = DOMAIN list

\* before this process's writes, between them, and after them
Unwritten ==
    \/ peer = 0 /\ log = <<>>
    \/ peer = 1 /\ log = <<"peer">>
    \/ peer = 2 /\ log = <<"peer", "peer">>

HalfWritten ==
    \/ peer = 0 /\ Wrote(<<"own">>, own)
    \/ peer = 1 /\ Wrote(<<"peer", "own">>, own)
    \/ peer = 1 /\ Wrote(<<"own", "peer">>, PeerScan)
    \/ peer = 2 /\ Wrote(<<"peer", "peer", "own">>, own)
    \/ peer = 2 /\ Wrote(<<"peer", "own", "peer">>, own)
    \/ peer = 2 /\ Wrote(<<"own", "peer", "peer">>, PeerScan)

Written ==
    \/ peer = 0 /\ Wrote(<<"own", "own">>, own) /\ methods = own
    \/ peer = 1 /\ Wrote(<<"peer", "own", "own">>, own) /\ methods = own
    \/ peer = 1 /\ Wrote(<<"own", "peer", "own">>, PeerScan) /\ methods = own
    \/ peer = 1 /\ Wrote(<<"own", "own", "peer">>, PeerScan) /\ methods = own
    \/ peer = 2 /\ Wrote(<<"peer", "peer", "own", "own">>, own) /\ methods = own
    \/ peer = 2 /\ Wrote(<<"peer", "own", "peer", "own">>, own) /\ methods = own
    \/ peer = 2 /\ Wrote(<<"own", "peer", "peer", "own">>, PeerScan) /\ methods = own
    \/ peer = 2 /\ Wrote(<<"peer", "own", "own", "peer">>, own) /\ methods = PeerScan
    \/ peer = 2 /\ Wrote(<<"own", "peer", "own", "peer">>, PeerScan) /\ methods = PeerScan
    \/ peer = 2 /\ Wrote(<<"own", "own", "peer", "peer">>, PeerScan) /\ methods = PeerScan

RegistryInv ==
    /\ pc \in Starting => Unwritten
    /\ pc = "methods" => HalfWritten /\ DOMAIN own # {}
    /\ pc \in {"http", "hooks", "serve"} => Written /\ DOMAIN own # {}

\* One more write at the end of a log of up to three.
LEMMA Logged ==
    ASSUME NEW W, NEW d \in W
    PROVE  /\ Append(<<>>, d) = <<d>>
           /\ \A a \in W : Append(<<a>>, d) = <<a, d>>
           /\ \A a, b \in W : Append(<<a, b>>, d) = <<a, b, d>>
           /\ \A a, b, c \in W : Append(<<a, b, c>>, d) = <<a, b, c, d>>
<1>1. Append(<<>>, d) = <<d>>
  OBVIOUS
<1>2. ASSUME NEW a \in W
      PROVE  Append(<<a>>, d) = <<a, d>>
  <2> DEFINE s == Append(<<a>>, d)
             t == <<a, d>>
  <2>1. /\ s \in Seq(W) /\ t \in Seq(W) /\ Len(s) = 2 /\ Len(t) = 2
        /\ s[1] = t[1] /\ s[2] = t[2]
    OBVIOUS
  <2> HIDE DEF s, t
  <2>2. s = t
    BY <2>1, SeqEqual
  <2>3. QED
    BY <2>2 DEF s, t
<1>3. ASSUME NEW a \in W, NEW b \in W
      PROVE  Append(<<a, b>>, d) = <<a, b, d>>
  <2> DEFINE s == Append(<<a, b>>, d)
             t == <<a, b, d>>
  <2>1. /\ s \in Seq(W) /\ t \in Seq(W) /\ Len(s) = 3 /\ Len(t) = 3
        /\ s[1] = t[1] /\ s[2] = t[2] /\ s[3] = t[3]
    OBVIOUS
  <2> HIDE DEF s, t
  <2>2. s = t
    BY <2>1, SeqEqual
  <2>3. QED
    BY <2>2 DEF s, t
<1>4. ASSUME NEW a \in W, NEW b \in W, NEW c \in W
      PROVE  Append(<<a, b, c>>, d) = <<a, b, c, d>>
  <2> DEFINE s == Append(<<a, b, c>>, d)
             t == <<a, b, c, d>>
  <2>1. /\ s \in Seq(W) /\ t \in Seq(W) /\ Len(s) = 4 /\ Len(t) = 4
        /\ s[1] = t[1] /\ s[2] = t[2] /\ s[3] = t[3] /\ s[4] = t[4]
    OBVIOUS
  <2> HIDE DEF s, t
  <2>2. s = t
    BY <2>1, SeqEqual
  <2>3. QED
    BY <2>2 DEF s, t
<1>5. QED
  BY <1>1, <1>2, <1>3, <1>4

\* The same for the two writers.
LEMMA LoggedHere ==
    ASSUME NEW d \in {"own", "peer"}
    PROVE  /\ Append(<<>>, d) = <<d>>
           /\ \A a \in {"own", "peer"} : Append(<<a>>, d) = <<a, d>>
           /\ \A a, b \in {"own", "peer"} : Append(<<a, b>>, d) = <<a, b, d>>
           /\ \A a, b, c \in {"own", "peer"} : Append(<<a, b, c>>, d) = <<a, b, c, d>>
BY Logged

LEMMA Peers012 == 0 # 1 /\ 0 # 2 /\ 1 # 2
OBVIOUS

LEMMA OwnList ==
    ASSUME RegistryInv, SyncResources
    PROVE  RegistryInv'
<1>1. PICK routes \in RouteTables : WriteResources(routes)
  BY DEF SyncResources
<1>2. /\ pc = "permissions" /\ pc' = "methods" /\ peer' = peer
      /\ resources' = DOMAIN own' /\ DOMAIN own' # {}
      /\ log' = Append(log, "own")
  BY <1>1 DEF SyncResources, Goto, WriteResources
<1>3. Unwritten
  BY <1>2 DEF RegistryInv, Starting
<1>4. HalfWritten'
  BY <1>2, <1>3, LoggedHere DEF Unwritten, HalfWritten, Wrote
<1>5. QED
  BY <1>2, <1>4 DEF RegistryInv, Starting, Early

LEMMA OwnMap ==
    ASSUME RegistryInv, SyncMethods
    PROVE  RegistryInv'
<1>1. /\ pc = "methods" /\ pc' = "http" /\ peer' = peer /\ own' = own
      /\ resources' = resources /\ methods' = own
      /\ log' = Append(log, "own")
  BY DEF SyncMethods, Goto, WriteMethods
<1>2. HalfWritten /\ DOMAIN own # {}
  BY <1>1 DEF RegistryInv
<1>3. Written'
  BY <1>1, <1>2, LoggedHere DEF HalfWritten, Written, Wrote
<1>4. QED
  BY <1>1, <1>2, <1>3 DEF RegistryInv, Starting, Early

LEMMA PeerPair ==
    ASSUME RegistryInv, PeerWrites(PeerScan), pc' = pc
    PROVE  RegistryInv'
<1>1. /\ own' = own /\ peer' = peer + 1 /\ log' = Append(log, "peer")
      /\ peer < 2
      /\ peer = 0 => resources' = DOMAIN PeerScan /\ methods' = methods
      /\ peer # 0 => resources' = resources /\ methods' = PeerScan
  BY DEF PeerWrites
<1>2. ASSUME Unwritten PROVE Unwritten'
  <2>1. CASE peer = 0
    <3>1. peer' = 1 /\ log' = Append(<<>>, "peer")
      BY <1>1, <1>2, <2>1 DEF Unwritten
    <3>2. QED
      BY <3>1, LoggedHere DEF Unwritten
  <2>2. CASE peer = 1
    <3>1. peer' = 2 /\ log' = Append(<<"peer">>, "peer")
      BY <1>1, <1>2, <2>2 DEF Unwritten
    <3>2. QED
      BY <3>1, LoggedHere DEF Unwritten
  <2>3. QED
    BY <1>1, <1>2, <2>1, <2>2 DEF Unwritten
<1>3. ASSUME HalfWritten PROVE HalfWritten'
  <2>1. CASE peer = 0
    <3>1. log = <<"own">>
      BY Zenon, <1>3, <2>1, Peers012 DEF HalfWritten, Wrote
    <3>2. peer' = 1 /\ log' = Append(log, "peer") /\ resources' = DOMAIN PeerScan
      BY <1>1, <2>1
    <3>3. QED
      BY <3>1, <3>2, LoggedHere DEF HalfWritten, Wrote
  <2>2. CASE peer = 1
    <3>1. \/ log = <<"peer", "own">> /\ resources = DOMAIN own
          \/ log = <<"own", "peer">> /\ resources = DOMAIN PeerScan
      BY Zenon, <1>3, <2>2, Peers012 DEF HalfWritten, Wrote
    <3>2. /\ peer' = 2 /\ own' = own /\ log' = Append(log, "peer") /\ resources' = resources
      BY <1>1, <2>2
    <3>3. CASE log = <<"peer", "own">> /\ resources = DOMAIN own
      BY <3>2, <3>3, LoggedHere DEF HalfWritten, Wrote
    <3>4. CASE log = <<"own", "peer">> /\ resources = DOMAIN PeerScan
      BY <3>2, <3>4, LoggedHere DEF HalfWritten, Wrote
    <3>5. QED
      BY <3>1, <3>3, <3>4
  <2>3. QED
    BY <1>1, <1>3, <2>1, <2>2 DEF HalfWritten
<1>4. ASSUME Written PROVE Written'
  <2>1. CASE peer = 0
    <3>1. log = <<"own", "own">> /\ methods = own
      BY Zenon, <1>4, <2>1, Peers012 DEF Written, Wrote
    <3>2. /\ peer' = 1 /\ log' = Append(log, "peer") /\ resources' = DOMAIN PeerScan
          /\ methods' = methods /\ own' = own
      BY <1>1, <2>1
    <3>3. QED
      BY <3>1, <3>2, LoggedHere DEF Written, Wrote
  <2>2. CASE peer = 1
    <3>1. \/ log = <<"peer", "own", "own">> /\ resources = DOMAIN own
          \/ log = <<"own", "peer", "own">> /\ resources = DOMAIN PeerScan
          \/ log = <<"own", "own", "peer">> /\ resources = DOMAIN PeerScan
      BY Zenon, <1>4, <2>2, Peers012 DEF Written, Wrote
    <3>2. /\ peer' = 2 /\ own' = own /\ methods' = PeerScan /\ log' = Append(log, "peer")
          /\ resources' = resources
      BY <1>1, <2>2
    <3>3. CASE log = <<"peer", "own", "own">> /\ resources = DOMAIN own
      BY <3>2, <3>3, LoggedHere DEF Written, Wrote
    <3>4. CASE log = <<"own", "peer", "own">> /\ resources = DOMAIN PeerScan
      BY <3>2, <3>4, LoggedHere DEF Written, Wrote
    <3>5. CASE log = <<"own", "own", "peer">> /\ resources = DOMAIN PeerScan
      BY <3>2, <3>5, LoggedHere DEF Written, Wrote
    <3>6. QED
      BY <3>1, <3>3, <3>4, <3>5
  <2>3. QED
    BY <1>1, <1>4, <2>1, <2>2 DEF Written
<1>5. QED
  BY <1>1, <1>2, <1>3, <1>4 DEF RegistryInv

LEMMA RegistryInductive == RegistryInv /\ [Next]_vars => RegistryInv'
<1> SUFFICES ASSUME RegistryInv, [Next]_vars PROVE RegistryInv'
  OBVIOUS
<1>1. ASSUME UNCHANGED registry PROVE UNCHANGED <<Unwritten, HalfWritten, Written, own>>
  BY <1>1 DEF registry, Unwritten, HalfWritten, Written, Wrote
<1>2. CASE UNCHANGED registry /\ pc' = pc
  BY <1>1, <1>2 DEF RegistryInv
<1>3. CASE UNCHANGED registry /\ pc \in Starting /\ pc' \in Starting \cup {"failed"}
  BY <1>1, <1>3 DEF RegistryInv, Starting, Early
<1>4. CASE UNCHANGED registry /\ pc' \notin Starting \cup {"methods", "http", "hooks", "serve"}
  BY <1>4 DEF RegistryInv
<1>5. CASE UNCHANGED registry /\ pc \in {"http", "hooks"} /\ pc' \in {"http", "hooks", "serve"}
  BY <1>1, <1>5 DEF RegistryInv, Starting, Early
<1>6. CASE Main
  <2>1. ASSUME \/ LoadSpecs \/ SpecsLoaded \/ LoadFails \/ InitRedis \/ StartQueue \/ LoadConfig
               \/ CreateListener \/ LoadModuleConfigs \/ RunEventHandlers \/ RegisterServices
        PROVE  UNCHANGED registry /\ pc \in Starting /\ pc' \in Starting \cup {"failed"}
    BY <2>1
    DEF LoadSpecs, SpecsLoaded, LoadFails, InitRedis, StartQueue, LoadConfig, CreateListener,
        LoadModuleConfigs, RunEventHandlers, RegisterServices, Goto, Starting, Early
  <2>2. ASSUME \/ SyncRefused \/ BeginShutdown \/ ShutdownHook \/ StopSync \/ StopQueue \/ JoinQueue
               \/ CloseHttp \/ CloseRedis
        PROVE  UNCHANGED registry /\ pc' \notin Starting \cup {"methods", "http", "hooks", "serve"}
    BY <2>2 DEF SyncRefused, BeginShutdown, ShutdownHook, StopSync, StopQueue, JoinQueue, CloseHttp,
                CloseRedis, Goto, Starting, Early
  <2>3. ASSUME InitHttp \/ StartupHook \/ Serve
        PROVE  /\ UNCHANGED registry
               /\ pc \in {"http", "hooks"} /\ pc' \in {"http", "hooks", "serve", "failed"}
    BY <2>3 DEF InitHttp, StartupHook, Serve, Goto
  <2>4. pc' = "failed" => pc' \notin Starting \cup {"methods", "http", "hooks", "serve"}
    BY DEF Starting, Early
  <2>5. QED
    BY <1>3, <1>4, <1>5, <1>6, <2>1, <2>2, <2>3, <2>4, OwnList, OwnMap DEF Main
<1>7. QED
  BY <1>2, <1>6, PeerPair DEF Next, vars

\* A serving process finds a permission registry in Redis with every key its
\* scan found until another release writes; when both processes are through with
\* their two writes (sync_permission_registry), the method map is the last
\* writer's and the key list belongs to it, unless one pair of writes lay within
\* the other, whatever the routes and the two scans are.
THEOREM RegistryIsServed == Spec => []RegistryServed
<1>1. Init => RegistryInv
  <2>1. Init => peer = 0 /\ pc = "load" /\ log = <<>>
    BY Zenon DEF Init, RegistryInit
  <2>2. QED
    BY <2>1 DEF RegistryInv, Unwritten, Starting, Early
<1>2. RegistryInv => RegistryServed
  <2> SUFFICES ASSUME RegistryInv, pc = "serve" PROVE RegistryServed
    BY DEF RegistryServed
  <2>1. Written /\ DOMAIN own # {} /\ DOMAIN PeerScan # {}
    BY PeerAssumption DEF RegistryInv
  <2>2. Synced /\ (peer = 0 => Registered(DOMAIN own))
    BY <2>1 DEF Written, Wrote, Synced, Registered
  <2> DEFINE last == IF log[Len(log)] = "own" THEN own ELSE PeerScan
             other == IF log[Len(log)] = "own" THEN PeerScan ELSE own
  <2>3. ASSUME peer # 1
        PROVE  methods = last /\ resources = DOMAIN (IF Nested THEN other ELSE last)
    <3>1. CASE peer = 0
      <4>1. log = <<"own", "own">> /\ resources = DOMAIN own /\ methods = own
        BY <2>1, <3>1 DEF Written, Wrote
      <4>2. log[Len(log)] = "own" /\ ~Nested
        BY <4>1 DEF Nested
      <4>3. QED
        BY <4>1, <4>2
    <3>2. CASE log = <<"own", "peer", "peer", "own">>
      <4>1. log[Len(log)] = "own" /\ Nested
        BY <3>2 DEF Nested
      <4>2. resources = DOMAIN PeerScan /\ methods = own
        BY <2>1, <3>2 DEF Written, Wrote
      <4>3. QED
        BY <4>1, <4>2
    <3>3. CASE log = <<"peer", "own", "own", "peer">>
      <4>1. log[Len(log)] = "peer" /\ Nested
        BY <3>3 DEF Nested
      <4>2. resources = DOMAIN own /\ methods = PeerScan
        BY <2>1, <3>3 DEF Written, Wrote
      <4>3. QED
        BY <4>1, <4>2
    <3>4. CASE /\ log \in {<<"peer", "peer", "own", "own">>, <<"peer", "own", "peer", "own">>}
               /\ resources = DOMAIN own /\ methods = own
      <4>1. log[Len(log)] = "own" /\ ~Nested
        <5>1. CASE log = <<"peer", "peer", "own", "own">>
          BY <5>1 DEF Nested
        <5>2. CASE log = <<"peer", "own", "peer", "own">>
          BY <5>2 DEF Nested
        <5>3. QED
          BY <3>4, <5>1, <5>2
      <4>2. QED
        BY <3>4, <4>1
    <3>5. CASE /\ log \in {<<"own", "peer", "own", "peer">>, <<"own", "own", "peer", "peer">>}
               /\ resources = DOMAIN PeerScan /\ methods = PeerScan
      <4>1. log[Len(log)] = "peer" /\ ~Nested
        <5>1. CASE log = <<"own", "peer", "own", "peer">>
          BY <5>1 DEF Nested
        <5>2. CASE log = <<"own", "own", "peer", "peer">>
          BY <5>2 DEF Nested
        <5>3. QED
          BY <3>5, <5>1, <5>2
      <4>2. QED
        BY <3>5, <4>1
    <3>6. QED
      BY <2>1, <2>3, <3>1, <3>2, <3>3, <3>4, <3>5 DEF Written, Wrote
  <2>4. QED
    BY <2>2, <2>3 DEF RegistryServed
<1>3. QED
  BY RegistryInductive, <1>1, <1>2, PTL DEF Spec

(***************************************************************************)
(* The sort, and the hooks that follow it.                                 *)
(***************************************************************************)
Deps(m) == manifests[m].depends_on

Calls == [name : Nat, at : Nat]

SortTyped ==
    /\ manifests \in Seq(Manifest)
    /\ place \in 0..Len(manifests)
    /\ stack \in Seq(Calls)
    /\ order \in Seq(Nat)

\* the calls in progress are of different loaded modules not yet visited
CallsInv ==
    /\ \A i \in DOMAIN stack : /\ stack[i].name \in Loaded /\ stack[i].name \notin visited
                               /\ stack[i].at <= Len(Deps(stack[i].name))
    /\ \A i, j \in DOMAIN stack : stack[i].name = stack[j].name => i = j

\* a call waits for the next one, which is of a module it depends on
ChainInv ==
    \A i \in 1..(Len(stack) - 1) :
        stack[i].at > 0 /\ Deps(stack[i].name)[stack[i].at] = stack[i + 1].name

\* the dependencies a call has gone through are visited, but for the one in progress
GoneInv ==
    \A i \in DOMAIN stack : \A k \in 1..stack[i].at :
        \/ Deps(stack[i].name)[k] \in visited
        \/ i < Len(stack) /\ Deps(stack[i].name)[k] = stack[i + 1].name

\* a module is in the result once, after all it needs
InOrder ==
    /\ IsInjective(order)
    /\ \A j \in DOMAIN order : \A d \in Needs(order[j]) : \E i \in 1..(j - 1) : order[i] = d

SpecsInv == \A m \in Loaded : m <= place => m \in visited \/ (stack # <<>> /\ m = stack[1].name)

SortInv ==
    /\ SortTyped /\ CallsInv /\ ChainInv /\ GoneInv /\ InOrder /\ SpecsInv
    /\ ToSet(order) = visited \cap Loaded

\* what load_module_specs returns
Sorted == manifests \in Seq(Manifest) /\ order \in Seq(Nat) /\ InOrder /\ ToSet(order) = Loaded

\* hooks run along the order, and back
HooksInv ==
    /\ started \in Seq(Nat) /\ Len(started) <= Len(order)
    /\ \A i \in 1..Len(started) : started[i] = order[i]
    /\ stopped \in Seq(Nat) /\ Len(stopped) <= Len(order)
    /\ \A i \in 1..Len(stopped) : stopped[i] = order[Len(order) + 1 - i]

ModulesInv ==
    /\ pc = "load" => SortInv /\ started = <<>> /\ stopped = <<>>
    /\ pc \in {"load", "redis"} => redis = "none"
    /\ pc = "serve" => Len(started) = Len(order)
    /\ pc # "load" => \/ Sorted /\ HooksInv /\ (pc # "redis" => redis # "none")
                      \/ /\ pc = "failed" /\ Cyclic /\ redis = "none"
                         /\ started = <<>> /\ stopped = <<>>

-----------------------------------------------------------------------------

\* An element of a sequence is in the set the sequence is over.
LEMMA ElementOf ==
    ASSUME NEW T, NEW s \in Seq(T), NEW i \in DOMAIN s
    PROVE  s[i] \in T
OBVIOUS

\* What an element put at the end changes.
LEMMA Appended ==
    ASSUME NEW T, NEW s \in Seq(T), NEW e \in T
    PROVE  /\ Append(s, e) \in Seq(T) /\ Len(Append(s, e)) = Len(s) + 1
           /\ DOMAIN Append(s, e) = 1..(Len(s) + 1)
           /\ Append(s, e)[Len(s) + 1] = e
           /\ \A i \in 1..Len(s) : Append(s, e)[i] = s[i]
OBVIOUS

\* The dependencies of a loaded module are a list of names.
LEMMA DepsTyped ==
    ASSUME manifests \in Seq(Manifest), NEW m \in Loaded
    PROVE  Deps(m) \in Seq(Nat)
<1>1. manifests[m] \in Manifest
  BY ElementOf DEF Loaded
<1> QED BY <1>1 DEF Manifest, Deps

\* What is known of the innermost call.
LEMMA TopCall ==
    ASSUME SortInv, stack # <<>>
    PROVE  /\ Len(stack) \in Nat \ {0} /\ Len(stack) \in DOMAIN stack /\ DOMAIN stack = 1..Len(stack)
           /\ Top = stack[Len(stack)] /\ Top.name \in Nat /\ Top.at \in Nat
           /\ Top.name \in Loaded /\ Top.name \notin visited
           /\ Dependencies = Deps(Top.name) /\ Dependencies \in Seq(Nat)
           /\ Top.at <= Len(Dependencies)
           /\ \A k \in 1..Top.at : Dependencies[k] \in visited
<1>1. stack \in Seq(Calls) /\ manifests \in Seq(Manifest)
  BY DEF SortInv, SortTyped
<1>2. Len(stack) \in Nat \ {0} /\ Len(stack) \in DOMAIN stack /\ DOMAIN stack = 1..Len(stack)
  BY <1>1
<1>3. Top = stack[Len(stack)] /\ Top \in Calls
  BY <1>1, <1>2, ElementOf DEF Top
<1>4. Top.name \in Loaded /\ Top.name \notin visited /\ Top.at <= Len(Deps(Top.name))
  BY <1>2, <1>3 DEF SortInv, CallsInv
<1>5. Top.name \in Nat /\ Top.at \in Nat
  BY <1>3 DEF Calls
<1>6. Dependencies = Deps(Top.name) /\ Dependencies \in Seq(Nat)
  BY <1>1, <1>4, DepsTyped DEF Dependencies, Deps
<1>7. \A k \in 1..Top.at : Dependencies[k] \in visited
  BY <1>2, <1>3, <1>6 DEF SortInv, GoneInv
<1> QED BY <1>2, <1>3, <1>4, <1>5, <1>6, <1>7

\* A round of the loop over specs.
LEMMA VisitSpecInv ==
    ASSUME SortInv, VisitSpec
    PROVE  SortInv'
<1>1. /\ stack = <<>> /\ place < Len(manifests) /\ place' = place + 1
      /\ manifests' = manifests /\ visited' = visited /\ order' = order
  BY DEF VisitSpec
<1>2. Loaded' = Loaded /\ (\A m : Needs(m)' = Needs(m)) /\ \A m : Deps(m)' = Deps(m)
  BY <1>1 DEF Loaded, Needs, Deps
<1>3. /\ manifests \in Seq(Manifest) /\ place \in Nat /\ place' \in 0..Len(manifests)
      /\ place' \in Nat
  BY <1>1 DEF SortInv, SortTyped
<1>4. InOrder' /\ ToSet(order)' = visited' \cap Loaded'
  BY <1>1, <1>2 DEF SortInv, InOrder
<1>5. \A m \in Loaded : m \in Nat /\ (m <= place => m \in visited)
  BY <1>1, <1>3 DEF SortInv, SpecsInv, Loaded
<1>6. CASE place' \in Loaded /\ place' \notin visited
  <2>1. stack' = <<[name |-> place', at |-> 0]>>
    BY <1>6 DEF VisitSpec, Call
  <2>2. /\ stack' \in Seq(Calls) /\ Len(stack') = 1 /\ DOMAIN stack' = {1}
        /\ stack'[1].name = place' /\ stack'[1].at = 0
    BY <1>3, <2>1 DEF Calls
  <2>3. Deps(place') \in Seq(Nat)
    BY <1>3, <1>6, DepsTyped
  <2>4. CallsInv'
    BY <1>1, <1>2, <1>6, <2>2, <2>3 DEF CallsInv
  <2>5. ChainInv' /\ GoneInv'
    BY <2>2 DEF ChainInv, GoneInv
  <2>6. SpecsInv'
    BY <1>1, <1>2, <1>3, <1>5, <2>1, <2>2 DEF SpecsInv
  <2> QED BY <1>1, <1>3, <1>4, <2>2, <2>4, <2>5, <2>6 DEF SortInv, SortTyped
<1>7. CASE ~(place' \in Loaded /\ place' \notin visited)
  <2>1. stack' = <<>>
    BY <1>7 DEF VisitSpec
  <2>2. CallsInv' /\ ChainInv' /\ GoneInv'
    BY <2>1 DEF CallsInv, ChainInv, GoneInv
  <2>3. SpecsInv'
    BY <1>1, <1>2, <1>3, <1>5, <1>7 DEF SpecsInv
  <2> QED BY <1>1, <1>3, <1>4, <2>1, <2>2, <2>3 DEF SortInv, SortTyped
<1> QED BY <1>6, <1>7

\* A round of the loop over depends_on.
LEMMA VisitDependencyInv ==
    ASSUME SortInv, VisitDependency
    PROVE  SortInv'
<1> DEFINE n == Len(stack)
           rest == [stack EXCEPT ![n].at = @ + 1]
<1>1. /\ stack # <<>> /\ Top.at < Len(Dependencies) /\ Dependency = Dependencies[Top.at + 1]
      /\ manifests' = manifests /\ place' = place /\ order' = order
      /\ visited' = IF Dependency \in Loaded THEN visited ELSE visited \cup {Dependency}
      /\ Dependency \in visited \/ \A i \in DOMAIN stack : stack[i].name # Dependency
  BY DEF VisitDependency, InLoop, Dependency, Path
<1>2. Loaded' = Loaded /\ (\A m : Needs(m)' = Needs(m)) /\ \A m : Deps(m)' = Deps(m)
  BY <1>1 DEF Loaded, Needs, Deps
<1>3. /\ n \in Nat \ {0} /\ n \in DOMAIN stack /\ DOMAIN stack = 1..n
      /\ Top = stack[n] /\ Top.name \in Nat /\ Top.at \in Nat
      /\ Dependencies = Deps(Top.name) /\ Dependencies \in Seq(Nat)
      /\ \A k \in 1..Top.at : Dependencies[k] \in visited
  BY <1>1, TopCall
<1>4. Dependency \in Nat
  BY <1>1, <1>3
<1>5. stack \in Seq(Calls)
  BY DEF SortInv, SortTyped
<1>6. /\ rest \in Seq(Calls) /\ Len(rest) = n /\ DOMAIN rest = 1..n
      /\ \A i \in 1..n : rest[i].name = stack[i].name
      /\ \A i \in 1..n : i # n => rest[i].at = stack[i].at
      /\ rest[n].at = Top.at + 1
  <2>1. rest = [i \in 1..n |-> IF i = n THEN [name |-> Top.name, at |-> Top.at + 1] ELSE stack[i]]
    <3>1. Top \in Calls
      BY <1>3, <1>5, ElementOf
    <3>2. [Top EXCEPT !.at = @ + 1] = [name |-> Top.name, at |-> Top.at + 1]
      BY <3>1 DEF Calls
    <3> HIDE DEF n
    <3>3. rest = [stack EXCEPT ![n] = [stack[n] EXCEPT !.at = @ + 1]]
      OBVIOUS
    <3>4. stack = [i \in 1..n |-> stack[i]]
      BY <1>3, <1>5
    <3> QED BY <1>3, <3>2, <3>3, <3>4
  <2> HIDE DEF rest
  <2>2. \A i \in 1..n : rest[i] \in Calls
    <3>1. [name |-> Top.name, at |-> Top.at + 1] \in Calls
      BY <1>3 DEF Calls
    <3>2. \A i \in 1..n : stack[i] \in Calls
      BY <1>3, <1>5, ElementOf
    <3> QED BY <2>1, <3>1, <3>2
  <2>3. rest \in Seq(Calls) /\ Len(rest) = n /\ DOMAIN rest = 1..n
    <3> HIDE DEF n
    <3>1. rest \in [1..n -> Calls]
      BY <2>1, <2>2
    <3> QED BY <1>3, <3>1
  <2> QED BY <1>3, <2>1, <2>3
<1>7. InOrder' /\ ToSet(order)' = visited' \cap Loaded'
  BY <1>1, <1>2 DEF SortInv, InOrder
<1>8. /\ \A i \in 1..n : /\ stack[i].name \in Loaded /\ stack[i].name \notin visited'
                         /\ rest[i].at <= Len(Deps(stack[i].name))
      /\ \A i, j \in 1..n : stack[i].name = stack[j].name => i = j
  BY <1>1, <1>3, <1>6 DEF SortInv, CallsInv
<1>9. /\ \A i \in 1..(n - 1) : stack[i].at > 0 /\ Deps(stack[i].name)[stack[i].at] = stack[i + 1].name
      /\ \A i \in 1..(n - 1) : \A k \in 1..stack[i].at :
            Deps(stack[i].name)[k] \in visited \/ Deps(stack[i].name)[k] = stack[i + 1].name
  <2>1. ChainInv /\ GoneInv
    BY DEF SortInv
  <2>2. \A i \in 1..(n - 1) : i \in 1..n
    BY <1>3
  <2> QED BY <1>3, <2>1, <2>2 DEF ChainInv, GoneInv
<1>10. \A m \in Loaded : m <= place => m \in visited \/ m = stack[1].name
  BY <1>1 DEF SortInv, SpecsInv
<1>11. visited \subseteq visited'
  BY <1>1
<1>12. \A k \in 1..(Top.at + 1) : Deps(Top.name)[k] \in visited \/ Deps(Top.name)[k] = Dependency
  <2> SUFFICES ASSUME NEW k \in 1..(Top.at + 1)
               PROVE  Deps(Top.name)[k] \in visited \/ Deps(Top.name)[k] = Dependency
    OBVIOUS
  <2>1. k \in 1..Top.at \/ k = Top.at + 1
    BY <1>3
  <2> QED BY <1>1, <1>3, <2>1
<1>13. CASE Dependency \in Loaded \ visited
  <2>1. stack' = Append(rest, [name |-> Dependency, at |-> 0])
    BY <1>13 DEF VisitDependency, Call
  <2> HIDE DEF rest
  <2>2. /\ stack' \in Seq(Calls) /\ Len(stack') = n + 1 /\ DOMAIN stack' = 1..(n + 1)
        /\ stack'[n + 1] = [name |-> Dependency, at |-> 0]
        /\ \A i \in 1..n : stack'[i] = rest[i]
    <3>1. [name |-> Dependency, at |-> 0] \in Calls
      BY <1>4 DEF Calls
    <3>2. Len(rest) = n
      BY <1>6
    <3> HIDE DEF n
    <3> QED BY <1>6, <2>1, <3>1, <3>2, Appended
  <2> HIDE DEF n
  <2>3. visited' = visited
    BY <1>1, <1>13
  <2>4. Deps(Dependency) \in Seq(Nat)
    BY <1>13, DepsTyped DEF SortInv, SortTyped
  <2>5. /\ stack'[n + 1].name = Dependency /\ stack'[n + 1].at = 0
        /\ \A i \in 1..n : stack'[i].name = stack[i].name /\ stack'[i].at = rest[i].at
    BY <1>6, <2>2
  <2>6. \A i \in 1..(n + 1) : i \in 1..n \/ i = n + 1
    BY <1>3
  <2>7. CallsInv'
    <3>1. \A i \in 1..(n + 1) : /\ stack'[i].name \in Loaded /\ stack'[i].name \notin visited
                                /\ stack'[i].at <= Len(Deps(stack'[i].name))
      BY <1>8, <1>13, <2>3, <2>4, <2>5, <2>6
    <3>2. \A i \in 1..n : stack[i].name # Dependency
      BY <1>1, <1>3, <1>13
    <3>3. \A i, j \in 1..(n + 1) : stack'[i].name = stack'[j].name => i = j
      BY <1>8, <2>5, <2>6, <3>2
    <3> QED BY <1>2, <2>2, <2>3, <3>1, <3>3 DEF CallsInv
  <2>8. ChainInv'
    <3> SUFFICES ASSUME NEW i \in 1..n
                 PROVE  stack'[i].at > 0 /\ Deps(stack'[i].name)[stack'[i].at] = stack'[i + 1].name
      BY <1>2, <1>3, <2>2 DEF ChainInv
    <3>1. CASE i = n
      BY SMTT(30), <1>1, <1>3, <1>6, <2>5, <3>1
    <3>2. CASE i # n
      <4>1. i \in 1..(n - 1) /\ i + 1 \in 1..n
        BY <1>3, <3>2
      <4> QED BY <1>6, <1>9, <2>5, <3>2, <4>1
    <3> QED BY <3>1, <3>2
  <2>9. GoneInv'
    <3> SUFFICES ASSUME NEW i \in 1..(n + 1), NEW k \in 1..stack'[i].at
                 PROVE  \/ Deps(stack'[i].name)[k] \in visited
                        \/ i < n + 1 /\ Deps(stack'[i].name)[k] = stack'[i + 1].name
      BY <1>2, <2>2, <2>3 DEF GoneInv
    <3>1. CASE i = n + 1
      BY <2>5, <3>1
    <3>2. CASE i = n
      BY <1>3, <1>6, <1>12, <2>5, <3>2
    <3>3. CASE i \in 1..(n - 1)
      <4>1. i \in 1..n /\ i + 1 \in 1..n /\ i # n /\ i < n + 1
        BY <1>3, <3>3
      <4> QED BY <1>6, <1>9, <2>5, <3>3, <4>1
    <3> QED BY <1>3, <3>1, <3>2, <3>3
  <2>10. SpecsInv'
    <3>1. stack' # <<>> /\ stack'[1].name = stack[1].name
      BY <1>3, <2>2, <2>5
    <3> QED BY <1>1, <1>2, <1>10, <2>3, <3>1 DEF SpecsInv
  <2>11. SortTyped'
    BY <1>1, <2>2 DEF SortInv, SortTyped
  <2> QED BY <1>7, <2>7, <2>8, <2>9, <2>10, <2>11 DEF SortInv
<1>14. CASE Dependency \notin Loaded \ visited
  <2>1. stack' = rest
    BY <1>14 DEF VisitDependency
  <2> HIDE DEF rest, n
  <2>2. Dependency \in visited'
    BY <1>1, <1>14
  <2>3. Len(stack') = n /\ DOMAIN stack' = 1..n
    BY <1>6, <2>1
  <2>4. CallsInv'
    BY <1>2, <1>6, <1>8, <2>1, <2>3 DEF CallsInv
  <2>5. ChainInv'
    <3> SUFFICES ASSUME NEW i \in 1..(n - 1)
                 PROVE  stack'[i].at > 0 /\ Deps(stack'[i].name)[stack'[i].at] = stack'[i + 1].name
      BY <1>2, <2>3 DEF ChainInv
    <3>1. i \in 1..n /\ i + 1 \in 1..n /\ i # n
      BY <1>3
    <3> QED BY <1>6, <1>9, <2>1, <3>1
  <2>6. GoneInv'
    <3> SUFFICES ASSUME NEW i \in 1..n, NEW k \in 1..stack'[i].at
                 PROVE  \/ Deps(stack'[i].name)[k] \in visited'
                        \/ i < n /\ Deps(stack'[i].name)[k] = stack'[i + 1].name
      BY <1>2, <2>3 DEF GoneInv
    <3>1. CASE i = n
      BY <1>3, <1>6, <1>11, <1>12, <2>1, <2>2, <3>1
    <3>2. CASE i # n
      <4>1. i \in 1..(n - 1) /\ i + 1 \in 1..n /\ i < n
        BY <1>3, <3>2
      <4> QED BY <1>6, <1>9, <1>11, <2>1, <3>2, <4>1
    <3> QED BY <3>1, <3>2
  <2>7. SpecsInv'
    <3>1. stack' # <<>> /\ stack'[1].name = stack[1].name
      BY <1>3, <1>6, <2>1, <2>3
    <3> QED BY <1>1, <1>2, <1>10, <1>11, <3>1 DEF SpecsInv
  <2>8. SortTyped'
    BY <1>1, <1>6, <2>1 DEF SortInv, SortTyped
  <2> QED BY <1>7, <2>4, <2>5, <2>6, <2>7, <2>8 DEF SortInv
<1> QED BY <1>13, <1>14

\* The end of a visit: its module goes to the end of the result.
LEMMA EndVisitInv ==
    ASSUME SortInv, EndVisit
    PROVE  SortInv'
<1> DEFINE n == Len(stack)
           top == Top.name
<1>1. /\ stack # <<>> /\ ~(Top.at < Len(Dependencies)) /\ stack' = SubSeq(stack, 1, n - 1)
      /\ manifests' = manifests /\ place' = place
      /\ visited' = visited \cup {top} /\ order' = Append(order, top)
  BY DEF EndVisit, InLoop
<1>2. Loaded' = Loaded /\ (\A m : Needs(m)' = Needs(m)) /\ \A m : Deps(m)' = Deps(m)
  BY <1>1 DEF Loaded, Needs, Deps
<1>3. /\ n \in Nat \ {0} /\ n \in DOMAIN stack /\ DOMAIN stack = 1..n
      /\ Top = stack[n] /\ top \in Nat /\ Top.at \in Nat
      /\ top \in Loaded /\ top \notin visited
      /\ Dependencies = Deps(top) /\ Dependencies \in Seq(Nat)
      /\ Top.at <= Len(Dependencies)
      /\ \A k \in 1..Top.at : Dependencies[k] \in visited
  BY <1>1, TopCall
<1>4. \A k \in DOMAIN Deps(top) : Deps(top)[k] \in visited
  <2>1. Top.at = Len(Dependencies) /\ DOMAIN Dependencies = 1..Len(Dependencies)
    BY <1>1, <1>3
  <2> QED BY <1>3, <2>1
<1>5. stack \in Seq(Calls) /\ order \in Seq(Nat) /\ ToSet(order) = visited \cap Loaded
  BY DEF SortInv, SortTyped
<1>6. /\ stack' \in Seq(Calls) /\ Len(stack') = n - 1 /\ DOMAIN stack' = 1..(n - 1)
      /\ \A i \in 1..(n - 1) : stack'[i] = stack[i]
  <2>1. n - 1 \in Nat /\ n - 1 <= Len(stack)
    BY <1>3
  <2> QED BY <1>1, <1>3, <1>5, <2>1
<1>7. /\ order' \in Seq(Nat) /\ Len(order') = Len(order) + 1
      /\ DOMAIN order' = 1..(Len(order) + 1) /\ order'[Len(order) + 1] = top
      /\ \A i \in 1..Len(order) : order'[i] = order[i]
  BY <1>1, <1>3, <1>5, Appended
<1>8. DOMAIN order = 1..Len(order) /\ Len(order) \in Nat
  BY <1>5
<1> HIDE DEF n
<1>9. \A i \in 1..(Len(order) + 1) : i \in 1..Len(order) \/ i = Len(order) + 1
  BY <1>8
<1>10. \A i \in 1..Len(order) : order[i] \in ToSet(order)
  BY <1>8 DEF ToSet
<1>11. \A d \in ToSet(order) : \E i \in 1..Len(order) : order[i] = d
  BY <1>8 DEF ToSet
<1>12. ToSet(order') = ToSet(order) \cup {top}
  <2>1. \A d \in ToSet(order') : d \in ToSet(order) \/ d = top
    BY <1>7, <1>9, <1>10 DEF ToSet
  <2>2. \A d \in ToSet(order) : d \in ToSet(order')
    BY <1>7, <1>8, <1>11 DEF ToSet
  <2>3. top \in ToSet(order')
    BY <1>7, <1>8 DEF ToSet
  <2> QED BY <2>1, <2>2, <2>3
<1>13. ToSet(order)' = visited' \cap Loaded'
  BY <1>1, <1>2, <1>3, <1>5, <1>12
<1>14. InOrder'
  <2>1. \A i \in 1..Len(order) : order[i] # top
    BY <1>3, <1>5, <1>10
  <2>2. \A i, j \in 1..Len(order) : order[i] = order[j] => i = j
    BY <1>8 DEF SortInv, InOrder, IsInjective
  <2>3. \A i, j \in 1..(Len(order) + 1) : order'[i] = order'[j] => i = j
    BY <1>7, <1>9, <2>1, <2>2
  <2>4. IsInjective(order')
    BY <1>7, <2>3 DEF IsInjective
  <2>5. ASSUME NEW j \in 1..(Len(order) + 1), NEW d \in Needs(order'[j])
        PROVE  \E i \in 1..(j - 1) : order'[i] = d
    <3>1. CASE j \in 1..Len(order)
      <4>1. PICK i \in 1..(j - 1) : order[i] = d
        BY <1>7, <1>8, <2>5, <3>1 DEF SortInv, InOrder
      <4>2. i \in 1..Len(order)
        BY <1>8, <3>1, <4>1
      <4> QED BY <1>7, <4>1, <4>2
    <3>2. CASE j = Len(order) + 1
      <4>1. d \in ToSet(Deps(top)) /\ d \in Loaded
        BY <1>7, <2>5, <3>2 DEF Needs, Deps
      <4>2. d \in visited
        BY <1>4, <4>1 DEF ToSet
      <4>3. PICK i \in 1..Len(order) : order[i] = d
        BY <1>5, <1>11, <4>1, <4>2
      <4>4. i \in 1..(j - 1)
        BY <1>8, <3>2, <4>3
      <4> QED BY <1>7, <4>3, <4>4
    <3> QED BY <1>9, <3>1, <3>2
  <2> QED BY <1>2, <1>7, <2>4, <2>5 DEF InOrder
<1>15. \A i \in 1..(n - 1) : i \in 1..n /\ i # n /\ i + 1 \in 1..n
  BY <1>3
<1>16. CallsInv'
  <2>1. /\ \A i \in 1..n : /\ stack[i].name \in Loaded /\ stack[i].name \notin visited
                           /\ stack[i].at <= Len(Deps(stack[i].name))
        /\ \A i, j \in 1..n : stack[i].name = stack[j].name => i = j
    BY <1>3 DEF SortInv, CallsInv
  <2>2. \A i \in 1..(n - 1) : stack[i].name # top
    BY <1>3, <1>15, <2>1
  <2>3. \A i \in 1..(n - 1) : /\ stack'[i].name \in Loaded /\ stack'[i].name \notin visited'
                              /\ stack'[i].at <= Len(Deps(stack'[i].name))
    BY <1>1, <1>6, <1>15, <2>1, <2>2
  <2>4. \A i, j \in 1..(n - 1) : stack'[i].name = stack'[j].name => i = j
    BY <1>6, <1>15, <2>1
  <2> QED BY <1>2, <1>6, <2>3, <2>4 DEF CallsInv
<1>17. ChainInv'
  <2> SUFFICES ASSUME NEW i \in 1..((n - 1) - 1)
               PROVE  stack'[i].at > 0 /\ Deps(stack'[i].name)[stack'[i].at] = stack'[i + 1].name
    BY <1>2, <1>6 DEF ChainInv
  <2>1. i \in 1..(n - 1) /\ i + 1 \in 1..(n - 1)
    BY <1>3
  <2>2. stack[i].at > 0 /\ Deps(stack[i].name)[stack[i].at] = stack[i + 1].name
    BY <2>1 DEF SortInv, ChainInv, n
  <2> QED BY <1>6, <2>1, <2>2
<1>18. GoneInv'
  <2> SUFFICES ASSUME NEW i \in 1..(n - 1), NEW k \in 1..stack'[i].at
               PROVE  \/ Deps(stack'[i].name)[k] \in visited'
                      \/ i < n - 1 /\ Deps(stack'[i].name)[k] = stack'[i + 1].name
    BY <1>2, <1>6 DEF GoneInv
  <2>1. i \in 1..n /\ stack'[i] = stack[i] /\ k \in 1..stack[i].at
    BY <1>6, <1>15
  <2>2. \/ Deps(stack[i].name)[k] \in visited
        \/ Deps(stack[i].name)[k] = stack[i + 1].name
    BY <1>3, <2>1 DEF SortInv, GoneInv
  <2>3. CASE i = n - 1
    <3>1. stack[i + 1].name = top
      BY <1>3, <2>3
    <3> QED BY <1>1, <2>1, <2>2, <3>1
  <2>4. CASE i # n - 1
    <3>1. i < n - 1 /\ i + 1 \in 1..(n - 1)
      BY <1>3, <2>4
    <3>2. stack'[i + 1] = stack[i + 1]
      BY <1>6, <3>1
    <3> QED BY <1>1, <2>1, <2>2, <3>1, <3>2
  <2> QED BY <2>3, <2>4
<1>19. SpecsInv'
  <2> SUFFICES ASSUME NEW m \in Loaded, m <= place, m \notin visited \cup {top}
               PROVE  stack' # <<>> /\ m = stack'[1].name
    BY <1>1, <1>2 DEF SpecsInv
  <2>1. m = stack[1].name
    BY DEF SortInv, SpecsInv
  <2>2. n # 1
    BY <1>3, <2>1
  <2>3. 1 \in 1..(n - 1)
    BY <1>3, <2>2
  <2> QED BY <1>6, <2>1, <2>3
<1>20. SortTyped'
  BY <1>1, <1>6, <1>7 DEF SortInv, SortTyped
<1> QED BY <1>13, <1>14, <1>16, <1>17, <1>18, <1>19, <1>20 DEF SortInv

\* A module that is found again below itself closes a circle: the calls from
\* there on depend on each other.
LEMMA CircleIsReal ==
    ASSUME SortInv, CircleFound
    PROVE  Cyclic
<1> DEFINE n == Len(stack)
<1>1. stack # <<>> /\ Top.at < Len(Dependencies) /\ Dependency = Dependencies[Top.at + 1]
      /\ \E i \in DOMAIN stack : stack[i].name = Dependency
  BY DEF CircleFound, InLoop, Dependency, Path
<1>2. /\ n \in Nat \ {0} /\ DOMAIN stack = 1..n /\ Top = stack[n] /\ Top.at \in Nat
      /\ Dependencies = Deps(Top.name) /\ Dependencies \in Seq(Nat)
  BY <1>1, TopCall
<1>3. PICK s \in 1..n : stack[s].name = Dependency
  BY <1>1, <1>2
<1> DEFINE C == {stack[i].name : i \in s..n}
<1>4. \A i \in 1..n : stack[i].name \in Loaded
  BY <1>2 DEF SortInv, CallsInv
<1>5. \A i \in 1..(n - 1) :
         Deps(stack[i].name) \in Seq(Nat) /\ stack[i].at \in 1..Len(Deps(stack[i].name))
         /\ Deps(stack[i].name)[stack[i].at] = stack[i + 1].name
  <2> SUFFICES ASSUME NEW i \in 1..(n - 1)
               PROVE  Deps(stack[i].name) \in Seq(Nat) /\ stack[i].at \in 1..Len(Deps(stack[i].name))
                      /\ Deps(stack[i].name)[stack[i].at] = stack[i + 1].name
    OBVIOUS
  <2>1. i \in 1..n
    BY <1>2
  <2>2. stack[i] \in Calls
    BY <1>2, <2>1, ElementOf DEF SortInv, SortTyped
  <2>3. stack[i].at \in Nat
    BY <2>2 DEF Calls
  <2>4. Deps(stack[i].name) \in Seq(Nat)
    BY <1>4, <2>1, DepsTyped DEF SortInv, SortTyped
  <2>5. stack[i].at > 0 /\ Deps(stack[i].name)[stack[i].at] = stack[i + 1].name
    BY DEF SortInv, ChainInv
  <2>6. stack[i].at <= Len(Deps(stack[i].name))
    BY <1>2, <2>1 DEF SortInv, CallsInv
  <2> HIDE DEF n
  <2> QED BY <2>3, <2>4, <2>5, <2>6
<1> HIDE DEF n
<1>6. \A i \in 1..(n - 1) : stack[i + 1].name \in Needs(stack[i].name)
  <2> SUFFICES ASSUME NEW i \in 1..(n - 1) PROVE stack[i + 1].name \in Needs(stack[i].name)
    OBVIOUS
  <2>1. i + 1 \in 1..n
    BY <1>2
  <2>2. stack[i].at \in DOMAIN Deps(stack[i].name)
    BY <1>5
  <2>3. stack[i + 1].name \in ToSet(Deps(stack[i].name))
    BY <1>5, <2>2 DEF ToSet
  <2> QED BY <1>4, <2>1, <2>3 DEF Needs, Deps
<1>7. Dependency \in Needs(stack[n].name)
  <2>1. Top.at + 1 \in DOMAIN Dependencies
    BY <1>1, <1>2
  <2>2. Dependency \in ToSet(Deps(stack[n].name))
    BY <1>1, <1>2, <2>1 DEF ToSet
  <2> QED BY <1>3, <1>4, <2>2 DEF Needs, Deps
<1>8. Dependency \in C
  <2>1. s \in s..n
    BY <1>2, <1>3
  <2> QED BY <1>3, <2>1
<1>9. C \in SUBSET Loaded
  <2>1. \A i \in s..n : i \in 1..n
    BY <1>2, <1>3
  <2> QED BY <1>4, <2>1
<1>10. ASSUME NEW m \in C PROVE Needs(m) \cap C # {}
  <2>1. PICK i \in s..n : m = stack[i].name
    OBVIOUS
  <2>2. CASE i = n
    BY <1>7, <1>8, <2>1, <2>2
  <2>3. CASE i # n
    <3>1. i \in 1..(n - 1) /\ i + 1 \in s..n
      BY <1>2, <1>3, <2>1, <2>3
    <3>2. stack[i + 1].name \in C
      BY <3>1
    <3> QED BY <1>6, <2>1, <3>1, <3>2
  <2> QED BY <2>2, <2>3
<1> HIDE DEF C
<1> QED BY <1>8, <1>9, <1>10 DEF Cyclic

\* Modules in an order that follows their dependencies have no circle: the first
\* of a circle would need one before it.
LEMMA SortedAcyclic ==
    ASSUME Sorted
    PROVE  ~Cyclic
<1> SUFFICES ASSUME NEW C \in SUBSET Loaded, C # {}, \A m \in C : Needs(m) \cap C # {}
             PROVE  FALSE
  BY DEF Cyclic
<1>1. order \in Seq(Nat) /\ ToSet(order) = Loaded /\ DOMAIN order = 1..Len(order) /\ Len(order) \in Nat
  BY DEF Sorted
<1> DEFINE P == {i \in 1..Len(order) : order[i] \in C}
<1>2. P \in SUBSET Nat
  BY <1>1
<1>3. P # {}
  <2>1. PICK m \in C : m \in ToSet(order)
    BY <1>1
  <2> QED BY <1>1, <2>1 DEF ToSet
<1> HIDE DEF P
<1>4. PICK p \in P : \A y \in P : ~(<<y, p>> \in OpToRel(<, Nat))
  BY <1>2, <1>3, NatLessThanWellFounded, WFMin
<1>5. \A y \in P : ~(y < p)
  BY <1>2, <1>4 DEF OpToRel
<1>6. p \in 1..Len(order) /\ order[p] \in C
  BY DEF P
<1>7. PICK d \in C : d \in Needs(order[p])
  BY <1>6
<1>8. PICK i \in 1..(p - 1) : order[i] = d
  BY <1>1, <1>6, <1>7 DEF Sorted, InOrder
<1>9. i \in 1..Len(order) /\ i < p
  BY <1>1, <1>6, <1>8
<1>10. i \in P
  BY <1>7, <1>8, <1>9 DEF P
<1> QED BY <1>5, <1>9, <1>10

\* When the loop over specs has ended, the result has every loaded module.
LEMMA SortedAtEnd ==
    ASSUME SortInv, SortDone
    PROVE  Sorted
<1>1. /\ manifests \in Seq(Manifest) /\ order \in Seq(Nat) /\ InOrder
      /\ ToSet(order) = visited \cap Loaded
  BY DEF SortInv, SortTyped
<1>2. \A m \in Loaded : m <= place
  BY <1>1 DEF Loaded, SortDone
<1>3. Loaded \subseteq visited
  BY <1>2 DEF SortInv, SpecsInv, SortDone
<1> QED BY <1>1, <1>3 DEF Sorted

-----------------------------------------------------------------------------

\* Discovery starts with nothing visited.
LEMMA ModulesInit == Init => ModulesInv
<1> SUFFICES ASSUME Init PROVE ModulesInv
  OBVIOUS
<1>1. /\ pc = "load" /\ redis = "none" /\ started = <<>> /\ stopped = <<>>
      /\ place = 0 /\ stack = <<>> /\ visited = {} /\ order = <<>> /\ manifests \in Seq(Manifest)
  BY ManifestAssumption DEF Init, SortInit
<1>2. SortTyped
  BY <1>1 DEF SortTyped
<1>3. CallsInv /\ ChainInv /\ GoneInv
  BY <1>1 DEF CallsInv, ChainInv, GoneInv
<1>4. InOrder
  BY <1>1 DEF InOrder, IsInjective
<1>5. SpecsInv
  BY <1>1 DEF SpecsInv, Loaded
<1>6. ToSet(order) = visited \cap Loaded
  BY <1>1 DEF ToSet
<1> QED BY <1>1, <1>2, <1>3, <1>4, <1>5, <1>6 DEF ModulesInv, SortInv

\* The facts about the order do not change with anything else.
LEMMA SortedStays ==
    ASSUME UNCHANGED <<manifests, sort>>
    PROVE  /\ Sorted => Sorted'
           /\ Cyclic <=> Cyclic'
           /\ SortInv => SortInv'
<1>1. UNCHANGED <<manifests, place, stack, visited, order>>
  BY DEF sort
<1>2. Loaded' = Loaded /\ \A m : Needs(m)' = Needs(m) /\ Deps(m)' = Deps(m)
  BY <1>1 DEF Loaded, Needs, Deps
<1>3. Sorted => Sorted'
  BY <1>1, <1>2 DEF Sorted, InOrder
<1>4. Cyclic <=> Cyclic'
  BY <1>2 DEF Cyclic
<1>5. SortInv => SortInv'
  BY SMTT(30), <1>1, <1>2 DEF SortInv, SortTyped, CallsInv, ChainInv, GoneInv, InOrder, SpecsInv
<1> QED BY <1>3, <1>4, <1>5

\* A step that runs no hook and leaves the modules alone.
LEMMA QuietInv ==
    ASSUME ModulesInv, UNCHANGED <<manifests, sort, started, stopped>>,
           \/ pc' = pc /\ redis' = redis
           \/ pc \notin {"load"} /\ pc' \notin {"load", "redis", "serve"} /\ redis' # "none"
              /\ (pc = "failed" => redis' = redis)
    PROVE  ModulesInv'
<1>1. HooksInv => HooksInv'
  BY DEF HooksInv, sort
<1>2. pc' = "serve" => Len(started') = Len(order')
  BY DEF ModulesInv, sort
<1>3. pc' = "load" => SortInv' /\ started' = <<>> /\ stopped' = <<>>
  BY SortedStays DEF ModulesInv
<1>4. pc' \in {"load", "redis"} => redis' = "none"
  BY DEF ModulesInv
<1>5. pc' # "load" => \/ Sorted' /\ HooksInv' /\ (pc' # "redis" => redis' # "none")
                      \/ /\ pc' = "failed" /\ Cyclic' /\ redis' = "none"
                         /\ started' = <<>> /\ stopped' = <<>>
  BY <1>1, SortedStays DEF ModulesInv
<1> QED BY <1>2, <1>3, <1>4, <1>5 DEF ModulesInv

\* Discovery either goes on, ends with a sorted list, or has found a circle.
LEMMA LoadInv ==
    ASSUME ModulesInv, LoadSpecs \/ SpecsLoaded \/ LoadFails
    PROVE  ModulesInv'
<1>1. /\ SortInv /\ started = <<>> /\ stopped = <<>> /\ redis = "none"
      /\ redis' = redis /\ started' = started /\ stopped' = stopped
  BY DEF ModulesInv, LoadSpecs, SpecsLoaded, LoadFails, Goto, shell
<1>2. CASE LoadSpecs
  <2>1. SortInv' /\ pc' = "load"
    BY <1>1, <1>2, VisitSpecInv, VisitDependencyInv, EndVisitInv DEF LoadSpecs, Goto
  <2> QED BY <1>1, <2>1 DEF ModulesInv
<1>3. CASE SpecsLoaded
  <2>1. pc' = "redis" /\ SortDone /\ UNCHANGED <<manifests, sort>>
    BY <1>3 DEF SpecsLoaded, Goto, shell
  <2>2. Sorted'
    BY <1>1, <2>1, SortedAtEnd, SortedStays
  <2>3. HooksInv'
    BY <1>1, <2>2 DEF HooksInv, Sorted
  <2> QED BY <1>1, <2>1, <2>2, <2>3 DEF ModulesInv
<1>4. CASE LoadFails
  <2>1. pc' = "failed" /\ CircleFound /\ UNCHANGED <<manifests, sort>>
    BY <1>4 DEF LoadFails, Goto, shell
  <2>2. Cyclic'
    BY <1>1, <2>1, CircleIsReal, SortedStays
  <2> QED BY <1>1, <2>1, <2>2 DEF ModulesInv
<1> QED BY <1>2, <1>3, <1>4

\* The next startup hook is that of the next module in the order.
LEMMA StartupInv ==
    ASSUME ModulesInv, StartupHook
    PROVE  ModulesInv'
<1>1. /\ pc = "hooks" /\ Len(started) < Len(order) /\ redis' = redis /\ stopped' = stopped
      /\ UNCHANGED <<manifests, sort>> /\ order' = order
  BY DEF StartupHook, sort
<1>2. Sorted /\ HooksInv /\ redis # "none"
  BY <1>1 DEF ModulesInv
<1>3. Sorted'
  BY <1>1, <1>2, SortedStays
<1>4. CASE pc' = pc /\ started' = Append(started, order[Len(started) + 1])
  <2>1. started \in Seq(Nat) /\ order \in Seq(Nat) /\ Len(started) \in Nat
    BY <1>2 DEF HooksInv, Sorted
  <2>2. order[Len(started) + 1] \in Nat
    BY <1>1, <2>1
  <2>3. /\ started' \in Seq(Nat) /\ Len(started') = Len(started) + 1
        /\ started'[Len(started) + 1] = order[Len(started) + 1]
        /\ \A i \in 1..Len(started) : started'[i] = started[i]
    BY <1>4, <2>1, <2>2, Appended
  <2>4. ASSUME NEW i \in 1..Len(started') PROVE started'[i] = order[i]
    <3>1. i \in 1..Len(started) \/ i = Len(started) + 1
      BY <2>1, <2>3
    <3> QED BY <1>2, <2>3, <3>1 DEF HooksInv
  <2>5. Len(started') <= Len(order)
    BY <1>1, <2>1, <2>3
  <2>6. HooksInv'
    BY <1>1, <1>2, <2>3, <2>4, <2>5 DEF HooksInv
  <2> QED BY <1>1, <1>2, <1>3, <1>4, <2>6 DEF ModulesInv
<1>5. CASE pc' = "failed" /\ started' = started
  <2>1. HooksInv'
    BY <1>1, <1>2, <1>5 DEF HooksInv
  <2> QED BY <1>1, <1>2, <1>3, <1>5, <2>1 DEF ModulesInv
<1> QED BY <1>4, <1>5 DEF StartupHook

\* The next shutdown hook is that of the previous module in the order.
LEMMA ShutdownInv ==
    ASSUME ModulesInv, ShutdownHook
    PROVE  ModulesInv'
<1>1. /\ pc = "unhook" /\ Len(stopped) < Len(order) /\ redis' = redis /\ started' = started
      /\ UNCHANGED <<manifests, sort>> /\ order' = order
  BY DEF ShutdownHook, sort
<1>2. Sorted /\ HooksInv /\ redis # "none"
  BY <1>1 DEF ModulesInv
<1>3. Sorted'
  BY <1>1, <1>2, SortedStays
<1>4. CASE pc' = pc /\ stopped' = Append(stopped, order[Len(order) - Len(stopped)])
  <2>1. /\ stopped \in Seq(Nat) /\ order \in Seq(Nat) /\ Len(stopped) \in Nat /\ Len(order) \in Nat
    BY <1>2 DEF HooksInv, Sorted
  <2>2. Len(order) - Len(stopped) \in 1..Len(order)
    BY <1>1, <2>1
  <2>3. order[Len(order) - Len(stopped)] \in Nat
    BY <2>1, <2>2
  <2>4. /\ stopped' \in Seq(Nat) /\ Len(stopped') = Len(stopped) + 1
        /\ stopped'[Len(stopped) + 1] = order[Len(order) - Len(stopped)]
        /\ \A i \in 1..Len(stopped) : stopped'[i] = stopped[i]
    BY <1>4, <2>1, <2>3, Appended
  <2>5. ASSUME NEW i \in 1..Len(stopped') PROVE stopped'[i] = order[Len(order) + 1 - i]
    <3>1. CASE i \in 1..Len(stopped)
      BY <1>2, <2>4, <3>1 DEF HooksInv
    <3>2. CASE i = Len(stopped) + 1
      <4>1. Len(order) + 1 - i = Len(order) - Len(stopped)
        BY <2>1, <3>2
      <4> QED BY <2>4, <3>2, <4>1
    <3> QED BY <2>1, <2>4, <3>1, <3>2
  <2>6. Len(stopped') <= Len(order)
    BY <1>1, <2>1, <2>4
  <2>7. HooksInv'
    BY <1>1, <1>2, <2>4, <2>5, <2>6 DEF HooksInv
  <2> QED BY <1>1, <1>2, <1>3, <1>4, <2>7 DEF ModulesInv
<1>5. CASE pc' = "broken" /\ stopped' = stopped
  <2>1. HooksInv'
    BY <1>1, <1>2, <1>5 DEF HooksInv
  <2> QED BY <1>1, <1>2, <1>3, <1>5, <2>1 DEF ModulesInv
<1> QED BY <1>4, <1>5 DEF ShutdownHook

\* Serving begins when every hook has run.
LEMMA ServeInv ==
    ASSUME ModulesInv, Serve
    PROVE  ModulesInv'
<1>1. /\ pc = "hooks" /\ pc' = "serve" /\ Len(started) = Len(order) /\ redis' = redis
      /\ UNCHANGED <<manifests, sort>> /\ order' = order /\ started' = started /\ stopped' = stopped
  BY DEF Serve, Goto, shell, sort
<1>2. Sorted /\ HooksInv /\ redis # "none"
  BY <1>1 DEF ModulesInv
<1>3. Sorted' /\ HooksInv'
  BY <1>1, <1>2, SortedStays DEF HooksInv
<1> QED BY <1>1, <1>2, <1>3 DEF ModulesInv

\* Every step keeps the invariant; LifeInv says that Redis stays in use.
LEMMA ModulesInductive == LifeInv /\ ModulesInv /\ [Next]_vars => ModulesInv'
<1> SUFFICES ASSUME LifeInv, ModulesInv, [Next]_vars PROVE ModulesInv'
  OBVIOUS
<1>1. CASE UNCHANGED <<pc, shell>>
  BY <1>1, QuietInv DEF shell
<1>2. CASE Main
  <2>1. pc \in Middle \cup Late => redis = "open"
    BY DEF LifeInv, ClientsInv
  <2>2. CASE InitRedis
    <3>1. /\ pc = "redis" /\ pc' \in {"audit", "failed"} /\ redis' = "open"
          /\ UNCHANGED <<manifests, sort, started, stopped>>
      BY <2>2 DEF InitRedis
    <3> QED BY <3>1, QuietInv
  <2>3. CASE \/ StartQueue \/ LoadConfig \/ CreateListener \/ LoadModuleConfigs
             \/ RunEventHandlers \/ RegisterServices \/ SyncResources \/ SyncRefused \/ SyncMethods
    <3>1. pc \in Middle /\ pc' \notin {"load", "redis", "serve"} /\ pc \notin {"load", "failed"}
          /\ UNCHANGED shell
      BY <2>3 DEF StartQueue, LoadConfig, CreateListener, LoadModuleConfigs, RunEventHandlers,
                  RegisterServices, SyncResources, SyncRefused, SyncMethods, Goto, Middle
    <3>2. UNCHANGED <<manifests, sort, started, stopped>> /\ redis' = redis /\ redis = "open"
      BY <2>1, <3>1 DEF shell
    <3> QED BY <3>1, <3>2, QuietInv
  <2>4. CASE BeginShutdown \/ StopSync \/ StopQueue \/ JoinQueue
    <3>1. pc \in Middle \cup Late /\ pc' \notin {"load", "redis", "serve"}
          /\ pc \notin {"load", "failed"} /\ UNCHANGED shell
      BY <2>4 DEF BeginShutdown, StopSync, StopQueue, JoinQueue, Goto, Middle, Late
    <3>2. UNCHANGED <<manifests, sort, started, stopped>> /\ redis' = redis /\ redis = "open"
      BY <2>1, <3>1 DEF shell
    <3> QED BY <3>1, <3>2, QuietInv
  <2>5. CASE InitHttp \/ CloseHttp
    <3>1. pc \in Middle \cup Late /\ pc' \notin {"load", "redis", "serve"}
          /\ pc \notin {"load", "failed"} /\ UNCHANGED <<manifests, sort, started, stopped, redis>>
      BY <2>5 DEF InitHttp, CloseHttp, Goto, Middle, Late
    <3>2. redis' = redis /\ redis = "open"
      BY <2>1, <3>1
    <3> QED BY <3>1, <3>2, QuietInv
  <2>6. CASE CloseRedis
    <3>1. /\ pc = "unredis" /\ pc' = "stopped" /\ redis' = "closed"
          /\ UNCHANGED <<manifests, sort, started, stopped>>
      BY <2>6 DEF CloseRedis, Goto
    <3> QED BY <3>1, QuietInv
  <2> QED BY <1>2, <2>2, <2>3, <2>4, <2>5, <2>6, LoadInv, StartupInv, ShutdownInv, ServeInv DEF Main
<1> QED BY <1>1, <1>2 DEF Next, vars

\* A list that runs along the order has its modules after what they need.
LEMMA StartsInOrder ==
    ASSUME Sorted, HooksInv, NEW m \in ToSet(started), NEW d \in Needs(m)
    PROVE  Before(started, d, m)
<1>1. started \in Seq(Nat) /\ order \in Seq(Nat) /\ Len(started) <= Len(order)
  BY DEF Sorted, HooksInv
<1>2. DOMAIN started = 1..Len(started) /\ DOMAIN order = 1..Len(order) /\ Len(started) \in Nat
      /\ Len(order) \in Nat
  BY <1>1
<1>3. PICK j \in 1..Len(started) : started[j] = m
  BY <1>2 DEF ToSet
<1>4. j \in DOMAIN order /\ order[j] = m
  BY <1>1, <1>2, <1>3 DEF HooksInv
<1>5. PICK i \in 1..(j - 1) : order[i] = d
  BY <1>4 DEF Sorted, InOrder
<1>6. i \in 1..Len(started) /\ i < j
  BY <1>2, <1>3, <1>5
<1>7. started[i] = d
  BY <1>5, <1>6 DEF HooksInv
<1> QED BY <1>2, <1>3, <1>6, <1>7 DEF Before

\* A list that runs back along the order has its modules before what they need.
LEMMA StopsInOrder ==
    ASSUME Sorted, HooksInv, NEW m \in Loaded, NEW d \in Needs(m), d \in ToSet(stopped)
    PROVE  Before(stopped, m, d)
<1> DEFINE n == Len(order)
<1>1. stopped \in Seq(Nat) /\ order \in Seq(Nat) /\ Len(stopped) <= n /\ ToSet(order) = Loaded
  BY DEF Sorted, HooksInv
<1>2. DOMAIN stopped = 1..Len(stopped) /\ DOMAIN order = 1..n /\ Len(stopped) \in Nat /\ n \in Nat
  BY <1>1
<1>3. PICK j \in 1..Len(stopped) : stopped[j] = d
  BY <1>2 DEF ToSet
<1>4. n + 1 - j \in 1..n /\ order[n + 1 - j] = d
  BY <1>1, <1>2, <1>3 DEF HooksInv
<1>5. PICK q \in 1..n : order[q] = m
  BY <1>1, <1>2 DEF ToSet
<1>6. PICK i \in 1..(q - 1) : order[i] = d
  BY <1>2, <1>5 DEF Sorted, InOrder
<1>7. i \in 1..n /\ i < q
  BY <1>2, <1>5, <1>6
<1>8. i = n + 1 - j
  <2>1. \A u, v \in 1..n : order[u] = order[v] => u = v
    BY <1>2 DEF Sorted, InOrder, IsInjective
  <2> QED BY <1>4, <1>6, <1>7, <2>1
<1>9. n + 1 - q \in 1..Len(stopped) /\ n + 1 - q < j /\ n + 1 - (n + 1 - q) = q
  <2> DEFINE k == Len(stopped)
  <2>1. n \in Nat /\ k \in Nat /\ k <= n /\ j \in 1..k /\ q \in 1..n /\ i < q /\ i = n + 1 - j
    BY <1>1, <1>2, <1>3, <1>5, <1>7, <1>8
  <2> HIDE DEF n, k
  <2>2. n + 1 - q \in 1..k /\ n + 1 - q < j /\ n + 1 - (n + 1 - q) = q
    BY <2>1
  <2> QED BY <2>2 DEF k
<1>10. stopped[n + 1 - q] = m
  BY <1>5, <1>9 DEF HooksInv
<1> QED BY <1>2, <1>3, <1>9, <1>10 DEF Before

\* Startup hooks run after those of every loaded module a module depends on,
\* shutdown hooks before them; a serving process has started every loaded module
\* once; and discovery (app/platform/module/discovery.py) raises exactly for
\* manifests that depend on each other in a circle, however many modules there
\* are, whichever are disabled or missing and in whatever order they are named.
THEOREM HooksFollowDependencies == Spec => []HooksInOrder
<1>1. LifeInv /\ ModulesInv => HooksInOrder
  <2> SUFFICES ASSUME LifeInv, ModulesInv PROVE HooksInOrder
    OBVIOUS
  <2>1. CASE /\ pc \in {"load", "failed"} /\ redis = "none" /\ started = <<>> /\ stopped = <<>>
             /\ pc = "failed" => Cyclic
    <3>1. ToSet(<<>>) = {}
      BY DEF ToSet
    <3> QED BY <2>1, <3>1 DEF HooksInOrder
  <2>2. CASE Sorted /\ HooksInv /\ (pc # "redis" => redis # "none")
    <3>1. ~Cyclic
      BY <2>2, SortedAcyclic
    <3>2. started \in Seq(Nat) /\ stopped \in Seq(Nat) /\ order \in Seq(Nat)
      BY <2>2 DEF HooksInv, Sorted
    <3>3. \A m \in ToSet(stopped) : m \in Loaded
      <4>1. ASSUME NEW j \in 1..Len(stopped) PROVE stopped[j] \in Loaded
        <5>1. Len(order) + 1 - j \in DOMAIN order /\ stopped[j] = order[Len(order) + 1 - j]
          BY <2>2, <3>2 DEF HooksInv
        <5> QED BY <2>2, <5>1 DEF Sorted, ToSet
      <4>2. DOMAIN stopped = 1..Len(stopped)
        BY <3>2
      <4> QED BY <4>1, <4>2 DEF ToSet
    <3>4. pc = "serve" => IsInjective(started) /\ ToSet(started) = Loaded
      <4> SUFFICES ASSUME pc = "serve" PROVE IsInjective(started) /\ ToSet(started) = Loaded
        OBVIOUS
      <4>1. Len(started) = Len(order) /\ \A i \in 1..Len(started) : started[i] = order[i]
        BY <2>2 DEF ModulesInv, HooksInv
      <4>2. /\ DOMAIN started = DOMAIN order /\ DOMAIN order = 1..Len(order)
            /\ \A i \in DOMAIN order : started[i] = order[i]
        BY <3>2, <4>1
      <4>3. IsInjective(started)
        BY <2>2, <4>2 DEF Sorted, InOrder, IsInjective
      <4>4. ToSet(started) = ToSet(order)
        BY <4>2 DEF ToSet
      <4> QED BY <2>2, <4>3, <4>4 DEF Sorted
    <3>5. \A m \in ToSet(started) : \A d \in Needs(m) : Before(started, d, m)
      BY <2>2, StartsInOrder
    <3>6. \A m \in Loaded, d \in Loaded :
             d \in Needs(m) /\ d \in ToSet(stopped) => Before(stopped, m, d)
      BY <2>2, StopsInOrder
    <3> QED BY <2>2, <3>1, <3>3, <3>4, <3>5, <3>6 DEF HooksInOrder
  <2> QED BY <2>1, <2>2 DEF ModulesInv
<1> QED BY LifeInit, LifeInductive, ModulesInit, ModulesInductive, <1>1, PTL DEF Spec
=============================================================================
