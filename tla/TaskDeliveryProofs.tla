------------------------- MODULE TaskDeliveryProofs -------------------------
(***************************************************************************)
(* Proofs about TaskDelivery, for any tasks, any finite set of slots and   *)
(* any number of retries, time-outs and crashes.                           *)
(***************************************************************************)
EXTENDS TaskDelivery, FiniteSetTheorems, FunctionTheorems, TLAPS

\* queues hold messages, slots hold jobs, counters count
TypeInv ==
    /\ valid \in [Tasks -> BOOLEAN]
    /\ queue \in Seq(Messages)
    /\ job \in [Slots -> Jobs \cup {None}]
    /\ orphans \in Seq(Messages)
    /\ up \subseteq Slots
    /\ sent \subseteq Tasks
    /\ answers \in [Tasks -> Nat]
    /\ final \in [Tasks -> {None, "SUCCESS", "FAILURE"}]
    /\ timeouts \in Nat /\ crashes \in Nat
    /\ raises \in [Tasks -> Nat]
    /\ extra \in [Tasks -> Nat]

LEMMA InitType == Init => TypeInv
BY DeliveryAssumption DEF Init, TypeInv

\* The first message of a queue and the rest of it.
LEMMA HeadAndTail ==
    ASSUME NEW q \in Seq(Messages), q # <<>>
    PROVE  Head(q) \in Messages /\ Tail(q) \in Seq(Messages)
OBVIOUS

LEMMA DeliverType == ASSUME TypeInv, NEW s \in Slots, Deliver(s) PROVE TypeInv'
<1>1. Head(queue) \in Messages /\ Tail(queue) \in Seq(Messages)
  BY HeadAndTail DEF TypeInv, Deliver
<1>2. \A stage \in Stages : Job(Head(queue), stage) \in Jobs
  BY <1>1 DEF Job, Jobs, Messages
<1>3. PICK j \in Jobs : job' = [job EXCEPT ![s] = j]
  BY <1>2 DEF Deliver, Stages
<1>4. QED
  BY <1>1, <1>3 DEF TypeInv, Deliver, results, faults, history

\* A job in another stage, or whose delivery was repeated, is a job.
LEMMA JobUpdate ==
    ASSUME NEW j \in Jobs
    PROVE  /\ \A stage \in Stages : [j EXCEPT !.stage = stage] \in Jobs
           /\ [j EXCEPT !.redelivered = TRUE] \in Jobs
           /\ \A r \in 0..MaxRetries : Message(j.task, r) \in Messages
           /\ Message(j.task, j.retries) \in Messages
           /\ j.task \in Tasks /\ j.retries \in 0..MaxRetries /\ j.stage \in Stages
BY DEF Jobs, Message, Messages

LEMMA WorkType ==
    ASSUME TypeInv, NEW s \in Slots,
           Judged(s) \/ Return(s) \/ Retry(s) \/ GiveUp(s) \/ Ack(s)
    PROVE  TypeInv'
<1>0. /\ job[s] \in Jobs /\ job[s].task \in Tasks
      /\ job[s].retries \in 0..MaxRetries /\ MaxRetries \in Nat
  BY DeliveryAssumption DEF TypeInv, Judged, Return, Retry, GiveUp, Ack, Jobs
<1>1. CASE Judged(s)
  <2>1. PICK stage \in ResultOut :
           /\ job' = [job EXCEPT ![s].stage = stage]
           /\ raises' = [raises EXCEPT ![job[s].task] = IF stage = "raised" THEN @ + 1 ELSE @]
    BY <1>1 DEF Judged
  <2>2. [job[s] EXCEPT !.stage = stage] \in Jobs
    BY <1>0, JobUpdate DEF ResultOut, Stages
  <2>3. job' \in [Slots -> Jobs \cup {None}]
    BY <2>1, <2>2 DEF TypeInv
  <2>4. raises' \in [Tasks -> Nat]
    BY <1>0, <2>1 DEF TypeInv
  <2>5. QED
    BY <1>1, <2>3, <2>4 DEF TypeInv, Judged, broker, results, faults
<1>2. CASE Return(s)
  <2>1. [job[s] EXCEPT !.stage = "settled"] \in Jobs
    BY <1>0, JobUpdate DEF Stages
  <2>2. job' \in [Slots -> Jobs \cup {None}]
    BY <1>2, <2>1 DEF TypeInv, Return
  <2>3. final' \in [Tasks -> {None, "SUCCESS", "FAILURE"}] /\ answers' \in [Tasks -> Nat]
    BY <1>0, <1>2 DEF TypeInv, Return, Store
  <2>4. QED
    BY <1>2, <2>2, <2>3 DEF TypeInv, Return, broker, faults, history
<1>3. CASE Retry(s)
  <2>1. [job[s] EXCEPT !.stage = "settled"] \in Jobs
    BY <1>0, JobUpdate DEF Stages
  <2>2. job[s].retries + 1 \in 0..MaxRetries
    BY <1>0, <1>3 DEF Retry
  <2>3. Message(job[s].task, job[s].retries + 1) \in Messages
    BY <1>0, <2>2, JobUpdate
  <2>4. job' \in [Slots -> Jobs \cup {None}]
    BY <1>3, <2>1 DEF TypeInv, Retry
  <2>5. queue' \in Seq(Messages)
    BY <1>3, <2>3 DEF TypeInv, Retry
  <2>6. QED
    BY <1>3, <2>4, <2>5 DEF TypeInv, Retry, results, faults, history
<1>4. CASE GiveUp(s)
  <2>1. [job[s] EXCEPT !.stage = "settled"] \in Jobs
    BY <1>0, JobUpdate DEF Stages
  <2>2. job' \in [Slots -> Jobs \cup {None}]
    BY <1>4, <2>1 DEF TypeInv, GiveUp
  <2>3. final' \in [Tasks -> {None, "SUCCESS", "FAILURE"}] /\ answers' \in [Tasks -> Nat]
    BY <1>0, <1>4 DEF TypeInv, GiveUp, Store
  <2>4. QED
    BY <1>4, <2>2, <2>3 DEF TypeInv, GiveUp, broker, faults, history
<1>5. CASE Ack(s)
  BY <1>5 DEF TypeInv, Ack, broker, results, faults, history
<1>6. QED
  BY <1>1, <1>2, <1>3, <1>4, <1>5

LEMMA FaultType ==
    ASSUME TypeInv, NEW s \in Slots, VisibilityTimeout(s) \/ Crash(s) \/ Restart(s)
    PROVE  TypeInv'
<1>1. CASE VisibilityTimeout(s)
  <2>1. job[s] \in Jobs /\ job[s].task \in Tasks
    BY <1>1 DEF TypeInv, VisibilityTimeout, Jobs
  <2>2. [job[s] EXCEPT !.redelivered = TRUE] \in Jobs /\ Message(job[s].task, job[s].retries) \in Messages
    BY <2>1, JobUpdate
  <2>3. job' \in [Slots -> Jobs \cup {None}]
    BY <1>1, <2>2 DEF TypeInv, VisibilityTimeout
  <2>4. queue' \in Seq(Messages) /\ extra' \in [Tasks -> Nat]
    BY <1>1, <2>1, <2>2 DEF TypeInv, VisibilityTimeout
  <2>5. QED
    BY <1>1, <2>3, <2>4 DEF TypeInv, VisibilityTimeout, results
<1>2. CASE Crash(s)
  <2>1. CASE job[s] # None /\ ~job[s].redelivered
    <3>1. job[s] \in Jobs
      BY <2>1 DEF TypeInv
    <3>2. Message(job[s].task, job[s].retries) \in Messages /\ job[s].task \in Tasks
      BY <3>1, JobUpdate
    <3>3. /\ orphans' = Append(orphans, Message(job[s].task, job[s].retries))
          /\ extra' = [extra EXCEPT ![job[s].task] = @ + 1]
      BY <1>2, <2>1, Zenon DEF Crash
    <3>4. orphans' \in Seq(Messages) /\ extra' \in [Tasks -> Nat]
      BY <3>2, <3>3 DEF TypeInv
    <3>5. QED
      BY <1>2, <3>4 DEF TypeInv, Crash, results
  <2>2. CASE ~(job[s] # None /\ ~job[s].redelivered)
    BY <1>2, <2>2 DEF TypeInv, Crash, results
  <2>3. QED
    BY <2>1, <2>2
<1>3. CASE Restart(s)
  BY <1>3 DEF TypeInv, Restart, broker, results, history
<1>4. QED
  BY <1>1, <1>2, <1>3

LEMMA BrokerType ==
    ASSUME TypeInv, Restore \/ \E t \in Tasks : Submit(t)
    PROVE  TypeInv'
<1>1. CASE Restore
  <2>1. Head(orphans) \in Messages /\ Tail(orphans) \in Seq(Messages)
    BY <1>1, HeadAndTail DEF TypeInv, Restore
  <2>2. QED
    BY <1>1, <2>1 DEF TypeInv, Restore, results, faults, history
<1>2. ASSUME NEW t \in Tasks, Submit(t) PROVE TypeInv'
  <2>1. Message(t, 0) \in Messages
    BY DeliveryAssumption DEF Message, Messages
  <2>2. QED
    BY <1>2, <2>1 DEF TypeInv, Submit, results, faults, history
<1>3. QED
  BY <1>1, <1>2

LEMMA TypeInductive == TypeInv /\ [Next]_vars => TypeInv'
<1>1. TypeInv /\ UNCHANGED vars => TypeInv'
  BY DEF TypeInv, vars
<1>2. QED
  BY <1>1, DeliverType, WorkType, FaultType, BrokerType DEF Next, Work

(***************************************************************************)
(* What each step does to a job, field by field.                           *)
(***************************************************************************)
LEMMA StageUpdate ==
    ASSUME NEW j \in Jobs, NEW stage \in Stages, NEW k, k = [j EXCEPT !.stage = stage]
    PROVE  /\ k \in Jobs /\ k # None
           /\ k.task = j.task /\ k.retries = j.retries
           /\ k.stage = stage /\ k.redelivered = j.redelivered
BY NoneAssumption DEF Jobs

LEMMA RedeliveredUpdate ==
    ASSUME NEW j \in Jobs, NEW k, k = [j EXCEPT !.redelivered = TRUE]
    PROVE  /\ k \in Jobs /\ k # None
           /\ k.task = j.task /\ k.retries = j.retries
           /\ k.stage = j.stage /\ k.redelivered = TRUE
BY NoneAssumption DEF Jobs

\* The slot of a step, before and after it: the new job is the old one in
\* another stage.
LEMMA StageStep ==
    ASSUME TypeInv, NEW s \in Slots, job[s] # None, NEW stage \in Stages,
           job' = [job EXCEPT ![s].stage = stage]
    PROVE  /\ job[s] \in Jobs
           /\ \A u \in Slots \ {s} : job'[u] = job[u]
           /\ job'[s] \in Jobs /\ job'[s] # None
           /\ job'[s].task = job[s].task /\ job'[s].retries = job[s].retries
           /\ job'[s].stage = stage /\ job'[s].redelivered = job[s].redelivered
<1>1. job[s] \in Jobs
  BY DEF TypeInv
<1>2. job'[s] = [job[s] EXCEPT !.stage = stage] /\ \A u \in Slots \ {s} : job'[u] = job[u]
  BY DEF TypeInv
<1>3. QED
  BY <1>1, <1>2, StageUpdate

LEMMA DeliverStep ==
    ASSUME TypeInv, NEW s \in Slots, Deliver(s)
    PROVE  LET m == Head(queue) IN
           /\ queue # <<>> /\ queue' = Tail(queue) /\ m \in Messages
           /\ job[s] = None
           /\ \A u \in Slots \ {s} : job'[u] = job[u]
           /\ job'[s] \in Jobs /\ job'[s] # None
           /\ job'[s].task = m.task /\ job'[s].retries = m.retries
           /\ job'[s].stage = (IF valid[m.task] THEN "judging" ELSE "returned")
           /\ job'[s].redelivered = FALSE
<1> DEFINE m == Head(queue)
           j == Job(m, IF valid[m.task] THEN "judging" ELSE "returned")
<1>1. m \in Messages
  BY HeadAndTail DEF TypeInv, Deliver
<1>2. j \in Jobs /\ j.task = m.task /\ j.retries = m.retries /\ j.redelivered = FALSE
      /\ j.stage = IF valid[m.task] THEN "judging" ELSE "returned"
  BY <1>1 DEF Job, Jobs, Messages, Stages
<1>3. job' = [job EXCEPT ![s] = j]
  BY DEF Deliver, ModelValidate
<1> HIDE DEF j
<1>4. job'[s] = j /\ \A u \in Slots \ {s} : job'[u] = job[u]
  BY <1>3 DEF TypeInv
<1>5. QED
  BY <1>1, <1>2, <1>4, NoneAssumption DEF Deliver

LEMMA TimeoutStep ==
    ASSUME TypeInv, NEW s \in Slots, VisibilityTimeout(s)
    PROVE  /\ job[s] \in Jobs /\ job[s] # None /\ job[s].redelivered = FALSE
           /\ \A u \in Slots \ {s} : job'[u] = job[u]
           /\ job'[s] \in Jobs /\ job'[s] # None
           /\ job'[s].task = job[s].task /\ job'[s].retries = job[s].retries
           /\ job'[s].stage = job[s].stage /\ job'[s].redelivered = TRUE
<1>1. job[s] \in Jobs /\ job[s] # None /\ ~job[s].redelivered
  BY DEF TypeInv, VisibilityTimeout
<1>2. job[s].redelivered = FALSE
  BY <1>1 DEF Jobs
<1>3. job'[s] = [job[s] EXCEPT !.redelivered = TRUE] /\ \A u \in Slots \ {s} : job'[u] = job[u]
  BY DEF TypeInv, VisibilityTimeout
<1>4. QED
  BY <1>1, <1>2, <1>3, RedeliveredUpdate

\* A crash puts back what the slot was working on, unless the broker has
\* done so before.
LEMMA CrashStep ==
    ASSUME TypeInv, NEW s \in Slots, Crash(s)
    PROVE  /\ \A u \in Slots \ {s} : job'[u] = job[u]
           /\ job'[s] = None
           /\ \/ /\ job[s] \in Jobs /\ job[s] # None /\ job[s].redelivered = FALSE
                 /\ orphans' = Append(orphans, Message(job[s].task, job[s].retries))
                 /\ extra' = [extra EXCEPT ![job[s].task] = @ + 1]
              \/ /\ job[s] = None \/ (job[s] \in Jobs /\ job[s].redelivered = TRUE)
                 /\ UNCHANGED <<orphans, extra>>
<1>1. job'[s] = None /\ \A u \in Slots \ {s} : job'[u] = job[u]
  BY DEF TypeInv, Crash
<1>2. job[s] \in Jobs \cup {None}
  BY DEF TypeInv
<1>3. job[s] \in Jobs => job[s].redelivered \in BOOLEAN
  BY DEF Jobs
<1>4. CASE job[s] # None /\ ~job[s].redelivered
  <2>1. /\ orphans' = Append(orphans, Message(job[s].task, job[s].retries))
        /\ extra' = [extra EXCEPT ![job[s].task] = @ + 1]
    BY <1>4, Zenon DEF Crash
  <2>2. QED
    BY <1>1, <1>2, <1>3, <1>4, <2>1
<1>5. CASE ~(job[s] # None /\ ~job[s].redelivered)
  <2>1. UNCHANGED <<orphans, extra>>
    BY <1>5, Zenon DEF Crash
  <2>2. QED
    BY <1>1, <1>2, <1>3, <1>5, <2>1
<1>6. QED
  BY <1>4, <1>5

(***************************************************************************)
(* Retries.                                                                *)
(***************************************************************************)
Backed(m) == m.retries <= raises[m.task]

\* every retry of a message was an exception, a job that raised has one more,
\* and a job that judges has a valid payload
RetryInv ==
    /\ \A i \in DOMAIN queue : Backed(queue[i])
    /\ \A i \in DOMAIN orphans : Backed(orphans[i])
    /\ \A s \in Slots : job[s] # None =>
          /\ Backed(job[s])
          /\ job[s].stage \in {"judging", "raised"} => valid[job[s].task]
          /\ job[s].stage = "raised" => job[s].retries < raises[job[s].task]
    /\ SilentOnlyAfterRetries

\* Messages of a queue stay backed when it grows by a backed message or loses
\* its first one.
LEMMA BackedQueue ==
    ASSUME NEW q \in Seq(Messages), \A i \in DOMAIN q : Backed(q[i])
    PROVE  /\ \A m \in Messages : Backed(m) =>
                 \A i \in DOMAIN Append(q, m) : Backed(Append(q, m)[i])
           /\ q # <<>> => Backed(Head(q)) /\ \A i \in DOMAIN Tail(q) : Backed(Tail(q)[i])
OBVIOUS

LEMMA RetryInductive == TypeInv /\ RetryInv /\ [Next]_vars => RetryInv'
<1> SUFFICES ASSUME TypeInv, RetryInv, [Next]_vars PROVE RetryInv'
  OBVIOUS
<1>T. TypeInv'
  BY TypeInductive
<1>1. CASE UNCHANGED vars
  BY <1>1 DEF vars, RetryInv, Backed, SilentOnlyAfterRetries
<1>2. ASSUME NEW t \in Tasks, Submit(t) PROVE RetryInv'
  <2>1. Message(t, 0) \in Messages /\ Backed(Message(t, 0))
    BY DeliveryAssumption DEF Message, Messages, Backed, TypeInv
  <2>2. \A i \in DOMAIN queue' : Backed(queue'[i])
    BY <1>2, <2>1, BackedQueue DEF Submit, RetryInv, TypeInv
  <2>3. QED
    BY <1>2, <2>2 DEF Submit, RetryInv, Backed, SilentOnlyAfterRetries, results, history
<1>3. CASE Restore
  <2>1. Head(orphans) \in Messages /\ Backed(Head(orphans))
        /\ \A i \in DOMAIN orphans' : Backed(orphans'[i])
    BY <1>3, HeadAndTail, BackedQueue DEF Restore, RetryInv, TypeInv
  <2>2. \A i \in DOMAIN queue' : Backed(queue'[i])
    BY <1>3, <2>1, BackedQueue DEF Restore, RetryInv, TypeInv
  <2>3. QED
    BY <1>3, <2>1, <2>2 DEF Restore, RetryInv, Backed, SilentOnlyAfterRetries, results, history
<1>4. ASSUME NEW s \in Slots, Deliver(s) PROVE RetryInv'
  <2>1. Backed(Head(queue)) /\ \A i \in DOMAIN queue' : Backed(queue'[i])
    BY <1>4, DeliverStep, BackedQueue DEF RetryInv, TypeInv
  <2>2. \A u \in Slots : job'[u] # None =>
          /\ Backed(job'[u])
          /\ job'[u].stage \in {"judging", "raised"} => valid[job'[u].task]
          /\ job'[u].stage = "raised" => job'[u].retries < raises[job'[u].task]
    BY <1>4, <2>1, DeliverStep DEF RetryInv, Backed
  <2>3. QED
    BY <1>4, <2>1, <2>2 DEF Deliver, RetryInv, Backed, SilentOnlyAfterRetries, results, history
<1>5. ASSUME NEW s \in Slots, Judged(s) PROVE RetryInv'
  <2>1. PICK stage \in ResultOut :
           /\ job' = [job EXCEPT ![s].stage = stage]
           /\ raises' = [raises EXCEPT ![job[s].task] = IF stage = "raised" THEN @ + 1 ELSE @]
    BY <1>5 DEF Judged
  <2>2. /\ job[s] # None /\ job[s] \in Jobs /\ job[s].stage = "judging" /\ job[s].task \in Tasks
        /\ job[s].retries \in Nat
    BY <1>5, DeliveryAssumption DEF Judged, TypeInv, Jobs
  <2>3. /\ \A u \in Slots \ {s} : job'[u] = job[u]
        /\ job'[s].task = job[s].task /\ job'[s].retries = job[s].retries
        /\ job'[s].stage = stage
    BY <2>1, <2>2, StageStep DEF ResultOut, Stages
  <2>4. \A t \in Tasks : raises[t] \in Nat /\ raises'[t] \in Nat /\ raises[t] <= raises'[t]
    BY <2>1, <2>2 DEF TypeInv
  <2>5. stage = "raised" => raises'[job[s].task] = raises[job[s].task] + 1
    BY <2>1, <2>2 DEF TypeInv
  <2>6. \A m \in Messages : m.task \in Tasks /\ m.retries \in Nat
    BY DeliveryAssumption DEF Messages
  <2>7. (\A i \in DOMAIN queue : Backed(queue[i])') /\ (\A i \in DOMAIN orphans : Backed(orphans[i])')
    BY <1>5, <2>4, <2>6 DEF Judged, broker, RetryInv, Backed, TypeInv
  <2>8. ASSUME NEW u \in Slots, job'[u] # None
        PROVE  /\ Backed(job[u])'
               /\ job'[u].stage \in {"judging", "raised"} => valid[job'[u].task]
               /\ job'[u].stage = "raised" => job'[u].retries < raises'[job'[u].task]
    <3>1. CASE u = s
      <4>1. job[s].retries <= raises[job[s].task] /\ valid[job[s].task]
        BY <2>2 DEF RetryInv, Backed
      <4>2. QED
        BY <2>2, <2>3, <2>4, <2>5, <3>1, <4>1 DEF Backed
    <3>2. CASE u # s
      <4>1. job'[u] = job[u] /\ job[u] \in Jobs
        BY <2>3, <2>8, <3>2 DEF TypeInv
      <4>2. job[u].task \in Tasks /\ job[u].retries \in Nat
        BY <4>1, DeliveryAssumption DEF Jobs
      <4>3. QED
        BY <2>4, <2>8, <4>1, <4>2 DEF RetryInv, Backed
    <3>3. QED
      BY <3>1, <3>2
  <2>9. SilentOnlyAfterRetries'
    BY <1>5, <2>4, DeliveryAssumption DEF Judged, RetryInv, SilentOnlyAfterRetries, results
  <2>10. QED
    BY <1>5, <2>7, <2>8, <2>9 DEF Judged, broker, RetryInv
<1>6. ASSUME NEW s \in Slots, Return(s) \/ Retry(s) \/ GiveUp(s) PROVE RetryInv'
  <2>1. /\ job[s] # None /\ job' = [job EXCEPT ![s].stage = "settled"]
        /\ UNCHANGED <<valid, orphans, raises>>
    BY <1>6 DEF Return, Retry, GiveUp, broker, history
  <2>2. /\ \A u \in Slots \ {s} : job'[u] = job[u]
        /\ job'[s].task = job[s].task /\ job'[s].retries = job[s].retries
        /\ job'[s].stage = "settled" /\ job[s] \in Jobs
    BY <2>1, StageStep DEF Stages
  <2>3. job[s].task \in Tasks /\ job[s].retries \in 0..MaxRetries /\ MaxRetries \in Nat
    BY <2>2, DeliveryAssumption DEF Jobs
  <2>4. \A i \in DOMAIN queue' : Backed(queue'[i])
    <3>1. CASE queue' = queue
      BY <3>1 DEF RetryInv
    <3>2. CASE Retry(s)
      <4>1. /\ job[s].retries + 1 \in 0..MaxRetries /\ job[s].stage = "raised"
            /\ queue' = Append(queue, Message(job[s].task, job[s].retries + 1))
        BY <2>3, <3>2 DEF Retry
      <4>2. job[s].retries < raises[job[s].task] /\ raises[job[s].task] \in Nat
        BY <2>1, <2>3, <4>1 DEF RetryInv, TypeInv
      <4>3. /\ Message(job[s].task, job[s].retries + 1) \in Messages
            /\ Backed(Message(job[s].task, job[s].retries + 1))
        BY <2>3, <4>1, <4>2 DEF Message, Messages, Backed
      <4>4. QED
        BY <4>1, <4>3, BackedQueue DEF RetryInv, TypeInv
    <3>3. QED
      BY <1>6, <3>1, <3>2 DEF Return, GiveUp, broker
  <2>5. \A u \in Slots : job'[u] # None =>
          /\ Backed(job'[u])
          /\ job'[u].stage \in {"judging", "raised"} => valid[job'[u].task]
          /\ job'[u].stage = "raised" => job'[u].retries < raises[job'[u].task]
    BY <2>1, <2>2 DEF RetryInv, Backed
  <2>6. SilentOnlyAfterRetries'
    <3>1. CASE Return(s)
      <4>1. /\ answers'[job[s].task] = answers[job[s].task] + 1
            /\ \A t \in Tasks \ {job[s].task} : answers'[t] = answers[t] /\ final'[t] = final[t]
            /\ final'[job[s].task] = "SUCCESS" /\ answers[job[s].task] \in Nat
        BY <2>3, <3>1 DEF Return, Store, TypeInv
      <4>2. QED
        BY <2>1, <4>1 DEF RetryInv, SilentOnlyAfterRetries
    <3>2. CASE Retry(s)
      BY <2>1, <3>2 DEF Retry, results, RetryInv, SilentOnlyAfterRetries
    <3>3. CASE GiveUp(s)
      <4>1. /\ \A t \in Tasks \ {job[s].task} : final'[t] = final[t]
            /\ final'[job[s].task] \in {final[job[s].task], "FAILURE"} /\ answers' = answers
        BY <2>3, <3>3 DEF GiveUp, Store, TypeInv
      <4>2. valid[job[s].task] /\ MaxRetries < raises[job[s].task]
        BY <2>1, <3>3 DEF GiveUp, RetryInv
      <4>3. QED
        BY <2>1, <2>3, <4>1, <4>2 DEF RetryInv, SilentOnlyAfterRetries, TypeInv
    <3>4. QED
      BY <1>6, <3>1, <3>2, <3>3
  <2>7. QED
    BY <2>1, <2>4, <2>5, <2>6 DEF RetryInv, Backed
<1>7. ASSUME NEW s \in Slots, Ack(s) PROVE RetryInv'
  <2>1. job'[s] = None /\ \A u \in Slots \ {s} : job'[u] = job[u]
    BY <1>7 DEF Ack, TypeInv
  <2>2. QED
    BY <1>7, <2>1 DEF Ack, RetryInv, Backed, SilentOnlyAfterRetries, broker, results, history
<1>8. ASSUME NEW s \in Slots, VisibilityTimeout(s) PROVE RetryInv'
  <2>1. /\ Message(job[s].task, job[s].retries) \in Messages
        /\ Backed(Message(job[s].task, job[s].retries))
    BY <1>8, TimeoutStep, JobUpdate DEF RetryInv, Backed, Message
  <2>2. \A i \in DOMAIN queue' : Backed(queue'[i])
    BY <1>8, <2>1, BackedQueue DEF VisibilityTimeout, RetryInv, TypeInv
  <2>3. \A u \in Slots : job'[u] # None =>
          /\ Backed(job'[u])
          /\ job'[u].stage \in {"judging", "raised"} => valid[job'[u].task]
          /\ job'[u].stage = "raised" => job'[u].retries < raises[job'[u].task]
    <3>1. /\ \A u \in Slots \ {s} : job'[u] = job[u]
          /\ job[s] # None /\ job'[s].task = job[s].task
          /\ job'[s].retries = job[s].retries /\ job'[s].stage = job[s].stage
      BY <1>8, TimeoutStep
    <3>2. QED
      BY <3>1 DEF RetryInv, Backed
  <2>4. UNCHANGED <<valid, orphans, answers, final, raises>>
    BY <1>8 DEF VisibilityTimeout, results
  <2>5. QED
    BY <2>2, <2>3, <2>4 DEF RetryInv, Backed, SilentOnlyAfterRetries
<1>9. ASSUME NEW s \in Slots, Crash(s) PROVE RetryInv'
  <2>1. job'[s] = None /\ \A u \in Slots \ {s} : job'[u] = job[u]
    BY <1>9, CrashStep
  <2>2. \A i \in DOMAIN orphans' : Backed(orphans'[i])
    <3>1. CASE orphans' = orphans
      BY <3>1 DEF RetryInv
    <3>2. CASE /\ job[s] \in Jobs /\ job[s] # None
               /\ orphans' = Append(orphans, Message(job[s].task, job[s].retries))
      <4>1. /\ Message(job[s].task, job[s].retries) \in Messages
            /\ Backed(Message(job[s].task, job[s].retries))
        BY <3>2, JobUpdate DEF RetryInv, Backed, Message
      <4>2. QED
        BY <3>2, <4>1, BackedQueue DEF RetryInv, TypeInv
    <3>3. QED
      BY <1>9, <3>1, <3>2, CrashStep
  <2>3. QED
    BY <1>9, <2>1, <2>2 DEF Crash, RetryInv, Backed, SilentOnlyAfterRetries, results
<1>10. ASSUME NEW s \in Slots, Restart(s) PROVE RetryInv'
  BY <1>10 DEF Restart, RetryInv, Backed, SilentOnlyAfterRetries, broker, results, history
<1>11. QED
  BY <1>1, <1>2, <1>3, <1>4, <1>5, <1>6, <1>7, <1>8, <1>9, <1>10 DEF Next, Work

\* A result is stored without a call of the callback only after one delivery
\* raised MaxRetries + 1 times (BaseTask's autoretry), and never for a
\* payload that execute_judge rejected.
THEOREM RetriesBeforeSilence == Spec => []SilentOnlyAfterRetries
<1>1. Init => RetryInv
  BY NoneAssumption DEF Init, RetryInv, SilentOnlyAfterRetries
<1>2. RetryInv => SilentOnlyAfterRetries
  BY DEF RetryInv
<1>3. QED
  BY InitType, TypeInductive, RetryInductive, <1>1, <1>2, PTL DEF Spec

(***************************************************************************)
(* Nothing is lost.                                                        *)
(***************************************************************************)
In(q, t) == \E i \in DOMAIN q : q[i].task = t

LEMMA InAppend ==
    ASSUME NEW q \in Seq(Messages), NEW m \in Messages, NEW t
    PROVE  In(Append(q, m), t) <=> In(q, t) \/ m.task = t
<1>1. /\ DOMAIN Append(q, m) = 1..(Len(q) + 1) /\ DOMAIN q = 1..Len(q) /\ Len(q) \in Nat
      /\ \A i \in 1..Len(q) : Append(q, m)[i] = q[i]
      /\ Append(q, m)[Len(q) + 1] = m
  OBVIOUS
<1>2. QED
  BY <1>1 DEF In

LEMMA InTail ==
    ASSUME NEW q \in Seq(Messages), q # <<>>, NEW t
    PROVE  In(q, t) <=> In(Tail(q), t) \/ Head(q).task = t
<1>1. /\ DOMAIN Tail(q) = 1..(Len(q) - 1) /\ DOMAIN q = 1..Len(q) /\ Len(q) \in Nat \ {0}
      /\ \A i \in 1..(Len(q) - 1) : Tail(q)[i] = q[i + 1]
      /\ Head(q) = q[1]
  OBVIOUS
<1>2. ASSUME NEW i \in 1..Len(q), q[i].task = t PROVE In(Tail(q), t) \/ Head(q).task = t
  <2>1. i = 1 \/ (i - 1 \in 1..(Len(q) - 1) /\ Tail(q)[i - 1] = q[i])
    BY <1>1
  <2>2. QED
    BY <1>1, <1>2, <2>1 DEF In
<1>3. ASSUME NEW i \in 1..(Len(q) - 1), Tail(q)[i].task = t PROVE In(q, t)
  BY <1>1, <1>3 DEF In
<1>4. QED
  BY <1>1, <1>2, <1>3 DEF In

\* a slot works on t, and the broker would deliver t again if the slot died
HeldBy(s, t) ==
    /\ job[s] # None /\ job[s].task = t /\ job[s].stage # "settled"
    /\ job[s].redelivered = FALSE

\* a submission without a result is in a queue or with such a slot
HeldInv == \A t \in sent :
    \/ final[t] # None
    \/ In(queue, t) \/ In(orphans, t)
    \/ \E s \in Slots : HeldBy(s, t)

LEMMA HeldInductive == TypeInv /\ HeldInv /\ [Next]_vars => HeldInv'
<1> SUFFICES ASSUME TypeInv, HeldInv, [Next]_vars PROVE HeldInv'
  OBVIOUS
<1>1. CASE UNCHANGED vars
  BY <1>1 DEF vars, HeldInv, HeldBy
<1>2. ASSUME NEW t \in Tasks, Submit(t) PROVE HeldInv'
  <2>1. Message(t, 0) \in Messages /\ Message(t, 0).task = t
    BY DeliveryAssumption DEF Message, Messages
  <2>2. \A u : In(queue', u) <=> In(queue, u) \/ u = t
    BY <1>2, <2>1, InAppend DEF Submit, TypeInv
  <2>3. QED
    BY <1>2, <2>2 DEF Submit, HeldInv, HeldBy, results
<1>3. CASE Restore
  <2>1. Head(orphans) \in Messages /\ orphans # <<>> /\ orphans' = Tail(orphans)
    BY <1>3, HeadAndTail DEF Restore, TypeInv
  <2>2. \A u : In(orphans, u) => In(orphans', u) \/ Head(orphans).task = u
    BY <2>1, InTail DEF TypeInv
  <2>3. \A u : In(queue', u) <=> In(queue, u) \/ Head(orphans).task = u
    BY <1>3, <2>1, InAppend DEF Restore, TypeInv
  <2>4. QED
    BY <1>3, <2>2, <2>3 DEF Restore, HeldInv, HeldBy, results
<1>4. ASSUME NEW s \in Slots, Deliver(s) PROVE HeldInv'
  <2>0. queue \in Seq(Messages) /\ queue # <<>> /\ queue' = Tail(queue)
    BY <1>4 DEF TypeInv, Deliver
  <2>1. \A u : In(queue, u) => In(queue', u) \/ Head(queue).task = u
    BY <2>0, InTail
  <2>2. job'[s].stage # "settled" /\ job'[s] # None /\ job'[s].task = Head(queue).task
        /\ job'[s].redelivered = FALSE
    BY <1>4, DeliverStep
  <2>3. job[s] = None /\ \A u \in Slots \ {s} : job'[u] = job[u]
    BY <1>4, DeliverStep
  <2>4. QED
    BY <1>4, <2>1, <2>2, <2>3 DEF Deliver, HeldInv, HeldBy, results
<1>5. ASSUME NEW s \in Slots, Judged(s) PROVE HeldInv'
  <2>1. PICK stage \in ResultOut : job' = [job EXCEPT ![s].stage = stage]
    BY <1>5 DEF Judged
  <2>2. job[s] # None /\ stage \in Stages /\ stage # "settled"
    BY <1>5 DEF Judged, ResultOut, Stages
  <2>3. /\ \A u \in Slots \ {s} : job'[u] = job[u]
        /\ job'[s] # None /\ job'[s].task = job[s].task
        /\ job'[s].stage = stage /\ job'[s].redelivered = job[s].redelivered
    BY <2>1, <2>2, StageStep
  <2>4. \A u \in Slots : \A t : HeldBy(u, t) => HeldBy(u, t)'
    BY <2>2, <2>3 DEF HeldBy
  <2>5. QED
    BY <1>5, <2>4 DEF Judged, HeldInv, broker, results
<1>6. ASSUME NEW s \in Slots, Return(s) \/ Retry(s) \/ GiveUp(s) PROVE HeldInv'
  <2>1. /\ job[s] # None /\ job' = [job EXCEPT ![s].stage = "settled"]
        /\ UNCHANGED <<orphans, sent>>
    BY <1>6 DEF Return, Retry, GiveUp, broker
  <2>2. (\A u \in Slots \ {s} : job'[u] = job[u]) /\ job[s] \in Jobs
    BY <2>1, StageStep DEF Stages
  <2>3. job[s].task \in Tasks /\ job[s].retries \in 0..MaxRetries /\ MaxRetries \in Nat
    BY <2>2, DeliveryAssumption DEF Jobs
  <2>4. \A u \in Slots : \A t : t # job[s].task /\ HeldBy(u, t) => HeldBy(u, t)'
    BY <2>2 DEF HeldBy
  <2>5. CASE Retry(s)
    <3>1. Message(job[s].task, job[s].retries + 1) \in Messages
      BY <2>3, <2>5 DEF Retry, Message, Messages
    <3>2. Message(job[s].task, job[s].retries + 1).task = job[s].task
      BY DEF Message
    <3>3. \A u : In(queue', u) <=> In(queue, u) \/ job[s].task = u
      BY <2>5, <3>1, <3>2, InAppend DEF Retry, TypeInv
    <3>4. QED
      BY <2>1, <2>4, <2>5, <3>3 DEF Retry, HeldInv, results
  <2>6. CASE Return(s) \/ GiveUp(s)
    <3>1. /\ final'[job[s].task] # None /\ queue' = queue
          /\ \A t \in Tasks \ {job[s].task} : final'[t] = final[t]
      BY <2>3, <2>6, NoneAssumption DEF Return, GiveUp, Store, TypeInv, broker
    <3>2. QED
      BY <2>1, <2>4, <3>1 DEF HeldInv, TypeInv
  <2>7. QED
    BY <1>6, <2>5, <2>6
<1>7. ASSUME NEW s \in Slots, Ack(s) PROVE HeldInv'
  <2>1. job[s].stage = "settled" /\ \A u \in Slots \ {s} : job'[u] = job[u]
    BY <1>7 DEF Ack, TypeInv
  <2>2. \A u \in Slots : \A t : HeldBy(u, t) => HeldBy(u, t)'
    BY <2>1 DEF HeldBy
  <2>3. QED
    BY <1>7, <2>2 DEF Ack, HeldInv, broker, results
<1>8. ASSUME NEW s \in Slots, VisibilityTimeout(s) PROVE HeldInv'
  <2>1. job[s] \in Jobs /\ \A u \in Slots \ {s} : job'[u] = job[u]
    BY <1>8, TimeoutStep
  <2>2. /\ Message(job[s].task, job[s].retries) \in Messages
        /\ Message(job[s].task, job[s].retries).task = job[s].task
    BY <2>1, JobUpdate DEF Message
  <2>3. \A u : In(queue', u) <=> In(queue, u) \/ job[s].task = u
    BY <1>8, <2>2, InAppend DEF VisibilityTimeout, TypeInv
  <2>4. \A u \in Slots : \A t : t # job[s].task /\ HeldBy(u, t) => HeldBy(u, t)'
    BY <2>1 DEF HeldBy
  <2>5. UNCHANGED <<orphans, sent, final>>
    BY <1>8 DEF VisibilityTimeout, results
  <2>6. QED
    BY <2>3, <2>4, <2>5 DEF HeldInv
<1>9. ASSUME NEW s \in Slots, Crash(s) PROVE HeldInv'
  <2>1. \A u \in Slots \ {s} : job'[u] = job[u]
    BY <1>9, CrashStep
  <2>2. \A u \in Slots : \A t : u # s /\ HeldBy(u, t) => HeldBy(u, t)'
    BY <2>1 DEF HeldBy
  <2>3. \A t : HeldBy(s, t) => In(orphans', t)
    <3>1. SUFFICES ASSUME NEW t, HeldBy(s, t) PROVE In(orphans', t)
      OBVIOUS
    <3>2. /\ job[s] \in Jobs /\ orphans' = Append(orphans, Message(job[s].task, job[s].retries))
      BY <1>9, <3>1, CrashStep DEF HeldBy
    <3>3. /\ Message(job[s].task, job[s].retries) \in Messages
          /\ Message(job[s].task, job[s].retries).task = t
      BY <3>1, <3>2, JobUpdate DEF Message, HeldBy
    <3>4. QED
      BY <3>2, <3>3, InAppend DEF TypeInv
  <2>4. \A t : In(orphans, t) => In(orphans', t)
    <3>1. CASE orphans' = orphans
      BY <3>1
    <3>2. CASE /\ job[s] \in Jobs
               /\ orphans' = Append(orphans, Message(job[s].task, job[s].retries))
      BY <3>2, JobUpdate, InAppend DEF TypeInv
    <3>3. QED
      BY <1>9, <3>1, <3>2, CrashStep
  <2>5. UNCHANGED <<queue, sent, final>>
    BY <1>9 DEF Crash, results
  <2>6. QED
    BY <2>2, <2>3, <2>4, <2>5 DEF HeldInv
<1>10. ASSUME NEW s \in Slots, Restart(s) PROVE HeldInv'
  BY <1>10 DEF Restart, HeldInv, HeldBy, broker, results
<1>11. QED
  BY <1>1, <1>2, <1>3, <1>4, <1>5, <1>6, <1>7, <1>8, <1>9, <1>10 DEF Next, Work

(***************************************************************************)
(* Counting copies.                                                        *)
(***************************************************************************)
Where(q, t) == {i \in DOMAIN q : q[i].task = t}

LEMMA CountType ==
    ASSUME NEW q \in Seq(Messages), NEW t
    PROVE  /\ IsFiniteSet(Where(q, t)) /\ Count(q, t) \in Nat
           /\ In(q, t) => Count(q, t) > 0
<1>1. DOMAIN q = 1..Len(q) /\ Len(q) \in Nat
  OBVIOUS
<1>2. IsFiniteSet(1..Len(q))
  BY <1>1, FS_Interval
<1>3. IsFiniteSet(Where(q, t))
  BY <1>1, <1>2, FS_Subset DEF Where
<1>4. Count(q, t) = Cardinality(Where(q, t))
  BY DEF Count, Where
<1>5. Count(q, t) \in Nat
  BY <1>3, <1>4, FS_CardinalityType
<1>6. In(q, t) => Count(q, t) # 0
  BY <1>3, <1>4, FS_EmptySet DEF In, Where
<1>7. QED
  BY <1>3, <1>5, <1>6

LEMMA UnsettledType ==
    ASSUME NEW t
    PROVE  IsFiniteSet(Unsettled(t)) /\ Cardinality(Unsettled(t)) \in Nat
<1>1. IsFiniteSet(Unsettled(t))
  BY DeliveryAssumption, FS_Subset DEF Unsettled
<1>2. QED
  BY <1>1, FS_CardinalityType

\* No crash, time-out, retry or rejected payload of the judge queue loses a
\* submission: without a stored result it is with the broker or with a slot.
THEOREM NoSubmissionLost == Spec => []NothingLost
<1>1. Init => HeldInv
  BY DEF Init, HeldInv
<1>2. TypeInv /\ HeldInv => NothingLost
  <2> SUFFICES ASSUME TypeInv, HeldInv, NEW t \in sent, final[t] = None
               PROVE  Outstanding(t) > 0
    BY DEF NothingLost
  <2>1. Count(queue, t) \in Nat /\ Count(orphans, t) \in Nat /\ Cardinality(Unsettled(t)) \in Nat
    BY CountType, UnsettledType DEF TypeInv
  <2>2. CASE In(queue, t) \/ In(orphans, t)
    BY <2>1, <2>2, CountType DEF TypeInv, Outstanding
  <2>3. CASE \E s \in Slots : HeldBy(s, t)
    <3>1. Unsettled(t) # {}
      BY <2>3 DEF HeldBy, Unsettled
    <3>2. Cardinality(Unsettled(t)) # 0
      BY <3>1, UnsettledType, FS_EmptySet
    <3>3. QED
      BY <2>1, <3>2 DEF Outstanding
  <2>4. QED
    BY <2>2, <2>3 DEF HeldInv
<1>3. QED
  BY InitType, TypeInductive, HeldInductive, <1>1, <1>2, PTL DEF Spec

One(b) == IF b THEN 1 ELSE 0

LEMMA CountAppend ==
    ASSUME NEW q \in Seq(Messages), NEW m \in Messages, NEW t
    PROVE  Count(Append(q, m), t) = Count(q, t) + One(m.task = t)
<1> DEFINE n == Len(q) + 1
<1>1. /\ DOMAIN Append(q, m) = 1..n /\ DOMAIN q = 1..Len(q) /\ Len(q) \in Nat
      /\ \A i \in 1..Len(q) : Append(q, m)[i] = q[i]
      /\ Append(q, m)[n] = m
  OBVIOUS
<1>2. IsFiniteSet(Where(q, t)) /\ Count(q, t) = Cardinality(Where(q, t)) /\ Count(q, t) \in Nat
  BY CountType DEF Count, Where
<1>3. Count(Append(q, m), t) = Cardinality(Where(Append(q, m), t))
  BY DEF Count, Where
<1>4. CASE m.task = t
  <2>1. Where(Append(q, m), t) = Where(q, t) \cup {n} /\ n \notin Where(q, t)
    BY <1>1, <1>4 DEF Where
  <2>2. Cardinality(Where(q, t) \cup {n}) = Cardinality(Where(q, t)) + 1
    BY <1>2, <2>1, FS_AddElement
  <2>3. QED
    BY <1>2, <1>3, <1>4, <2>1, <2>2 DEF One
<1>5. CASE m.task # t
  <2>1. Where(Append(q, m), t) = Where(q, t)
    BY <1>1, <1>5 DEF Where
  <2>2. QED
    BY <1>2, <1>3, <1>5, <2>1 DEF One
<1>6. QED
  BY <1>4, <1>5

LEMMA CountTail ==
    ASSUME NEW q \in Seq(Messages), q # <<>>, NEW t
    PROVE  Count(q, t) = Count(Tail(q), t) + One(Head(q).task = t)
<1> DEFINE S == Where(q, t) \ {1}
           T == Where(Tail(q), t)
           f == [i \in T |-> i + 1]
<1>1. /\ DOMAIN Tail(q) = 1..(Len(q) - 1) /\ DOMAIN q = 1..Len(q) /\ Len(q) \in Nat \ {0}
      /\ \A i \in 1..(Len(q) - 1) : Tail(q)[i] = q[i + 1]
      /\ Head(q) = q[1] /\ Tail(q) \in Seq(Messages)
  OBVIOUS
<1>2. /\ IsFiniteSet(Where(q, t)) /\ Count(q, t) = Cardinality(Where(q, t)) /\ Count(q, t) \in Nat
      /\ IsFiniteSet(T) /\ Count(Tail(q), t) = Cardinality(T) /\ Count(Tail(q), t) \in Nat
  BY <1>1, CountType DEF Count, Where
<1>3. f \in Bijection(T, S)
  <2>1. \A i \in T : i \in Nat /\ i + 1 \in S
    BY <1>1 DEF Where
  <2>2. \A k \in S : k - 1 \in T /\ (k - 1) + 1 = k
    <3>1. SUFFICES ASSUME NEW k \in S PROVE k - 1 \in T /\ (k - 1) + 1 = k
      OBVIOUS
    <3>2. k \in 1..Len(q) /\ k # 1 /\ q[k].task = t
      BY <1>1 DEF Where
    <3>3. k - 1 \in 1..(Len(q) - 1) /\ (k - 1) + 1 = k
      BY <1>1, <3>2
    <3>4. Tail(q)[k - 1] = q[k]
      BY <1>1, <3>3
    <3>5. QED
      BY <1>1, <3>2, <3>3, <3>4 DEF Where
  <2> HIDE DEF S, T
  <2>3. f \in [T -> S]
    BY <2>1
  <2>4. \A a, b \in T : f[a] = f[b] => a = b
    BY <2>1
  <2>5. \A k \in S : \E i \in T : f[i] = k
    BY <2>2
  <2>6. QED
    BY <2>3, <2>4, <2>5, Fun_IsBij
<1>4. IsFiniteSet(S)
  BY <1>2, FS_Subset
<1>5. Cardinality(S) = Cardinality(T)
  BY <1>2, <1>3, <1>4, FS_Bijection DEF ExistsBijection
<1>6. Cardinality(S) = IF 1 \in Where(q, t) THEN Cardinality(Where(q, t)) - 1
                                           ELSE Cardinality(Where(q, t))
  BY <1>2, FS_RemoveElement
<1>7. 1 \in Where(q, t) <=> Head(q).task = t
  BY <1>1 DEF Where
<1>8. QED
  BY <1>2, <1>5, <1>6, <1>7 DEF One

LEMMA UnsettledStep ==
    ASSUME NEW s \in Slots, \A u \in Slots \ {s} : job'[u] = job[u], NEW t
    PROVE  Cardinality(Unsettled(t)') + One(s \in Unsettled(t))
             = Cardinality(Unsettled(t)) + One(s \in Unsettled(t)')
<1>1. Unsettled(t) \ {s} = Unsettled(t)' \ {s}
  BY DEF Unsettled
<1>2. IsFiniteSet(Unsettled(t)) /\ Cardinality(Unsettled(t)) \in Nat
  BY UnsettledType
<1>3. IsFiniteSet(Unsettled(t)') /\ Cardinality(Unsettled(t)') \in Nat
  <2>1. IsFiniteSet(Unsettled(t)')
    BY DeliveryAssumption, FS_Subset DEF Unsettled
  <2>2. QED
    BY <2>1, FS_CardinalityType
<1>4. Cardinality(Unsettled(t) \ {s}) = IF s \in Unsettled(t) THEN Cardinality(Unsettled(t)) - 1
                                                             ELSE Cardinality(Unsettled(t))
  BY <1>2, FS_RemoveElement
<1>5. Cardinality(Unsettled(t)' \ {s}) = IF s \in Unsettled(t)' THEN Cardinality(Unsettled(t)') - 1
                                                               ELSE Cardinality(Unsettled(t)')
  BY <1>3, FS_RemoveElement
<1>6. QED
  BY <1>1, <1>2, <1>3, <1>4, <1>5 DEF One

(***************************************************************************)
(* Every copy is paid for.                                                 *)
(***************************************************************************)
\* only submitted tasks are queued, worked on or answered
SentInv ==
    /\ \A t \in Tasks \ sent : answers[t] = 0 /\ ~In(queue, t) /\ ~In(orphans, t)
    /\ \A s \in Slots : job[s] # None => job[s].task \in sent

LEMMA SentInductive == TypeInv /\ SentInv /\ [Next]_vars => SentInv'
<1> SUFFICES ASSUME TypeInv, SentInv, [Next]_vars PROVE SentInv'
  OBVIOUS
<1>1. CASE UNCHANGED vars
  BY <1>1 DEF vars, SentInv
<1>2. ASSUME NEW t \in Tasks, Submit(t) PROVE SentInv'
  <2>1. Message(t, 0) \in Messages /\ Message(t, 0).task = t
    BY DeliveryAssumption DEF Message, Messages
  <2>2. \A u : In(queue', u) <=> In(queue, u) \/ u = t
    BY <1>2, <2>1, InAppend DEF Submit, TypeInv
  <2>3. QED
    BY <1>2, <2>2 DEF Submit, SentInv, results
<1>3. CASE Restore
  <2>1. Head(orphans) \in Messages /\ orphans # <<>> /\ orphans' = Tail(orphans)
    BY <1>3, HeadAndTail DEF Restore, TypeInv
  <2>2. \A u : In(orphans, u) <=> In(orphans', u) \/ Head(orphans).task = u
    BY <2>1, InTail DEF TypeInv
  <2>3. \A u : In(queue', u) <=> In(queue, u) \/ Head(orphans).task = u
    BY <1>3, <2>1, InAppend DEF Restore, TypeInv
  <2>4. QED
    BY <1>3, <2>2, <2>3 DEF Restore, SentInv, results
<1>4. ASSUME NEW s \in Slots, Deliver(s) PROVE SentInv'
  <2>0. queue \in Seq(Messages) /\ queue # <<>> /\ queue' = Tail(queue)
    BY <1>4 DEF TypeInv, Deliver
  <2>1. \A u : In(queue, u) <=> In(queue', u) \/ Head(queue).task = u
    BY <2>0, InTail
  <2>2. job'[s].task = Head(queue).task /\ \A u \in Slots \ {s} : job'[u] = job[u]
    BY <1>4, DeliverStep
  <2>3. Head(queue).task \in Tasks
    BY <2>0, HeadAndTail DEF Messages
  <2>4. QED
    BY <1>4, <2>1, <2>2, <2>3 DEF Deliver, SentInv, results
<1>5. ASSUME NEW s \in Slots, Judged(s) \/ Return(s) \/ Retry(s) \/ GiveUp(s) PROVE SentInv'
  <2>1. PICK stage \in Stages : job' = [job EXCEPT ![s].stage = stage]
    BY <1>5 DEF Judged, Return, Retry, GiveUp, ResultOut, Stages
  <2>2. job[s] # None /\ UNCHANGED <<orphans, sent>>
    BY <1>5 DEF Judged, Return, Retry, GiveUp, broker
  <2>3. /\ \A u \in Slots \ {s} : job'[u] = job[u]
        /\ job'[s].task = job[s].task /\ job[s] \in Jobs
    BY <2>1, <2>2, StageStep
  <2>4. job[s].task \in Tasks /\ job[s].task \in sent
        /\ job[s].retries \in 0..MaxRetries /\ MaxRetries \in Nat
    BY <2>2, <2>3, DeliveryAssumption DEF Jobs, SentInv
  <2>5. \A t \in Tasks \ sent : answers'[t] = 0
    BY <1>5, <2>4 DEF Judged, Return, Retry, GiveUp, results, SentInv, TypeInv
  <2>6. \A t \in Tasks \ sent : ~In(queue', t)
    <3>1. CASE Retry(s)
      <4>1. Message(job[s].task, job[s].retries + 1) \in Messages
        BY <2>4, <3>1 DEF Retry, Message, Messages
      <4>2. Message(job[s].task, job[s].retries + 1).task = job[s].task
        BY DEF Message
      <4>3. \A u : In(queue', u) <=> In(queue, u) \/ job[s].task = u
        BY <3>1, <4>1, <4>2, InAppend DEF Retry, TypeInv
      <4>4. QED
        BY <2>4, <4>3 DEF SentInv
    <3>2. CASE Judged(s) \/ Return(s) \/ GiveUp(s)
      BY <3>2 DEF Judged, Return, GiveUp, broker, SentInv
    <3>3. QED
      BY <1>5, <3>1, <3>2
  <2>7. QED
    BY <2>2, <2>3, <2>4, <2>5, <2>6 DEF SentInv
<1>6. ASSUME NEW s \in Slots, Ack(s) PROVE SentInv'
  <2>1. job'[s] = None /\ \A u \in Slots \ {s} : job'[u] = job[u]
    BY <1>6 DEF Ack, TypeInv
  <2>2. QED
    BY <1>6, <2>1 DEF Ack, SentInv, broker, results
<1>7. ASSUME NEW s \in Slots, VisibilityTimeout(s) PROVE SentInv'
  <2>1. /\ job[s] \in Jobs /\ job[s] # None /\ job'[s].task = job[s].task
        /\ \A u \in Slots \ {s} : job'[u] = job[u]
    BY <1>7, TimeoutStep
  <2>2. /\ Message(job[s].task, job[s].retries) \in Messages
        /\ Message(job[s].task, job[s].retries).task = job[s].task
    BY <2>1, JobUpdate DEF Message
  <2>3. \A u : In(queue', u) <=> In(queue, u) \/ job[s].task = u
    BY <1>7, <2>2, InAppend DEF VisibilityTimeout, TypeInv
  <2>4. UNCHANGED <<orphans, sent, answers>>
    BY <1>7 DEF VisibilityTimeout, results
  <2>5. QED
    BY <2>1, <2>3, <2>4 DEF SentInv
<1>8. ASSUME NEW s \in Slots, Crash(s) PROVE SentInv'
  <2>1. job'[s] = None /\ \A u \in Slots \ {s} : job'[u] = job[u]
    BY <1>8, CrashStep
  <2>2. \A t \in Tasks \ sent : ~In(orphans', t)
    <3>1. CASE orphans' = orphans
      BY <3>1 DEF SentInv
    <3>2. CASE /\ job[s] \in Jobs /\ job[s] # None
               /\ orphans' = Append(orphans, Message(job[s].task, job[s].retries))
      <4>1. /\ Message(job[s].task, job[s].retries) \in Messages
            /\ Message(job[s].task, job[s].retries).task = job[s].task
        BY <3>2, JobUpdate DEF Message
      <4>2. \A u : In(orphans', u) <=> In(orphans, u) \/ job[s].task = u
        BY <3>2, <4>1, InAppend DEF TypeInv
      <4>3. QED
        BY <3>2, <4>2 DEF SentInv
    <3>3. QED
      BY <1>8, <3>1, <3>2, CrashStep
  <2>3. UNCHANGED <<queue, sent, answers>>
    BY <1>8 DEF Crash, results
  <2>4. QED
    BY <2>1, <2>2, <2>3 DEF SentInv
<1>9. ASSUME NEW s \in Slots, Restart(s) PROVE SentInv'
  BY <1>9 DEF Restart, SentInv, broker, results
<1>10. QED
  BY <1>1, <1>2, <1>3, <1>4, <1>5, <1>6, <1>7, <1>8, <1>9 DEF Next, Work

\* What a step of slot s does to the copies of t, in numbers.
LEMMA SlotArithmetic ==
    ASSUME TypeInv, TypeInv', NEW s \in Slots, NEW t \in Tasks,
           \A u \in Slots \ {s} : job'[u] = job[u],
           answers[t] + Outstanding(t) <= 1 + extra[t],
           answers'[t] + Count(queue', t) + Count(orphans', t) + One(s \in Unsettled(t)') + extra[t]
             <= answers[t] + Count(queue, t) + Count(orphans, t) + One(s \in Unsettled(t)) + extra'[t]
    PROVE  answers'[t] + Outstanding(t)' <= 1 + extra'[t]
<1>1. /\ answers[t] \in Nat /\ answers'[t] \in Nat /\ extra[t] \in Nat /\ extra'[t] \in Nat
      /\ Count(queue, t) \in Nat /\ Count(orphans, t) \in Nat
      /\ Count(queue', t) \in Nat /\ Count(orphans', t) \in Nat
  BY CountType DEF TypeInv
<1>2. Cardinality(Unsettled(t)) \in Nat /\ Cardinality(Unsettled(t)') \in Nat
  <2>1. IsFiniteSet(Unsettled(t)')
    BY DeliveryAssumption, FS_Subset DEF Unsettled
  <2>2. QED
    BY <2>1, UnsettledType, FS_CardinalityType
<1>3. One(s \in Unsettled(t)) \in Nat /\ One(s \in Unsettled(t)') \in Nat
  BY DEF One
<1>4. Cardinality(Unsettled(t)') + One(s \in Unsettled(t))
        = Cardinality(Unsettled(t)) + One(s \in Unsettled(t)')
  BY UnsettledStep
<1>5. /\ Outstanding(t) = Count(queue, t) + Count(orphans, t) + Cardinality(Unsettled(t))
      /\ Outstanding(t)' = Count(queue', t) + Count(orphans', t) + Cardinality(Unsettled(t)')
  BY DEF Outstanding, Count
<1>6. QED
  BY <1>1, <1>2, <1>3, <1>4, <1>5

LEMMA PaidInductive ==
    TypeInv /\ SentInv /\ AnswersPaidFor /\ [Next]_vars => AnswersPaidFor'
<1> SUFFICES ASSUME TypeInv, SentInv, AnswersPaidFor, [Next]_vars, NEW t \in Tasks
             PROVE  answers'[t] + Outstanding(t)' <= 1 + extra'[t]
  BY DEF AnswersPaidFor, Outstanding, Unsettled
<1>T. TypeInv'
  BY TypeInductive
<1>P. answers[t] + Outstanding(t) <= 1 + extra[t]
  BY DEF AnswersPaidFor
<1>N. /\ answers[t] \in Nat /\ extra[t] \in Nat /\ Count(queue, t) \in Nat /\ Count(orphans, t) \in Nat
      /\ Cardinality(Unsettled(t)) \in Nat
  BY CountType, UnsettledType DEF TypeInv
<1>1. CASE UNCHANGED vars
  BY <1>1, <1>P DEF vars, Outstanding, Count, Unsettled
<1>2. ASSUME NEW u \in Tasks, Submit(u) PROVE answers'[t] + Outstanding(t)' <= 1 + extra'[t]
  <2>1. Message(u, 0) \in Messages /\ Message(u, 0).task = u
    BY DeliveryAssumption DEF Message, Messages
  <2>2. Count(queue', t) = Count(queue, t) + One(u = t)
    BY <1>2, <2>1, CountAppend DEF Submit, TypeInv
  <2>3. Outstanding(t)' = Outstanding(t) + One(u = t)
    <3>1. Unsettled(t)' = Unsettled(t) /\ orphans' = orphans
      BY <1>2 DEF Submit, Unsettled
    <3>2. Outstanding(t)' = Count(queue', t) + Count(orphans', t) + Cardinality(Unsettled(t)')
      BY DEF Outstanding, Count
    <3>3. One(u = t) \in Nat
      BY DEF One
    <3>4. QED
      BY <1>N, <2>2, <3>1, <3>2, <3>3 DEF Outstanding
  <2>4. answers' = answers /\ extra' = extra
    BY <1>2 DEF Submit, results, history
  <2>5. CASE u = t
    <3>1. t \notin sent /\ answers[t] = 0 /\ ~In(queue, t) /\ ~In(orphans, t)
      BY <1>2, <2>5 DEF Submit, SentInv
    <3>2. Where(queue, t) = {} /\ Where(orphans, t) = {}
      BY <3>1 DEF In, Where
    <3>3. Unsettled(t) = {}
      BY <3>1 DEF SentInv, Unsettled
    <3>4. Cardinality({}) = 0
      BY FS_EmptySet
    <3>5. Outstanding(t) = 0
      BY <3>2, <3>3, <3>4 DEF Outstanding, Count, Where
    <3>6. QED
      BY <1>N, <2>3, <2>4, <2>5, <3>1, <3>5 DEF One
  <2>6. CASE u # t
    <3>1. Outstanding(t) \in Nat
      BY <1>N DEF Outstanding
    <3>2. QED
      BY <1>N, <1>P, <2>3, <2>4, <2>6, <3>1 DEF One
  <2>7. QED
    BY <2>5, <2>6
<1>3. CASE Restore
  <2>1. Head(orphans) \in Messages /\ orphans # <<>> /\ orphans' = Tail(orphans)
    BY <1>3, HeadAndTail DEF Restore, TypeInv
  <2>2. Count(orphans, t) = Count(orphans', t) + One(Head(orphans).task = t)
    BY <2>1, CountTail DEF TypeInv
  <2>3. Count(queue', t) = Count(queue, t) + One(Head(orphans).task = t)
    BY <1>3, <2>1, CountAppend DEF Restore, TypeInv
  <2>4. Unsettled(t)' = Unsettled(t) /\ answers' = answers /\ extra' = extra
    BY <1>3 DEF Restore, Unsettled, results, history
  <2>5. Outstanding(t)' = Count(queue', t) + Count(orphans', t) + Cardinality(Unsettled(t)')
    BY DEF Outstanding, Count
  <2>6. One(Head(orphans).task = t) \in Nat /\ Count(orphans', t) \in Nat
    BY <1>T, CountType DEF One, TypeInv
  <2>7. Outstanding(t)' = Outstanding(t)
    BY <1>N, <2>2, <2>3, <2>4, <2>5, <2>6 DEF Outstanding
  <2>8. QED
    BY <1>P, <2>4, <2>7
<1>4. ASSUME NEW s \in Slots, Deliver(s) PROVE answers'[t] + Outstanding(t)' <= 1 + extra'[t]
  <2>1. queue \in Seq(Messages) /\ queue # <<>> /\ queue' = Tail(queue) /\ orphans' = orphans
        /\ answers' = answers /\ extra' = extra
    BY <1>4 DEF TypeInv, Deliver, results, history
  <2>2. Count(queue, t) = Count(queue', t) + One(Head(queue).task = t)
    BY <2>1, CountTail
  <2>3. /\ job[s] = None /\ job'[s] # None /\ job'[s].task = Head(queue).task
        /\ job'[s].stage # "settled"
    BY <1>4, DeliverStep
  <2>4. \A u \in Slots \ {s} : job'[u] = job[u]
    BY <1>4, DeliverStep
  <2>5. One(s \in Unsettled(t)) = 0 /\ One(s \in Unsettled(t)') = One(Head(queue).task = t)
    BY <2>3 DEF One, Unsettled
  <2>6. Count(queue', t) \in Nat /\ One(Head(queue).task = t) \in Nat
    BY <1>T, CountType DEF One, TypeInv
  <2>7. answers'[t] + Count(queue', t) + Count(orphans', t) + One(s \in Unsettled(t)') + extra[t]
          <= answers[t] + Count(queue, t) + Count(orphans, t) + One(s \in Unsettled(t)) + extra'[t]
    BY <1>N, <2>1, <2>2, <2>5, <2>6
  <2>8. QED
    BY <1>T, <1>P, <2>4, <2>7, SlotArithmetic
<1>5. ASSUME NEW s \in Slots, Judged(s) \/ Return(s) \/ Retry(s) \/ GiveUp(s)
      PROVE  answers'[t] + Outstanding(t)' <= 1 + extra'[t]
  <2>1. PICK stage \in Stages :
           /\ job' = [job EXCEPT ![s].stage = stage]
           /\ stage = "settled" \/ Judged(s)
    BY <1>5 DEF Judged, Return, Retry, GiveUp, ResultOut, Stages
  <2>2. job[s] # None /\ job[s].stage # "settled" /\ UNCHANGED <<orphans, extra>>
    BY <1>5 DEF Judged, Return, Retry, GiveUp, broker, history
  <2>3. /\ \A u \in Slots \ {s} : job'[u] = job[u]
        /\ job'[s].task = job[s].task /\ job'[s].stage = stage /\ job[s] \in Jobs
    BY <2>1, <2>2, StageStep
  <2>4. job[s].task \in Tasks /\ job[s].retries \in 0..MaxRetries /\ MaxRetries \in Nat
    BY <2>3, DeliveryAssumption DEF Jobs
  <2>5. /\ One(s \in Unsettled(t)) = One(job[s].task = t)
        /\ One(s \in Unsettled(t)') \in {0, One(s \in Unsettled(t))}
        /\ stage = "settled" => One(s \in Unsettled(t)') = 0
    BY <2>2, <2>3 DEF One, Unsettled
  <2>6. One(job[s].task = t) \in Nat
    BY DEF One
  <2>7. answers'[t] + Count(queue', t) + One(s \in Unsettled(t)')
          <= answers[t] + Count(queue, t) + One(s \in Unsettled(t))
    <3>1. CASE Judged(s)
      BY <1>N, <2>5, <2>6, <3>1 DEF Judged, broker, results
    <3>2. CASE Return(s)
      <4>1. answers'[t] = answers[t] + One(job[s].task = t) /\ queue' = queue
        BY <2>4, <3>2 DEF Return, broker, One, TypeInv
      <4>2. stage = "settled"
        BY <2>1, <3>2 DEF Return, Judged
      <4>3. QED
        BY <1>N, <2>5, <2>6, <4>1, <4>2
    <3>3. CASE Retry(s)
      <4>1. Message(job[s].task, job[s].retries + 1) \in Messages
        BY <2>4, <3>3 DEF Retry, Message, Messages
      <4>2. Message(job[s].task, job[s].retries + 1).task = job[s].task
        BY DEF Message
      <4>3. Count(queue', t) = Count(queue, t) + One(job[s].task = t)
        BY <3>3, <4>1, <4>2, CountAppend DEF Retry, TypeInv
      <4>4. stage = "settled" /\ answers' = answers
        BY <2>1, <3>3 DEF Retry, Judged, results
      <4>5. QED
        BY <1>N, <2>5, <2>6, <4>3, <4>4
    <3>4. CASE GiveUp(s)
      BY <1>N, <2>5, <2>6, <3>4 DEF GiveUp, broker
    <3>5. QED
      BY <1>5, <3>1, <3>2, <3>3, <3>4
  <2>8. answers'[t] \in Nat /\ Count(queue', t) \in Nat
    BY <1>T, CountType DEF TypeInv
  <2>9. answers'[t] + Count(queue', t) + Count(orphans', t) + One(s \in Unsettled(t)') + extra[t]
          <= answers[t] + Count(queue, t) + Count(orphans, t) + One(s \in Unsettled(t)) + extra'[t]
    BY <1>N, <2>2, <2>5, <2>6, <2>7, <2>8
  <2>10. QED
    BY <1>T, <1>P, <2>3, <2>9, SlotArithmetic
<1>6. ASSUME NEW s \in Slots, Ack(s) PROVE answers'[t] + Outstanding(t)' <= 1 + extra'[t]
  <2>1. job'[s] = None /\ job[s].stage = "settled" /\ \A u \in Slots \ {s} : job'[u] = job[u]
    BY <1>6 DEF Ack, TypeInv
  <2>2. One(s \in Unsettled(t)) = 0 /\ One(s \in Unsettled(t)') = 0
    BY <2>1 DEF One, Unsettled
  <2>3. UNCHANGED <<queue, orphans, answers, extra>>
    BY <1>6 DEF Ack, broker, results, history
  <2>4. answers'[t] + Count(queue', t) + Count(orphans', t) + One(s \in Unsettled(t)') + extra[t]
          <= answers[t] + Count(queue, t) + Count(orphans, t) + One(s \in Unsettled(t)) + extra'[t]
    BY <1>N, <2>2, <2>3
  <2>5. QED
    BY <1>T, <1>P, <2>1, <2>4, SlotArithmetic
<1>7. ASSUME NEW s \in Slots, VisibilityTimeout(s)
      PROVE  answers'[t] + Outstanding(t)' <= 1 + extra'[t]
  <2>1. /\ job[s] \in Jobs /\ job[s] # None /\ job'[s] # None
        /\ job'[s].task = job[s].task /\ job'[s].stage = job[s].stage
        /\ \A u \in Slots \ {s} : job'[u] = job[u]
    BY <1>7, TimeoutStep
  <2>2. /\ Message(job[s].task, job[s].retries) \in Messages /\ job[s].task \in Tasks
        /\ Message(job[s].task, job[s].retries).task = job[s].task
    BY <2>1, JobUpdate DEF Message
  <2>3. Count(queue', t) = Count(queue, t) + One(job[s].task = t)
    BY <1>7, <2>2, CountAppend DEF VisibilityTimeout, TypeInv
  <2>4. extra'[t] = extra[t] + One(job[s].task = t)
    BY <1>7, <2>2 DEF VisibilityTimeout, One, TypeInv
  <2>5. One(s \in Unsettled(t)') = One(s \in Unsettled(t))
    BY <2>1 DEF One, Unsettled
  <2>6. One(s \in Unsettled(t)) \in Nat /\ One(job[s].task = t) \in Nat
    BY DEF One
  <2>7. UNCHANGED <<orphans, answers>>
    BY <1>7 DEF VisibilityTimeout, results
  <2>8. answers'[t] + Count(queue', t) + Count(orphans', t) + One(s \in Unsettled(t)') + extra[t]
          <= answers[t] + Count(queue, t) + Count(orphans, t) + One(s \in Unsettled(t)) + extra'[t]
    BY <1>N, <2>3, <2>4, <2>5, <2>6, <2>7
  <2>9. QED
    BY <1>T, <1>P, <2>1, <2>8, SlotArithmetic
<1>8. ASSUME NEW s \in Slots, Crash(s) PROVE answers'[t] + Outstanding(t)' <= 1 + extra'[t]
  <2>1. job'[s] = None /\ \A u \in Slots \ {s} : job'[u] = job[u]
    BY <1>8, CrashStep
  <2>2. One(s \in Unsettled(t)') = 0 /\ One(s \in Unsettled(t)) \in Nat
    BY <2>1 DEF One, Unsettled
  <2>3. UNCHANGED <<queue, answers>>
    BY <1>8 DEF Crash, results
  <2>4. Count(orphans', t) + extra[t] <= Count(orphans, t) + extra'[t]
    <3>1. CASE orphans' = orphans /\ extra' = extra
      BY <1>N, <3>1
    <3>2. CASE /\ job[s] \in Jobs
               /\ orphans' = Append(orphans, Message(job[s].task, job[s].retries))
               /\ extra' = [extra EXCEPT ![job[s].task] = @ + 1]
      <4>1. /\ Message(job[s].task, job[s].retries) \in Messages /\ job[s].task \in Tasks
            /\ Message(job[s].task, job[s].retries).task = job[s].task
        BY <3>2, JobUpdate DEF Message
      <4>2. Count(orphans', t) = Count(orphans, t) + One(job[s].task = t)
        BY <3>2, <4>1, CountAppend DEF TypeInv
      <4>3. extra'[t] = extra[t] + One(job[s].task = t)
        BY <3>2, <4>1 DEF One, TypeInv
      <4>4. One(job[s].task = t) \in Nat
        BY DEF One
      <4>5. QED
        BY <1>N, <4>2, <4>3, <4>4
    <3>3. QED
      BY <1>8, <3>1, <3>2, CrashStep
  <2>5. Count(orphans', t) \in Nat /\ extra'[t] \in Nat
    BY <1>T, CountType DEF TypeInv
  <2>6. answers'[t] + Count(queue', t) + Count(orphans', t) + One(s \in Unsettled(t)') + extra[t]
          <= answers[t] + Count(queue, t) + Count(orphans, t) + One(s \in Unsettled(t)) + extra'[t]
    BY <1>N, <2>2, <2>3, <2>4, <2>5
  <2>7. QED
    BY <1>T, <1>P, <2>1, <2>6, SlotArithmetic
<1>9. ASSUME NEW s \in Slots, Restart(s) PROVE answers'[t] + Outstanding(t)' <= 1 + extra'[t]
  BY <1>9, <1>P DEF Restart, Outstanding, Count, Unsettled, broker, results, history
<1>10. QED
  BY <1>1, <1>2, <1>3, <1>4, <1>5, <1>6, <1>7, <1>8, <1>9 DEF Next, Work

\* The link callback of a submission is called once, plus at most once for
\* every delivery the broker had to repeat: retries never add an answer.
THEOREM CallbacksPaidFor == Spec => []AnswersPaidFor
<1>1. Init => SentInv /\ AnswersPaidFor
  <2> SUFFICES ASSUME Init PROVE SentInv /\ AnswersPaidFor
    OBVIOUS
  <2>1. SentInv
    BY DEF Init, SentInv, In
  <2>2. \A t \in Tasks : Where(queue, t) = {} /\ Where(orphans, t) = {} /\ Unsettled(t) = {}
    BY DEF Init, Where, Unsettled
  <2>3. \A t \in Tasks : Outstanding(t) = 0
    <3>1. Cardinality({}) = 0
      BY FS_EmptySet
    <3>2. \A t \in Tasks : Count(queue, t) = 0 /\ Count(orphans, t) = 0
      BY <2>2, <3>1 DEF Count, Where
    <3>3. QED
      BY <2>2, <3>1, <3>2 DEF Outstanding
  <2>4. QED
    BY <2>1, <2>3 DEF Init, AnswersPaidFor
<1>2. QED
  BY InitType, TypeInductive, SentInductive, PaidInductive, <1>1, PTL DEF Spec
=============================================================================
