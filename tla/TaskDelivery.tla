---------------------------- MODULE TaskDelivery ----------------------------
(***************************************************************************)
(* How a submission travels: the API sends judge.execute to the Redis      *)
(* broker, a worker slot takes it, runs execute_judge of                   *)
(* app/modules/judge/tasks.py under BaseTask, and Celery calls the link    *)
(* callback, stores the result and acknowledges.  Celery, the broker and   *)
(* the API are external; the options that fix their behaviour are set in   *)
(* base.py, celery_app.py and celery_setup.py: acknowledge late, one       *)
(* message per slot, automatic retry of every exception, a visibility      *)
(* time-out after which an unacknowledged message is delivered again.  The *)
(* threads pool enforces no time limit, so that can happen mid-judge.      *)
(***************************************************************************)
EXTENDS Integers, Sequences, FiniteSets, SequencesExt

CONSTANTS Tasks, Slots,
          None,
          MaxRetries,     \* retry_kwargs["max_retries"]
          MaxTimeouts,    \* bound: visibility time-outs of running jobs
          MaxCrashes      \* bound: crashes of a slot's process

ASSUME DeliveryAssumption ==
    /\ MaxRetries \in Nat /\ MaxTimeouts \in Nat /\ MaxCrashes \in Nat
    /\ IsFiniteSet(Slots)

Messages == [task : Tasks, retries : 0..MaxRetries]
Stages == {"judging", "returned", "raised", "settled"}
Jobs == [task : Tasks, retries : 0..MaxRetries, stage : Stages, redelivered : BOOLEAN]

ASSUME NoneAssumption == None \notin Jobs \cup {"SUCCESS", "FAILURE"}

VARIABLES valid,      \* valid[t]: the payload passes JudgePayload.model_validate
          queue,      \* the judge queue: messages [task, retries]
          job,        \* job[s]: None, or what slot s is doing
          orphans,    \* unacknowledged messages of dead slots
          up,         \* slots whose process lives
          sent,       \* tasks submitted
          answers,    \* answers[t]: calls of t's link callback
          final,      \* final[t]: what the result backend says
          timeouts, crashes,
          raises,     \* history: exceptions of t that reached BaseTask
          extra       \* history: deliveries of t the broker had to repeat

vars == <<valid, queue, job, orphans, up, sent, answers, final, timeouts, crashes, raises, extra>>
broker == <<queue, orphans>>
faults == <<timeouts, crashes, up>>
history == <<raises, extra>>
results == <<answers, final>>

Message(t, r) == [task |-> t, retries |-> r]

\* redelivered: the broker no longer holds this delivery for the slot
Job(m, stage) == [task |-> m.task, retries |-> m.retries, stage |-> stage, redelivered |-> FALSE]

Init ==
    /\ valid \in [Tasks -> BOOLEAN]
    /\ queue = <<>>
    /\ job = [s \in Slots |-> None]
    /\ orphans = <<>>
    /\ up = Slots
    /\ sent = {}
    /\ answers = [t \in Tasks |-> 0]
    /\ final = [t \in Tasks |-> None]
    /\ timeouts = 0 /\ crashes = 0
    /\ raises = [t \in Tasks |-> 0]
    /\ extra = [t \in Tasks |-> 0]

\* external: apply_async with a link, by the API
Submit(t) ==
    /\ t \notin sent
    /\ sent' = sent \cup {t}
    /\ queue' = Append(queue, Message(t, 0))
    /\ UNCHANGED <<valid, job, orphans, results, faults, history>>

(***************************************************************************)
(* A slot.                                                                 *)
(***************************************************************************)

\* JudgePayload: the fields a judge mode relies on are there
ModelValidate(t) == valid[t]

\* JudgeResultOut of a mode's answer: it has the shape, or validation raises
ResultOut == {"returned", "raised"}

\* execute_judge starts: an invalid payload is answered at once, with FAILED
Deliver(s) ==
    /\ s \in up /\ job[s] = None /\ queue # <<>>
    /\ queue' = Tail(queue)
    /\ LET m == Head(queue) IN
       job' = [job EXCEPT ![s] = Job(m, IF ModelValidate(m.task) THEN "judging" ELSE "returned")]
    /\ UNCHANGED <<valid, orphans, sent, results, faults, history>>

\* orchestrator.judge answers whatever happens
Judged(s) ==
    /\ s \in up /\ job[s] # None /\ job[s].stage = "judging"
    /\ \E stage \in ResultOut :
          /\ job' = [job EXCEPT ![s].stage = stage]
          /\ raises' = [raises EXCEPT ![job[s].task] = IF stage = "raised" THEN @ + 1 ELSE @]
    /\ UNCHANGED <<valid, broker, sent, results, faults, extra>>

\* the backend never replaces a stored SUCCESS
Store(t, state) == final' = [final EXCEPT ![t] = IF @ = "SUCCESS" THEN @ ELSE state]

\* the task returned: link callback, then the result
Return(s) ==
    /\ s \in up /\ job[s] # None /\ job[s].stage = "returned"
    /\ job' = [job EXCEPT ![s].stage = "settled"]
    /\ answers' = [answers EXCEPT ![job[s].task] = @ + 1]
    /\ Store(job[s].task, "SUCCESS")
    /\ UNCHANGED <<valid, broker, sent, faults, history>>

MutantRetryForgets(s) ==
    /\ s \in up /\ job[s] # None /\ job[s].stage = "raised"
    /\ job[s].retries < MaxRetries
    /\ job' = [job EXCEPT ![s].stage = "settled"]
    /\ UNCHANGED <<valid, queue, orphans, sent, results, faults, history>>

MutantRetriesAndReturns(s) ==
    /\ s \in up /\ job[s] # None /\ job[s].stage = "raised"
    /\ job[s].retries < MaxRetries
    /\ job' = [job EXCEPT ![s].stage = "returned"]
    /\ queue' = Append(queue, Message(job[s].task, job[s].retries + 1))
    /\ UNCHANGED <<valid, orphans, sent, results, faults, history>>

\* autoretry_for = (Exception,): a new message, the old one acknowledged later
Retry(s) ==
    /\ s \in up /\ job[s] # None /\ job[s].stage = "raised"
    /\ job[s].retries < MaxRetries
    /\ job' = [job EXCEPT ![s].stage = "settled"]
    /\ queue' = Append(queue, Message(job[s].task, job[s].retries + 1))
    /\ UNCHANGED <<valid, orphans, sent, results, faults, history>>

MutantGivesUpEarly(s) ==
    /\ s \in up /\ job[s] # None /\ job[s].stage = "raised"
    /\ job' = [job EXCEPT ![s].stage = "settled"]
    /\ Store(job[s].task, "FAILURE")
    /\ UNCHANGED <<valid, broker, sent, answers, faults, history>>

\* retries used up: FAILURE is stored, the link callback is not called
GiveUp(s) ==
    /\ s \in up /\ job[s] # None /\ job[s].stage = "raised"
    /\ job[s].retries = MaxRetries
    /\ job' = [job EXCEPT ![s].stage = "settled"]
    /\ Store(job[s].task, "FAILURE")
    /\ UNCHANGED <<valid, broker, sent, answers, faults, history>>

\* late acknowledgement; of a delivery that timed out it has no effect
Ack(s) ==
    /\ s \in up /\ job[s] # None /\ job[s].stage = "settled"
    /\ job' = [job EXCEPT ![s] = None]
    /\ UNCHANGED <<valid, broker, sent, results, faults, history>>

(***************************************************************************)
(* Faults.                                                                 *)
(***************************************************************************)

\* the broker gives up waiting for the acknowledgement of a running job
VisibilityTimeout(s) ==
    /\ timeouts < MaxTimeouts
    /\ s \in up /\ job[s] # None /\ ~job[s].redelivered
    /\ timeouts' = timeouts + 1
    /\ job' = [job EXCEPT ![s].redelivered = TRUE]
    /\ queue' = Append(queue, Message(job[s].task, job[s].retries))
    /\ extra' = [extra EXCEPT ![job[s].task] = @ + 1]
    /\ UNCHANGED <<valid, orphans, up, sent, results, crashes, raises>>

MutantEarlyAck(s) ==
    /\ crashes < MaxCrashes /\ s \in up
    /\ crashes' = crashes + 1
    /\ up' = up \ {s}
    /\ job' = [job EXCEPT ![s] = None]
    /\ UNCHANGED <<valid, queue, orphans, sent, results, timeouts, history>>

\* task_acks_late: what the slot was doing is still with the broker
Crash(s) ==
    /\ crashes < MaxCrashes /\ s \in up
    /\ crashes' = crashes + 1
    /\ up' = up \ {s}
    /\ job' = [job EXCEPT ![s] = None]
    /\ IF job[s] # None /\ ~job[s].redelivered
       THEN /\ orphans' = Append(orphans, Message(job[s].task, job[s].retries))
            /\ extra' = [extra EXCEPT ![job[s].task] = @ + 1]
       ELSE UNCHANGED <<orphans, extra>>
    /\ UNCHANGED <<valid, queue, sent, results, timeouts, raises>>

Restart(s) ==
    /\ s \notin up
    /\ up' = up \cup {s}
    /\ UNCHANGED <<valid, broker, job, sent, results, timeouts, crashes, history>>

\* the message of a dead slot comes back after the same time-out
Restore ==
    /\ orphans # <<>>
    /\ queue' = Append(queue, Head(orphans))
    /\ orphans' = Tail(orphans)
    /\ UNCHANGED <<valid, job, sent, results, faults, history>>

Work(s) == Deliver(s) \/ Judged(s) \/ Return(s) \/ Retry(s) \/ GiveUp(s) \/ Ack(s)

Next ==
    \/ \E t \in Tasks : Submit(t)
    \/ \E s \in Slots : Work(s) \/ VisibilityTimeout(s) \/ Crash(s) \/ Restart(s)
    \/ Restore

\* A judge run ends (JudgeTask), a dead process is started again by its
\* supervisor, and the broker's time-out elapses.
Fairness ==
    /\ \A s \in Slots : WF_vars(Work(s)) /\ WF_vars(Restart(s))
    /\ WF_vars(Restore)

Spec == Init /\ [][Next]_vars /\ Fairness

(***************************************************************************)
(* Properties.                                                             *)
(***************************************************************************)
Count(seq, t) == Cardinality({i \in DOMAIN seq : seq[i].task = t})

Unsettled(t) == {s \in Slots : job[s] # None /\ job[s].task = t /\ job[s].stage # "settled"}

\* Copies of t that will still be answered or fail.
Outstanding(t) == Count(queue, t) + Count(orphans, t) + Cardinality(Unsettled(t))

\* A submission without a stored result is still with the broker or with a
\* slot: no crash, time-out, retry or rejected payload loses it.
NothingLost == \A t \in sent : final[t] # None \/ Outstanding(t) > 0

\* The callback is called once, plus at most once for every delivery the
\* broker repeated after a time-out or a crash: retries alone never produce a
\* second answer, and a job whose delivery was repeated adds exactly one.
AnswersPaidFor == \A t \in Tasks : answers[t] + Outstanding(t) <= 1 + extra[t]

\* A result reaches the backend without any call of the callback only after
\* one delivery raised MaxRetries + 1 times; only a valid payload can.
SilentOnlyAfterRetries ==
    \A t \in Tasks :
        /\ final[t] = "SUCCESS" => answers[t] > 0
        /\ final[t] = "FAILURE" => valid[t] /\ raises[t] > MaxRetries

\* Every submission gets a result, whatever crashes, times out or raises.
EverySubmissionSettles == \A t \in Tasks : t \in sent ~> final[t] # None
=============================================================================
