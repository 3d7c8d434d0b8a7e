----------------------------- MODULE AuditQueue -----------------------------
(***************************************************************************)
(* OperationAuditQueue of app/platform/audit/queue.py.  The writer task    *)
(* never suspends while the queue has events (get returns at once, the     *)
(* event bus is called synchronously), so it empties the queue in one      *)
(* step.                                                                   *)
(***************************************************************************)
EXTENDS Naturals, Sequences, SequencesExt

CONSTANTS Events, QueueSize

ASSUME AuditAssumption == QueueSize \in Nat \ {0}

VARIABLES queue_set,   \* self._queue is not None
          items,       \* the queue object's events
          writer,      \* "none", "created", "running", "gone"
          accepted,    \* events enqueue returned True for
          refused,     \* events it dropped
          recorded     \* events handed to the event bus

audit == <<queue_set, items, writer, accepted, refused, recorded>>

AuditInit ==
    /\ queue_set = FALSE /\ items = <<>> /\ writer = "none"
    /\ accepted = {} /\ refused = {} /\ recorded = {}

StartAudit ==
    /\ queue_set' = TRUE /\ items' = <<>> /\ writer' = "created"
    /\ UNCHANGED <<accepted, refused, recorded>>

\* the task's first step: _run looks for the queue it was created for
WriterRuns ==
    /\ writer = "created"
    /\ writer' = IF queue_set THEN "running" ELSE "gone"
    /\ UNCHANGED <<queue_set, items, accepted, refused, recorded>>

\* emit_sync: an exception of a subscriber is logged, the event counts as done
Record(events) == recorded' = recorded \cup ToSet(events)

WriterDrains ==
    /\ writer = "running" /\ items # <<>>
    /\ Record(items)
    /\ items' = <<>>
    /\ UNCHANGED <<queue_set, writer, accepted, refused>>

\* put_nowait, or the event is dropped: not started, stopped, or full
Enqueue(e) ==
    /\ e \notin accepted \cup refused
    /\ IF queue_set /\ Len(items) < QueueSize
       THEN /\ items' = Append(items, e) /\ accepted' = accepted \cup {e}
            /\ UNCHANGED refused
       ELSE refused' = refused \cup {e} /\ UNCHANGED <<items, accepted>>
    /\ UNCHANGED <<queue_set, writer, recorded>>

\* stop, under the lock: nothing is accepted from here on
TakeQueue ==
    /\ queue_set' = FALSE
    /\ UNCHANGED <<items, writer, accepted, refused, recorded>>

MutantCancelsAtOnce ==
    /\ writer' = "gone"
    /\ UNCHANGED <<queue_set, items, accepted, refused, recorded>>

\* queue.join() has returned, or there is no writer to wait for and it times
\* out; then the writer is cancelled
CancelWriter ==
    /\ items = <<>> \/ writer # "running"
    /\ writer' = "gone"
    /\ UNCHANGED <<queue_set, items, accepted, refused, recorded>>
=============================================================================
