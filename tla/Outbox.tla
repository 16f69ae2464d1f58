------------------------------- MODULE Outbox -------------------------------
(***************************************************************************)
(* The transactional outbox: the messages that the use cases store, the    *)
(* deliveries of their handlers, and the Celery task that publishes a      *)
(* message (backend/outbox/tasks/publisher.py).  What the handler of an    *)
(* event does is left to the module that extends this one.                 *)
(*                                                                         *)
(* A run of the task holds the row lock of its message from "handling" to  *)
(* the end of its transaction.  When the handler raises, the transaction   *)
(* is rolled back and the failure recorded in a second one, so that        *)
(* another task of the same message may run between the two.               *)
(***************************************************************************)
EXTENDS Integers, FiniteSets

CONSTANTS Messages,   \* rows of OutboxMessage, already committed
          Handled,    \* those whose event type has a registered handler
          Tasks,      \* tasks sent to the broker
          MessageOf,  \* the message each task names; two tasks may share it
          Losable,    \* tasks whose worker may die
          MaxRetries, \* max_retries of the task
          DeadAfter   \* failures after which a message is a dead letter

ASSUME OutboxAssumption ==
    /\ Handled \subseteq Messages
    /\ MessageOf \in [Tasks -> Messages]
    /\ Losable \subseteq Tasks
    /\ MaxRetries \in Nat
    /\ DeadAfter \in Nat \ {0}

VARIABLES status,     \* of a message
          retryCount, \* failures recorded on it
          delivered,  \* messages with an OutboxDelivery row
          phase,      \* where a task is
          attempt     \* retries of a task so far

outboxVars == <<status, retryCount, delivered, phase, attempt>>

Statuses == {"PENDING", "PUBLISHED", "FAILED", "DEAD_LETTER"}
Phases == {"idle", "queued", "handling", "failed", "ended", "lost"}
Open == {"PENDING", "FAILED"}

OutboxTypeOK ==
    /\ status \in [Messages -> Statuses]
    /\ retryCount \in [Messages -> Nat]
    /\ delivered \subseteq Messages
    /\ phase \in [Tasks -> Phases]
    /\ attempt \in [Tasks -> 0..MaxRetries]

OutboxInit ==
    /\ status = [m \in Messages |-> "PENDING"]
    /\ retryCount = [m \in Messages |-> 0]
    /\ delivered = {}
    /\ phase = [t \in Tasks |-> "idle"]
    /\ attempt = [t \in Tasks |-> 0]

-----------------------------------------------------------------------------
Siblings(t) == {u \in Tasks \ {t} : MessageOf[u] = MessageOf[t]}

\* select_for_update on the message has not to wait.
MessageFree(t) == \A u \in Siblings(t) : phase[u] # "handling"

At(t, here) == phase[t] = here
Go(t, there) == phase' = [phase EXCEPT ![t] = there]

\* Somebody calls process_outbox.delay(message.id).
Enqueue(t) ==
    /\ At(t, "idle")
    /\ Go(t, "queued")
    /\ UNCHANGED <<status, retryCount, delivered, attempt>>

\* The message is locked, open, and has a handler.
Begin(t) ==
    /\ At(t, "queued")
    /\ MessageFree(t)
    /\ status[MessageOf[t]] \in Open
    /\ MessageOf[t] \in Handled
    /\ Go(t, "handling")
    /\ UNCHANGED <<status, retryCount, delivered, attempt>>

\* LookupError: no handler is registered for the event.
LookupFails(t) ==
    /\ At(t, "queued")
    /\ MessageFree(t)
    /\ status[MessageOf[t]] \in Open
    /\ MessageOf[t] \notin Handled
    /\ Go(t, "failed")
    /\ UNCHANGED <<status, retryCount, delivered, attempt>>

\* Published already, or not to be processed from its status.
Skip(t) ==
    /\ At(t, "queued")
    /\ MessageFree(t)
    /\ status[MessageOf[t]] \notin Open
    /\ Go(t, "ended")
    /\ UNCHANGED <<status, retryCount, delivered, attempt>>

\* The handler returned: delivery and status are committed with its effect.
Publish(t) ==
    /\ At(t, "handling")
    /\ Go(t, "ended")
    /\ delivered' = delivered \cup {MessageOf[t]}
    /\ status' = [status EXCEPT ![MessageOf[t]] = "PUBLISHED"]
    /\ UNCHANGED <<retryCount, attempt>>

\* The handler, or the database, raised: the transaction is rolled back.
HandlerFails(t) ==
    /\ At(t, "handling")
    /\ Go(t, "failed")
    /\ UNCHANGED <<status, retryCount, delivered, attempt>>

\* The status that _record_failure gives to a message.
StatusAfter(failures) == IF failures >= DeadAfter THEN "DEAD_LETTER" ELSE "FAILED"

\* Mutant: no retry at all.
MayRetryNever(t) == attempt[t] < 0

\* self.retry sends the task again.
MayRetry(t) == attempt[t] < MaxRetries

\* _record_failure, which looks at no status, and self.retry.
RecordFailure(t) ==
    LET m == MessageOf[t] IN
    /\ At(t, "failed")
    /\ MessageFree(t)
    /\ retryCount' = [retryCount EXCEPT ![m] = @ + 1]
    /\ status' = [status EXCEPT ![m] = StatusAfter(retryCount[m] + 1)]
    /\ \/ /\ MayRetry(t)
          /\ attempt' = [attempt EXCEPT ![t] = @ + 1]
          /\ Go(t, "queued")
       \/ /\ ~MayRetry(t)
          /\ Go(t, "ended")
          /\ UNCHANGED attempt
    /\ UNCHANGED delivered

\* The worker dies, or the failure cannot be recorded: the task was
\* acknowledged when it was taken, so nobody runs it again.
Lose(t) ==
    /\ t \in Losable
    /\ phase[t] \in {"queued", "handling", "failed"}
    /\ Go(t, "lost")
    /\ UNCHANGED <<status, retryCount, delivered, attempt>>

-----------------------------------------------------------------------------
(* Properties of the outbox under any handler.                             *)

\* _record_failure makes a message a dead letter exactly at its third
\* failure, whichever task fails and whatever other tasks of it publish.
DeadAtLimit ==
    \A m \in Messages : status[m] = "DEAD_LETTER" <=> retryCount[m] >= DeadAfter

\* process_outbox publishes a message only together with its delivery, also
\* when failures of other tasks reopen the message in between.
PublishedIsDelivered ==
    \A m \in Messages : status[m] = "PUBLISHED" => m \in delivered

\* A dead letter is never processed or revived by a task that is still around.
DeadStaysDead ==
    [][\A m \in Messages :
         status[m] = "DEAD_LETTER" => /\ status'[m] = "DEAD_LETTER"
                                      /\ m \in delivered' => m \in delivered]_outboxVars

\* Every task sent to a live worker brings its message to an end: published,
\* or a dead letter after the retries.
TasksSettle ==
    \A t \in Tasks :
        phase[t] = "queued" ~> \/ status[MessageOf[t]] \notin Open
                               \/ phase[t] = "lost"
=============================================================================
