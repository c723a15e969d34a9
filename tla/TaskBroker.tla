------------------------------ MODULE TaskBroker ------------------------------
(***************************************************************************)
(* The PostgreSQL task broker of authentik's worker                        *)
(* (packages/django-dramatiq-postgres, broker.py) and the dramatiq worker  *)
(* that drives it.                                                         *)
(*                                                                         *)
(* A task is a row of one table.  Every worker process runs one consumer   *)
(* per queue: the actor queue ("main") and its delay queue ("dq").  A      *)
(* consumer learns of rows from NOTIFY and, when that stays silent, from a *)
(* query; it claims a row by a session-level advisory lock taken in the    *)
(* WHERE clause of the UPDATE that marks the row consumed.  Worker threads *)
(* run the message and acknowledge it; the lock is given back later, by    *)
(* the consumer's own session, through unlock_queue.                       *)
(*                                                                         *)
(* Time is abstracted: an interval may have elapsed or not.  The order of  *)
(* a notification list is abstracted to a set.                             *)
(***************************************************************************)
EXTENDS Naturals, FiniteSets

CONSTANTS
    Procs,          \* worker processes
    Msgs,           \* message ids
    Tenants,        \* tenants a request may send a task from
    DefaultTenant,  \* the tenant of a thread in which no tenant was activated
    MaxRetries,     \* worker.task_max_retries
    Prefetch,       \* messages a consumer may have in processing
    MaxApiRetries,  \* bound: restarts of a task through the API
    MaxLosses,      \* bound: database sessions lost under a consumer
    MaxCrashes,     \* bound: worker processes killed
    MaxStops        \* bound: worker processes shut down gracefully

ASSUME BrokerAssumption ==
    /\ MaxRetries \in Nat /\ Prefetch \in Nat \ {0}
    /\ MaxApiRetries \in Nat /\ MaxLosses \in Nat
    /\ MaxCrashes \in Nat /\ MaxStops \in Nat
    /\ DefaultTenant \in Tenants

VARIABLES
    row,            \* the task table
    lock,           \* lock[c][m]: times consumer c's session holds the lock of m
    pc,             \* how far a consumer object has come
    inbox,          \* NOTIFYs waiting on a consumer's listen connection
    notifies,       \* _PostgresConsumer.notifies
    snapshot,       \* the row __next__ has read and is about to claim
    in_processing,  \* _PostgresConsumer.in_processing
    unlock_queue,   \* _PostgresConsumer.unlock_queue, as a multiset
    gen,            \* number of consumer objects a consumer thread has used
    delivery,       \* messages handed to a process and not yet acknowledged
    api,            \* restarts checked by the API and not yet enqueued
    failures,       \* history: failed runs of a message
    succeeded,      \* history: messages with a successful run since last enqueued
    misrouted,      \* history: a consumer claimed a message of the other queue
    losses, crashes, stops, apiRetries

table == <<row, lock>>
consumers == <<pc, inbox, notifies, snapshot, in_processing, unlock_queue, gen>>
history == <<failures, succeeded, misrouted>>
bounds == <<losses, crashes, stops, apiRetries>>
vars == <<table, consumers, delivery, api, history, bounds>>

-----------------------------------------------------------------------------
(* Values *)

Queues == {"main", "dq"}
Consumers == Procs \X Queues
TaskState == {"queued", "consumed", "rejected", "done"}
Finished == {"rejected", "done"}
Open == {"queued", "consumed"}

Message == [m : Msgs, queue : Queues, retries : 0..MaxRetries, tenant : Tenants]
Row == [state : TaskState \cup {"unsent", "deleted"},
        queue : Queues, retries : 0..MaxRetries, tenant : Tenants]

\* "waiting": in the work queue (or, for a message with an eta, in the
\* consumer thread's delay queue); "ended" and "failed": processed, ack or nack
\* to come; "acked" and "put": half way through ack or nack.
Phase == {"waiting", "running", "ended", "failed", "acked", "put"}
Delivery == [c : Consumers, gen : Nat, msg : Message, phase : Phase]

\* The consumer thread whose ack or nack a delivery goes through: worker threads
\* look it up by the message's queue, delayed messages stay with their thread.
PostConsumer(d) == IF d.msg.queue = "dq" THEN d.c ELSE <<d.c[1], d.msg.queue>>

NoLocks == [m \in Msgs |-> 0]

\* Mutant: claimed rows are not looked for again.
PendingQueuedOnly(c) ==
    {m \in Msgs : row[m].state = "queued" /\ row[m].queue = c[2]} \ in_processing[c]

Pending(c) ==
    {m \in Msgs : row[m].state \in Open /\ row[m].queue = c[2]} \ in_processing[c]

Listening(c) == pc[c] = "loop"

\* The consumer thread is between two statements of its loop, and not in the middle
\* of forwarding and acknowledging a delayed message.
Forwarding(c) ==
    \E d \in delivery : d.c = c /\ d.msg.queue = "dq" /\ d.phase # "waiting"
Idle(c) == Listening(c) /\ snapshot[c] = {} /\ ~Forwarding(c)

-----------------------------------------------------------------------------
(* Enqueueing *)

\* The deferred trigger notify_enqueueing, at the commit of a row that is queued.
Notify(ms) ==
    inbox' = [c \in Consumers |->
                IF Listening(c)
                THEN inbox[c] \cup {m \in ms : row'[m].queue = c[2]}
                ELSE inbox[c]]

\* PostgresBroker.enqueue: update_or_create by message_id, with the tenant
\* TenantMiddleware.before_enqueue finds active in the calling thread.
Enqueue(m, queue, retries, tenant) ==
    /\ row' = [row EXCEPT ![m] = [state |-> "queued", queue |-> queue,
                                  retries |-> retries, tenant |-> tenant]]
    /\ Notify({m})

\* actor.send() in a request or another task: a new message.
Send(m) ==
    /\ row[m].state = "unsent"
    /\ \E t \in Tenants : Enqueue(m, "main", 0, t)
    /\ UNCHANGED <<lock, pc, notifies, snapshot, in_processing, unlock_queue, gen,
                   delivery, api, history, bounds>>

\* TaskViewSet.retry reads the task and checks its state ...
RetryCheck(m) ==
    /\ apiRetries < MaxApiRetries
    /\ row[m].state \in Finished
    /\ api' = api \cup {[m |-> m, queue |-> row[m].queue,
                         retries |-> row[m].retries, tenant |-> row[m].tenant]}
    /\ apiRetries' = apiRetries + 1
    /\ UNCHANGED <<table, consumers, delivery, history, losses, crashes, stops>>

\* ... and enqueues the message it read; only tasks of the current tenant are found.
RetryEnqueue(r) ==
    /\ r \in api
    /\ api' = api \ {r}
    /\ Enqueue(r.m, r.queue, r.retries, r.tenant)
    /\ succeeded' = succeeded \ {r.m}
    /\ UNCHANGED <<lock, pc, notifies, snapshot, in_processing, unlock_queue, gen,
                   delivery, failures, misrouted, bounds>>

-----------------------------------------------------------------------------
(* The consumer: _PostgresConsumer.__next__, a step per statement that reaches *)
(* the database.                                                               *)

\* First call: missed rows are fetched before LISTEN is issued.
FetchFirst(c) ==
    /\ pc[c] = "new"
    /\ pc' = [pc EXCEPT ![c] = "fetched"]
    /\ notifies' = [notifies EXCEPT ![c] = Pending(c)]
    /\ UNCHANGED <<table, inbox, snapshot, in_processing, unlock_queue, gen,
                   delivery, api, history, bounds>>

Listen(c) ==
    /\ pc[c] = "fetched"
    /\ pc' = [pc EXCEPT ![c] = "loop"]
    /\ UNCHANGED <<table, inbox, notifies, snapshot, in_processing, unlock_queue, gen,
                   delivery, api, history, bounds>>

\* _purge_locks, when its interval has elapsed.  pg_advisory_unlock of a lock the
\* session does not hold does nothing.
PurgeLocks(c) ==
    /\ Idle(c) /\ unlock_queue[c] # NoLocks
    /\ lock' = [lock EXCEPT ![c] =
                  [m \in Msgs |-> IF lock[c][m] > unlock_queue[c][m]
                                  THEN lock[c][m] - unlock_queue[c][m] ELSE 0]]
    /\ unlock_queue' = [unlock_queue EXCEPT ![c] = NoLocks]
    /\ UNCHANGED <<row, pc, inbox, notifies, snapshot, in_processing, gen,
                   delivery, api, history, bounds>>

MayConsume(c) ==
    /\ Idle(c)
    /\ Cardinality(in_processing[c]) < Prefetch

\* _poll_for_notify returned: stop_after=1 yields at least one notification.
Poll(c) ==
    /\ MayConsume(c) /\ notifies[c] = {}
    /\ \E ms \in SUBSET inbox[c] \ {{}} :
          /\ notifies' = [notifies EXCEPT ![c] = ms]
          /\ inbox' = [inbox EXCEPT ![c] = @ \ ms]
    /\ UNCHANGED <<table, pc, snapshot, in_processing, unlock_queue, gen,
                   delivery, api, history, bounds>>

\* The poll timed out: _fetch_pending_notifies.
FetchPending(c) ==
    /\ MayConsume(c) /\ notifies[c] = {} /\ inbox[c] = {}
    /\ Pending(c) # {}
    /\ notifies' = [notifies EXCEPT ![c] = Pending(c)]
    /\ UNCHANGED <<table, pc, inbox, snapshot, in_processing, unlock_queue, gen,
                   delivery, api, history, bounds>>

\* A notification is popped and its row read; the message decoded here is the
\* one that will run.
Pop(c) ==
    /\ MayConsume(c)
    /\ \E m \in notifies[c] :
          /\ notifies' = [notifies EXCEPT ![c] = @ \ {m}]
          /\ snapshot' = [snapshot EXCEPT ![c] =
                IF row[m].state \in TaskState
                THEN {[m |-> m, queue |-> row[m].queue,
                       retries |-> row[m].retries, tenant |-> row[m].tenant]}
                ELSE {}]
    /\ UNCHANGED <<table, pc, inbox, in_processing, unlock_queue, gen,
                   delivery, api, history, bounds>>

\* Mutant: the claim does not depend on the advisory lock.
LockIgnored(c, m) == TRUE

\* The advisory lock of m is keyed by the consumer's queue: sessions of the same
\* queue exclude each other, and a session may take its own lock again.
LockFree(c, m) ==
    \A o \in Consumers : o # c /\ o[2] = c[2] => lock[o][m] = 0

\* _consume_one matched the row: it is locked, marked and handed to the worker.
Claim(c, s) ==
    /\ lock' = [lock EXCEPT ![c][s.m] = @ + 1]
    /\ row' = [row EXCEPT ![s.m].state = "consumed"]
    /\ in_processing' = [in_processing EXCEPT ![c] = @ \cup {s.m}]
    /\ delivery' = delivery \cup
          {[c |-> c, gen |-> gen[c], msg |-> s, phase |-> "waiting"]}
    /\ misrouted' = (misrouted \/ s.queue # c[2] \/ row[s.m].queue # c[2])

\* Mutant: the claim does not filter on the state of the row.
ConsumeAnyState(c) ==
    /\ Listening(c)
    /\ \E s \in snapshot[c] :
       /\ snapshot' = [snapshot EXCEPT ![c] = {}]
       /\ IF s.m \notin in_processing[c] /\ LockFree(c, s.m)
          THEN Claim(c, s)
          ELSE UNCHANGED <<lock, row, in_processing, delivery, misrouted>>
    /\ UNCHANGED <<pc, inbox, notifies, unlock_queue, gen, api, failures, succeeded, bounds>>

\* _consume_one: the row is matched by message_id and state only.
ConsumeOne(c) ==
    /\ Listening(c)
    /\ \E s \in snapshot[c] :
       /\ snapshot' = [snapshot EXCEPT ![c] = {}]
       /\ IF /\ s.m \notin in_processing[c]
             /\ row[s.m].state \in Open
             /\ LockFree(c, s.m)
          THEN Claim(c, s)
          ELSE UNCHANGED <<lock, row, in_processing, delivery, misrouted>>
    /\ UNCHANGED <<pc, inbox, notifies, unlock_queue, gen, api, failures, succeeded, bounds>>

\* _auto_purge, once the notification list is drained and its interval elapsed:
\* finished rows whose result expired are deleted.
AutoPurge(c) ==
    /\ MayConsume(c) /\ notifies[c] = {}
    /\ \E ms \in SUBSET {m \in Msgs : row[m].state \in Finished} \ {{}} :
          row' = [m \in Msgs |-> IF m \in ms THEN [row[m] EXCEPT !.state = "deleted"]
                                 ELSE row[m]]
    /\ UNCHANGED <<lock, consumers, delivery, api, history, bounds>>

-----------------------------------------------------------------------------
(* The worker threads *)

Advance(d, phase) == delivery' = (delivery \ {d}) \cup {[d EXCEPT !.phase = phase]}

\* A worker thread takes a message from the work queue.
Process(d) ==
    /\ d \in delivery /\ d.phase = "waiting" /\ d.msg.queue = "main"
    /\ pc[d.c] # "stopped"
    /\ Advance(d, "running")
    /\ UNCHANGED <<table, consumers, api, history, bounds>>

Succeed(d) ==
    /\ d \in delivery /\ d.phase = "running"
    /\ Advance(d, "ended")
    /\ succeeded' = succeeded \cup {d.msg.m}
    /\ UNCHANGED <<table, consumers, api, failures, misrouted, bounds>>

\* Retries.after_process_message: the same message goes to the delay queue.
\* TenantMiddleware has deactivated the task's tenant by then.
Retry(d) ==
    /\ d \in delivery /\ d.phase = "running"
    /\ d.msg.retries < MaxRetries
    /\ Enqueue(d.msg.m, "dq", d.msg.retries + 1, DefaultTenant)
    /\ delivery' = (delivery \ {d})
          \cup {[d EXCEPT !.phase = "ended", !.msg.retries = @ + 1]}
    /\ failures' = [failures EXCEPT ![d.msg.m] = @ + 1]
    /\ succeeded' = succeeded \ {d.msg.m}
    /\ UNCHANGED <<lock, pc, notifies, snapshot, in_processing, unlock_queue, gen,
                   api, misrouted, bounds>>

\* Mutant: the message is failed while retries are left.
GiveUpEarly(d) ==
    /\ d \in delivery /\ d.phase = "running"
    /\ Advance(d, "failed")
    /\ failures' = [failures EXCEPT ![d.msg.m] = @ + 1]
    /\ UNCHANGED <<table, consumers, api, succeeded, misrouted, bounds>>

\* Retries exhausted: the message is marked failed.
GiveUp(d) ==
    /\ d \in delivery /\ d.phase = "running"
    /\ d.msg.retries = MaxRetries
    /\ Advance(d, "failed")
    /\ failures' = [failures EXCEPT ![d.msg.m] = @ + 1]
    /\ UNCHANGED <<table, consumers, api, succeeded, misrouted, bounds>>

\* handle_delayed_messages: the eta has passed, a copy goes to the actor queue
\* from the consumer thread, where no tenant is active.
DelayElapsed(d) ==
    /\ d \in delivery /\ d.phase = "waiting" /\ d.msg.queue = "dq"
    /\ Idle(d.c)
    /\ Enqueue(d.msg.m, "main", d.msg.retries, DefaultTenant)
    /\ Advance(d, "ended")
    /\ succeeded' = succeeded \ {d.msg.m}
    /\ UNCHANGED <<lock, pc, notifies, snapshot, in_processing, unlock_queue, gen,
                   api, failures, misrouted, bounds>>

\* ack, first statement: the row is done if it is still this delivery's.  A delayed
\* message is acknowledged on the consumer's own session.
Ack(d) ==
    /\ d \in delivery /\ d.phase = "ended"
    /\ d.msg.queue = "dq" => Listening(d.c)
    /\ row' = IF row[d.msg.m].queue = d.msg.queue /\ row[d.msg.m].state = "consumed"
              THEN [row EXCEPT ![d.msg.m].state = "done", ![d.msg.m].retries = d.msg.retries]
              ELSE row
    /\ Advance(d, "acked")
    /\ UNCHANGED <<lock, consumers, api, history, bounds>>

\* nack, first statement: any state but rejected.
Nack(d) ==
    /\ d \in delivery /\ d.phase = "failed"
    /\ row' = IF row[d.msg.m].queue = d.msg.queue /\ row[d.msg.m].state \in TaskState
              THEN [row EXCEPT ![d.msg.m].state = "rejected", ![d.msg.m].retries = d.msg.retries]
              ELSE row
    /\ Advance(d, "acked")
    /\ UNCHANGED <<lock, consumers, api, history, bounds>>

\* ack and nack, second statement: unlock_queue.put_nowait.
PutUnlock(d) ==
    /\ d \in delivery /\ d.phase = "acked"
    /\ unlock_queue' = [unlock_queue EXCEPT ![PostConsumer(d)][d.msg.m] = @ + 1]
    /\ Advance(d, "put")
    /\ UNCHANGED <<table, pc, inbox, notifies, snapshot, in_processing, gen,
                   api, history, bounds>>

\* ack and nack, third statement: in_processing.remove, a KeyError when the
\* consumer object does not have the message.
RemoveProcessing(d) ==
    /\ d \in delivery /\ d.phase = "put"
    /\ in_processing' = [in_processing EXCEPT ![PostConsumer(d)] = @ \ {d.msg.m}]
    /\ delivery' = delivery \ {d}
    /\ UNCHANGED <<table, pc, inbox, notifies, snapshot, unlock_queue, gen,
                   api, history, bounds>>

-----------------------------------------------------------------------------
(* Faults *)

\* State of a consumer thread that starts over with a new consumer object.
Renew(cs) ==
    /\ pc' = [c \in Consumers |-> IF c \in cs THEN "new" ELSE pc[c]]
    /\ notifies' = [c \in Consumers |-> IF c \in cs THEN {} ELSE notifies[c]]
    /\ snapshot' = [c \in Consumers |-> IF c \in cs THEN {} ELSE snapshot[c]]
    /\ in_processing' = [c \in Consumers |-> IF c \in cs THEN {} ELSE in_processing[c]]
    /\ unlock_queue' = [c \in Consumers |-> IF c \in cs THEN NoLocks ELSE unlock_queue[c]]
    /\ gen' = [c \in Consumers |-> IF c \in cs THEN gen[c] + 1 ELSE gen[c]]

Release(cs) == lock' = [c \in Consumers |-> IF c \in cs THEN NoLocks ELSE lock[c]]
Hangup(cs) == inbox' = [c \in Consumers |-> IF c \in cs THEN {} ELSE inbox[c]]

\* The server ends a consumer's session: its locks are gone, its worker threads run on.
LoseSession(c) ==
    /\ losses < MaxLosses /\ losses' = losses + 1
    /\ Listening(c)
    /\ pc' = [pc EXCEPT ![c] = "lost"]
    /\ Release({c}) /\ Hangup({c})
    /\ UNCHANGED <<row, notifies, snapshot, in_processing, unlock_queue, gen,
                   delivery, api, history, crashes, stops, apiRetries>>

\* The consumer's next statement raises ConnectionError; the thread drops its delay
\* queue and asks the broker for a new consumer.
Reconnect(c) ==
    /\ pc[c] = "lost" /\ ~Forwarding(c)
    /\ Renew({c})
    /\ delivery' = {d \in delivery : ~(d.c = c /\ d.msg.queue = "dq" /\ d.phase = "waiting")}
    /\ UNCHANGED <<table, inbox, api, history, bounds>>

ConsumersOf(p) == {<<p, q>> : q \in Queues}

\* A worker process is killed and started again.
Crash(p) ==
    /\ crashes < MaxCrashes /\ crashes' = crashes + 1
    /\ Renew(ConsumersOf(p)) /\ Release(ConsumersOf(p)) /\ Hangup(ConsumersOf(p))
    /\ delivery' = {d \in delivery : d.c[1] # p}
    /\ UNCHANGED <<row, api, history, losses, stops, apiRetries>>

\* Worker.stop: worker threads are joined, then the consumer threads end and close
\* their sessions (DbConnectionMiddleware.before_consumer_thread_shutdown) ...
StopConsumers(p) ==
    /\ stops < MaxStops /\ stops' = stops + 1
    /\ \A c \in ConsumersOf(p) : Idle(c)
    /\ \A d \in delivery : d.c[1] = p => d.phase = "waiting"
    /\ pc' = [c \in Consumers |-> IF c[1] = p THEN "stopped" ELSE pc[c]]
    /\ Release(ConsumersOf(p)) /\ Hangup(ConsumersOf(p))
    /\ UNCHANGED <<row, notifies, snapshot, in_processing, unlock_queue, gen,
                   delivery, api, history, losses, crashes, apiRetries>>

\* Mutant: a row that was purged meanwhile is created again.
RequeueCreates(p) ==
    LET ms == {d.msg.m : d \in {e \in delivery : e.c[1] = p}}
    IN  /\ pc[<<p, "main">>] = "stopped"
        /\ row' = [m \in Msgs |-> IF m \in ms THEN [row[m] EXCEPT !.state = "queued"]
                                  ELSE row[m]]
        /\ Notify(ms)
        /\ Renew(ConsumersOf(p))
        /\ delivery' = {d \in delivery : d.c[1] # p}
        /\ UNCHANGED <<lock, api, history, bounds>>

\* ... and only then are the messages still in memory requeued, whatever the state
\* of their rows.  The process is started again.
Requeue(p) ==
    LET left == {d.msg.m : d \in {e \in delivery : e.c[1] = p}}
        ms == {m \in left : row[m].state \in TaskState}
    IN  /\ pc[<<p, "main">>] = "stopped"
        /\ row' = [m \in Msgs |-> IF m \in ms THEN [row[m] EXCEPT !.state = "queued"]
                                  ELSE row[m]]
        /\ Notify(ms)
        /\ Renew(ConsumersOf(p))
        /\ delivery' = {d \in delivery : d.c[1] # p}
        /\ UNCHANGED <<lock, api, history, bounds>>

-----------------------------------------------------------------------------
Init ==
    /\ row \in [Msgs -> {[state |-> "unsent", queue |-> "main", retries |-> 0,
                          tenant |-> DefaultTenant]}]
    /\ lock = [c \in Consumers |-> NoLocks]
    /\ pc = [c \in Consumers |-> "new"]
    /\ inbox = [c \in Consumers |-> {}]
    /\ notifies = [c \in Consumers |-> {}]
    /\ snapshot = [c \in Consumers |-> {}]
    /\ in_processing = [c \in Consumers |-> {}]
    /\ unlock_queue = [c \in Consumers |-> NoLocks]
    /\ gen = [c \in Consumers |-> 0]
    /\ delivery = {} /\ api = {}
    /\ failures = [m \in Msgs |-> 0] /\ succeeded = {} /\ misrouted = FALSE
    /\ losses = 0 /\ crashes = 0 /\ stops = 0 /\ apiRetries = 0

ConsumerStep(c) ==
    \/ FetchFirst(c) \/ Listen(c) \/ PurgeLocks(c) \/ Poll(c)
    \/ FetchPending(c) \/ Pop(c) \/ ConsumeOne(c) \/ Reconnect(c)

WorkerStep(d) ==
    \/ Process(d) \/ Succeed(d) \/ Retry(d) \/ GiveUp(d) \/ DelayElapsed(d)
    \/ Ack(d) \/ Nack(d) \/ PutUnlock(d) \/ RemoveProcessing(d)

Next ==
    \/ \E m \in Msgs : Send(m) \/ RetryCheck(m)
    \/ \E r \in api : RetryEnqueue(r)
    \/ \E c \in Consumers : ConsumerStep(c) \/ AutoPurge(c) \/ LoseSession(c)
    \/ \E d \in delivery : WorkerStep(d)
    \/ \E p \in Procs : Crash(p) \/ StopConsumers(p) \/ Requeue(p)

Spec == Init /\ [][Next]_vars

\* Consumer and worker threads keep running: they are loops without exit while
\* the process lives, and a killed or stopped process is started again.  A purge
\* interval elapses.  Nobody has to lose a session, crash or call the API, but a
\* call that passed its check goes on to enqueue.
Fairness ==
    /\ \A c \in Consumers : WF_vars(ConsumerStep(c)) /\ WF_vars(PurgeLocks(c))
    /\ \A p \in Procs, m \in Msgs :
          WF_vars(\E d \in delivery : d.c[1] = p /\ d.msg.m = m /\ WorkerStep(d))
    /\ \A p \in Procs : WF_vars(Requeue(p))
    /\ WF_vars(\E r \in api : RetryEnqueue(r))

FairSpec == Spec /\ Fairness

-----------------------------------------------------------------------------
(* Properties *)

\* Every variable stays in its domain; in particular no message is enqueued with
\* more than worker.task_max_retries retries.
TypeOK ==
    /\ row \in [Msgs -> Row]
    /\ lock \in [Consumers -> [Msgs -> Nat]]
    /\ pc \in [Consumers -> {"new", "fetched", "loop", "lost", "stopped"}]
    /\ inbox \in [Consumers -> SUBSET Msgs]
    /\ notifies \in [Consumers -> SUBSET Msgs]
    /\ snapshot \in [Consumers -> SUBSET Message]
    /\ in_processing \in [Consumers -> SUBSET Msgs]
    /\ unlock_queue \in [Consumers -> [Msgs -> Nat]]
    /\ gen \in [Consumers -> Nat]
    /\ delivery \subseteq Delivery
    /\ api \subseteq Message
    /\ failures \in [Msgs -> Nat] /\ succeeded \subseteq Msgs
    /\ misrouted \in BOOLEAN
    /\ losses \in Nat /\ crashes \in Nat /\ stops \in Nat /\ apiRetries \in Nat

\* No consumer has lost its session under a running task, and none has claimed a
\* message that had moved to the other queue between its read and its claim.
Orderly == losses = 0 /\ ~misrouted

\* No two threads, of one worker or of two, run the same task at the same time.
Exclusive ==
    \A d, e \in delivery :
       d.msg.m = e.msg.m /\ d.phase = "running" /\ e.phase = "running" => d = e

\* The advisory lock of _consume_one keeps a task from being run twice at a time
\* through every interleaving of claims, acknowledgements, late unlocks, crashes and
\* shutdowns, as long as sessions live and messages are claimed on their own queue.
MutualExclusion == Orderly => Exclusive

\* A session holds the lock of a message exactly as often as it has deliveries that
\* are not given back plus unlocks waiting in unlock_queue: the re-entrant locks that
\* _consume_one takes and _purge_locks releases never leak and are never released
\* under another delivery.
LockAccounting ==
    Orderly => \A c \in Consumers, m \in Msgs : pc[c] = "loop" =>
       lock[c][m] = unlock_queue[c][m] +
          (IF \E d \in delivery : d.c = c /\ d.msg.m = m /\ d.phase # "put" THEN 1 ELSE 0)

\* A consumer's prefetch slots (in_processing) are taken exactly by the messages
\* whose delivery it has not finished: no slot leaks and none is freed early.
SlotAccounting ==
    Orderly => \A c \in Consumers : pc[c] # "stopped" =>
       in_processing[c] = {d.msg.m : d \in {e \in delivery : e.c = c}}

\* A row is done only after a run that succeeded since it was last enqueued: the
\* late acknowledgement of a failed attempt, or of its delayed copy, never marks
\* the retried task done.
DoneAfterSuccess ==
    Orderly => \A m \in Msgs : row[m].state = "done" => m \in succeeded

\* A task is rejected only when every attempt it is entitled to has failed.
RetriesExhausted ==
    \A m \in Msgs : row[m].state = "rejected" => failures[m] > MaxRetries

\* A finished task is opened again only by a restart through the API, unless two
\* such restarts overlap or a shutdown requeues what another worker has finished.
FinishedStays ==
    [][Orderly /\ stops = 0 /\ apiRetries <= 1 => \A m \in Msgs :
         row[m].state \in Finished /\ row'[m].state \in Open
            => \E r \in api : r.m = m /\ r \notin api']_vars

\* Every task that is sent ends, whatever NOTIFY is missed, and whether the worker
\* that had claimed it crashes, stops or fails the task, as long as sessions live and
\* messages are claimed on their own queue.
EveryTaskEnds ==
    \A m \in Msgs : row[m].state \in Open ~> row[m].state \in Finished \/ ~Orderly

\* A task keeps the tenant it was sent from for as long as its row exists.
TenantKept ==
    [][\A m \in Msgs : row[m].state \in TaskState => row'[m].tenant = row[m].tenant]_vars

-----------------------------------------------------------------------------
(* The inductive invariant behind the safety properties: what holds as long as *)
(* Orderly does, in parts.                                                     *)

Delivered(c, m) == \E d \in delivery : d.c = c /\ d.msg.m = m
Held(c, m) == \E d \in delivery : d.c = c /\ d.msg.m = m /\ d.phase # "put"

NoneLost == \A c \in Consumers : pc[c] # "lost"
OwnQueue == \A d \in delivery : d.msg.queue = d.c[2]
RunsOnMain == \A d \in delivery : d.phase = "running" => d.msg.queue = "main"
OneDelivery == \A d, e \in delivery : d.c = e.c /\ d.msg.m = e.msg.m => d = e
Slots == \A c \in Consumers, m \in Msgs : m \in in_processing[c] <=> Delivered(c, m)
Locks ==
    \A c \in Consumers, m \in Msgs : pc[c] # "stopped" =>
       lock[c][m] = unlock_queue[c][m] + (IF Held(c, m) THEN 1 ELSE 0)
LockOwner ==
    \A c, o \in Consumers, m \in Msgs :
       c[2] = o[2] /\ lock[c][m] > 0 /\ lock[o][m] > 0 => c = o
Halted ==
    /\ \A c \in Consumers : pc[c] = "stopped" =>
          /\ lock[c] = NoLocks
          /\ \A o \in Consumers : o[1] = c[1] => pc[o] = "stopped"
    /\ \A d \in delivery : pc[d.c] = "stopped" => d.phase = "waiting"
\* The row a delivery is about to acknowledge is the one it claimed.
OwnRow ==
    \A d \in delivery :
       /\ d.phase = "ended"
       /\ row[d.msg.m].queue = d.msg.queue /\ row[d.msg.m].state = "consumed"
       => d.msg.m \in succeeded
DoneSucceeded == \A m \in Msgs : row[m].state = "done" => m \in succeeded

Bookkeeping ==
    /\ NoneLost /\ OwnQueue /\ RunsOnMain /\ OneDelivery
    /\ Slots /\ Locks /\ LockOwner /\ Halted
IInv == Orderly => Bookkeeping /\ OwnRow /\ DoneSucceeded

\* Behind RetriesExhausted: no copy of a message counts more retries than its
\* runs have failed.
RowsCounted ==
    \A m \in Msgs : /\ row[m].retries <= failures[m]
                    /\ row[m].state = "rejected" => failures[m] > MaxRetries
ReadsCounted == \A c \in Consumers : \A s \in snapshot[c] : s.retries <= failures[s.m]
RestartsCounted == \A r \in api : r.retries <= failures[r.m]
RunsCounted ==
    \A d \in delivery : /\ d.msg.retries <= failures[d.msg.m]
                        /\ d.phase = "failed" => failures[d.msg.m] > MaxRetries
RetriesCounted == RowsCounted /\ ReadsCounted /\ RestartsCounted /\ RunsCounted

=============================================================================
