--------------------------- MODULE TaskBrokerProofs ---------------------------
(***************************************************************************)
(* Proofs about TaskBroker, and that it implements TaskQueue, for every    *)
(* number of processes, messages, tenants, retries and faults.             *)
(***************************************************************************)
EXTENDS TaskBrokerQueue, TLAPS

\* Enqueueing writes a row of the table and adds to inboxes known messages only.
LEMMA EnqueueType ==
    ASSUME TypeOK, NEW m \in Msgs, NEW queue \in Queues, NEW retries \in 0..MaxRetries,
           NEW tenant \in Tenants, Enqueue(m, queue, retries, tenant)
    PROVE  /\ row' \in [Msgs -> Row]
           /\ inbox' \in [Consumers -> SUBSET Msgs]
  <1>1. row' \in [Msgs -> Row]
    BY DEF Enqueue, TypeOK, Row, TaskState
  <1>2. inbox' \in [Consumers -> SUBSET Msgs]
    BY SMTT(30) DEF Enqueue, Notify, TypeOK
  <1> QED BY <1>1, <1>2

\* Writing the state of one row, or of some rows, leaves a table of rows.
LEMMA RowUpdate ==
    ASSUME TypeOK, NEW s \in TaskState \cup {"unsent", "deleted"}
    PROVE  /\ \A m \in Msgs : [row EXCEPT ![m].state = s] \in [Msgs -> Row]
           /\ \A m \in Msgs, n \in 0..MaxRetries :
                 [row EXCEPT ![m].state = s, ![m].retries = n] \in [Msgs -> Row]
           /\ \A ms : [m \in Msgs |-> IF m \in ms THEN [row[m] EXCEPT !.state = s]
                                      ELSE row[m]] \in [Msgs -> Row]
  <1>1. \A r \in Row : [r EXCEPT !.state = s] \in Row
    BY DEF Row
  <1>2. \A r \in Row, n \in 0..MaxRetries : [[r EXCEPT !.state = s] EXCEPT !.retries = n] \in Row
    BY Zenon DEF Row
  <1>3. row \in [Msgs -> Row]
    BY SMTT(60) DEF TypeOK
  <1> QED BY <1>1, <1>2, <1>3, Zenon

\* Every step keeps every variable in its domain.
LEMMA TypeStep == TypeOK /\ [Next]_vars => TypeOK'
  <1> SUFFICES ASSUME TypeOK, [Next]_vars PROVE TypeOK'
    BY SMTT(60)
  <1> USE BrokerAssumption
  <1>1. ASSUME NEW m \in Msgs, Send(m) PROVE TypeOK'
    <2>1. PICK t \in Tenants : Enqueue(m, "main", 0, t)
      BY <1>1 DEF Send
    <2>2. row' \in [Msgs -> Row] /\ inbox' \in [Consumers -> SUBSET Msgs]
      BY <2>1, EnqueueType, SMTT(60) DEF Queues
    <2> QED BY <1>1, <2>2, SMTT(60) DEF Send, TypeOK, history, bounds
  <1>2. ASSUME NEW m \in Msgs, RetryCheck(m) PROVE TypeOK'
    <2>1. api' \subseteq Message
      BY <1>2, SMTT(60) DEF RetryCheck, TypeOK, Row, Message
    <2> QED BY <1>2, <2>1, SMTT(60) DEF RetryCheck, TypeOK, table, consumers, history
  <1>3. ASSUME NEW r \in api, RetryEnqueue(r) PROVE TypeOK'
    <2>1. r \in Message
      BY DEF TypeOK
    <2>2. row' \in [Msgs -> Row] /\ inbox' \in [Consumers -> SUBSET Msgs]
      BY <1>3, <2>1, EnqueueType, SMTT(60) DEF RetryEnqueue, Message
    <2> QED BY <1>3, <2>2 DEF RetryEnqueue, TypeOK, bounds
  <1>4. ASSUME NEW c \in Consumers, FetchFirst(c) PROVE TypeOK'
    BY <1>4, SMTT(60) DEF FetchFirst, TypeOK, Pending, table, history, bounds
  <1>5. ASSUME NEW c \in Consumers, Listen(c) PROVE TypeOK'
    BY <1>5, SMTT(60) DEF Listen, TypeOK, table, history, bounds
  <1>6. ASSUME NEW c \in Consumers, PurgeLocks(c) PROVE TypeOK'
    <2>1. lock' \in [Consumers -> [Msgs -> Nat]]
      BY <1>6, SMTT(60) DEF PurgeLocks, TypeOK
    <2>2. unlock_queue' \in [Consumers -> [Msgs -> Nat]]
      BY <1>6, SMTT(60) DEF PurgeLocks, TypeOK, NoLocks
    <2> QED BY <1>6, <2>1, <2>2, SMTT(60) DEF PurgeLocks, TypeOK, history, bounds
  <1>7. ASSUME NEW c \in Consumers, Poll(c) PROVE TypeOK'
    BY <1>7, SMTT(60) DEF Poll, TypeOK, table, history, bounds
  <1>8. ASSUME NEW c \in Consumers, FetchPending(c) PROVE TypeOK'
    BY <1>8, SMTT(60) DEF FetchPending, TypeOK, Pending, table, history, bounds
  <1>9. ASSUME NEW c \in Consumers, Pop(c) PROVE TypeOK'
    <2>1. snapshot' \in [Consumers -> SUBSET Message]
      BY <1>9, SMTT(60) DEF Pop, TypeOK, Row, Message
    <2> QED BY <1>9, <2>1, SMTT(60) DEF Pop, TypeOK, table, history, bounds
  <1>10. ASSUME NEW c \in Consumers, ConsumeOne(c) PROVE TypeOK'
    <2>1. PICK s \in snapshot[c] :
             /\ snapshot' = [snapshot EXCEPT ![c] = {}]
             /\ \/ Claim(c, s)
                \/ UNCHANGED <<lock, row, in_processing, delivery, misrouted>>
      BY <1>10, SMTT(60) DEF ConsumeOne
    <2>2. s \in Message /\ s.m \in Msgs
      BY SMTT(60) DEF TypeOK, Message
    <2>3. UNCHANGED <<pc, inbox, notifies, unlock_queue, gen, api, failures, succeeded,
                      losses, crashes, stops, apiRetries>>
      BY <1>10 DEF ConsumeOne, bounds
    <2>4. CASE Claim(c, s)
      <3>1. lock' \in [Consumers -> [Msgs -> Nat]]
        BY <2>2, <2>4, SMTT(60) DEF Claim, TypeOK
      <3>2. row' \in [Msgs -> Row]
        BY <2>2, <2>4, RowUpdate, SMTT(60) DEF Claim, TaskState
      <3>3. delivery' \subseteq Delivery
        BY <2>2, <2>4 DEF Claim, TypeOK, Delivery, Phase
      <3>4. misrouted' \in BOOLEAN
        BY <2>4, ZenonT(60) DEF Claim, TypeOK
      <3>5. in_processing' \in [Consumers -> SUBSET Msgs]
        BY <2>2, <2>4, SMTT(60) DEF Claim, TypeOK
      <3> QED BY <2>1, <2>3, <3>1, <3>2, <3>3, <3>4, <3>5, ZenonT(60) DEF TypeOK
    <2>5. CASE UNCHANGED <<lock, row, in_processing, delivery, misrouted>>
      BY <2>1, <2>3, <2>5, SMTT(60) DEF TypeOK
    <2> QED BY <2>1, <2>4, <2>5, SMTT(60)
  <1>11. ASSUME NEW c \in Consumers, Reconnect(c) PROVE TypeOK'
    BY <1>11, SMTT(60) DEF Reconnect, Renew, TypeOK, NoLocks, table, history, bounds
  <1>12. ASSUME NEW c \in Consumers, AutoPurge(c) PROVE TypeOK'
    <2>1. row' \in [Msgs -> Row]
      BY <1>12, RowUpdate, SMTT(60) DEF AutoPurge
    <2> QED BY <1>12, <2>1, SMTT(60) DEF AutoPurge, TypeOK, consumers, history, bounds
  <1>13. ASSUME NEW c \in Consumers, LoseSession(c) PROVE TypeOK'
    BY <1>13 DEF LoseSession, Release, Hangup, TypeOK, NoLocks, history
  <1>14. ASSUME NEW d \in delivery, NEW phase \in Phase, Advance(d, phase)
         PROVE  delivery' \subseteq Delivery
    BY <1>14, ZenonT(40) DEF Advance, TypeOK, Delivery
  <1>15. ASSUME NEW d \in delivery, WorkerStep(d) PROVE TypeOK'
    <2>1. d \in Delivery /\ d.msg \in Message /\ d.msg.m \in Msgs
          /\ PostConsumer(d) \in Consumers /\ d.msg.retries \in 0..MaxRetries
      BY SMTT(60) DEF TypeOK, Delivery, Message, PostConsumer, Consumers
    <2>2. CASE Process(d)
      BY <2>2, <1>14, SMTT(60) DEF Process, TypeOK, Phase, table, consumers, history, bounds
    <2>3. CASE Succeed(d)
      BY <2>3, <2>1, <1>14, SMTT(60) DEF Succeed, TypeOK, Phase, table, consumers, bounds
    <2>4. CASE Retry(d)
      <3>0. d.msg.retries + 1 \in 0..MaxRetries
        BY <2>1, <2>4, SMTT(60) DEF Retry
      <3>1. row' \in [Msgs -> Row] /\ inbox' \in [Consumers -> SUBSET Msgs]
        BY <2>1, <2>4, <3>0, EnqueueType, SMTT(60) DEF Retry, Queues
      <3>2. delivery' \subseteq Delivery
        <4>1. [d.msg EXCEPT !.retries = @ + 1] \in Message
          BY <2>1, <3>0 DEF Message
        <4>2. [d EXCEPT !.phase = "ended", !.msg.retries = @ + 1] \in Delivery
          BY <2>1, <4>1, ZenonT(60) DEF Delivery, Phase
        <4> QED BY <2>4, <4>2, SMTT(60) DEF Retry, TypeOK
      <3>3. failures' \in [Msgs -> Nat] /\ succeeded' \subseteq Msgs
        BY <2>1, <2>4, SMTT(60) DEF Retry, TypeOK
      <3> QED BY <2>4, <3>1, <3>2, <3>3, SMTT(60) DEF Retry, TypeOK, bounds
    <2>5. CASE GiveUp(d)
      BY <2>5, <2>1, <1>14, SMTT(60) DEF GiveUp, TypeOK, Phase, table, consumers, bounds
    <2>6. CASE DelayElapsed(d)
      <3>1. row' \in [Msgs -> Row] /\ inbox' \in [Consumers -> SUBSET Msgs]
        BY <2>1, <2>6, EnqueueType, ZenonT(60) DEF DelayElapsed, Queues
      <3> QED BY <2>1, <2>6, <1>14, <3>1, ZenonT(60) DEF DelayElapsed, TypeOK, Phase, bounds
    <2>7. CASE Ack(d)
      <3>1. row' \in [Msgs -> Row]
        BY <2>1, <2>7, RowUpdate, ZenonT(60) DEF Ack, TypeOK, TaskState
      <3> QED BY <2>7, <1>14, <3>1, SMTT(30) DEF Ack, TypeOK, Phase, consumers, history, bounds
    <2>8. CASE Nack(d)
      <3>0. [row EXCEPT ![d.msg.m].state = "rejected", ![d.msg.m].retries = d.msg.retries]
               \in [Msgs -> Row]
        <4>1. "rejected" \in TaskState \cup {"unsent", "deleted"}
          BY SMTT(60) DEF TaskState
        <4> QED BY <2>1, <4>1, RowUpdate, ZenonT(60)
      <3>1. row' \in [Msgs -> Row]
        BY <2>8, <3>0, SMTT(60) DEF Nack, TypeOK
      <3> QED BY <2>8, <1>14, <3>1, SMTT(60) DEF Nack, TypeOK, Phase, consumers, history, bounds
    <2>9. CASE PutUnlock(d)
      BY <2>1, <2>9, <1>14, SMTT(60) DEF PutUnlock, TypeOK, Phase, table, history, bounds
    <2>10. CASE RemoveProcessing(d)
      BY <2>1, <2>10, ZenonT(60) DEF RemoveProcessing, TypeOK, table, history, bounds
    <2> QED BY <1>15, <2>2, <2>3, <2>4, <2>5, <2>6, <2>7, <2>8, <2>9, <2>10 DEF WorkerStep
  <1>16. ASSUME NEW p \in Procs, Crash(p) PROVE TypeOK'
    BY <1>16, SMTT(60) DEF Crash, Renew, Release, Hangup, TypeOK, NoLocks, history
  <1>17. ASSUME NEW p \in Procs, StopConsumers(p) PROVE TypeOK'
    BY <1>17, SMTT(60) DEF StopConsumers, Release, Hangup, TypeOK, NoLocks, history
  <1>18. ASSUME NEW p \in Procs, Requeue(p) PROVE TypeOK'
    <2>0. PICK ms \in SUBSET Msgs :
             /\ row' = [m \in Msgs |-> IF m \in ms THEN [row[m] EXCEPT !.state = "queued"]
                                       ELSE row[m]]
             /\ Notify(ms)
      <3> DEFINE left == {d.msg.m : d \in {e \in delivery : e.c[1] = p}}
                 ms == {m \in left : row[m].state \in TaskState}
      <3>1. ms \in SUBSET Msgs
        BY DEF TypeOK, Delivery, Message
      <3> QED BY <1>18, <3>1 DEF Requeue
    <2>1. row' \in [Msgs -> Row]
      BY <2>0, RowUpdate DEF TaskState
    <2>2. inbox' \in [Consumers -> SUBSET Msgs]
      BY <2>0 DEF Notify, TypeOK
    <2> QED BY <1>18, <2>1, <2>2, SMTT(60) DEF Requeue, Renew, TypeOK, NoLocks, history, bounds
  <1>19. CASE UNCHANGED vars
    BY <1>19 DEF TypeOK, vars, table, consumers, history, bounds
  <1> QED
    BY <1>1, <1>2, <1>3, <1>4, <1>5, <1>6, <1>7, <1>8, <1>9, <1>10, <1>11, <1>12, <1>13,
       <1>15, <1>16, <1>17, <1>18, <1>19, SMTT(60) DEF Next, ConsumerStep

\* The table before anything is sent, and consumers that have not begun, are well typed.
LEMMA TypeInit == Init => TypeOK
  <1> SUFFICES ASSUME Init PROVE TypeOK
    BY SMTT(60)
  <1>1. row \in [Msgs -> Row]
    BY BrokerAssumption DEF Init, Row, Queues
  <1> QED BY <1>1, Zenon DEF Init, TypeOK, NoLocks

\* TypeOK holds in every reachable state.
THEOREM Typing == Spec => []TypeOK
  BY TypeInit, TypeStep, PTL DEF Spec

-----------------------------------------------------------------------------
(* Mutual exclusion and the books of locks and slots *)

\* The lock of a delivery that is not given back is held.
LEMMA HeldLocked ==
    ASSUME TypeOK, Bookkeeping, NEW c \in Consumers, NEW m \in Msgs,
           Held(c, m), pc[c] # "stopped"
    PROVE  lock[c][m] > 0 /\ lock[c][m] # 0
  <1>1. lock[c][m] = unlock_queue[c][m] + 1
    BY SMTT(60) DEF Bookkeeping, Locks
  <1>2. unlock_queue[c][m] \in Nat
    BY SMTT(60) DEF TypeOK
  <1> QED BY <1>1, <1>2, SMTT(60)

\* Steps that touch no row, lock, slot or delivery keep the books.
LEMMA QuietBooks ==
    ASSUME TypeOK, Bookkeeping,
           UNCHANGED <<lock, in_processing, unlock_queue, delivery>>,
           \A c \in Consumers : /\ pc'[c] # "lost"
                                /\ pc'[c] = "stopped" <=> pc[c] = "stopped"
    PROVE  Bookkeeping'
  <1>1. NoneLost' /\ OwnQueue' /\ RunsOnMain' /\ OneDelivery'
    BY SMTT(60) DEF Bookkeeping, NoneLost, OwnQueue, RunsOnMain, OneDelivery
  <1>2. Slots' /\ Locks' /\ LockOwner'
    BY SMTT(60) DEF Bookkeeping, Slots, Locks, LockOwner, Delivered, Held
  <1>3. Halted'
    <2>1. \A d \in delivery : d.c \in Consumers
      BY SMTT(60) DEF TypeOK, Delivery
    <2> QED BY <2>1, SMTT(60) DEF Bookkeeping, Halted, NoLocks
  <1> QED BY <1>1, <1>2, <1>3, SMTT(60) DEF Bookkeeping

\* So do the steps of a worker thread up to and including the row's last update.
LEMMA PhaseBooks ==
    ASSUME TypeOK, Bookkeeping, NEW d \in delivery, NEW e,
           UNCHANGED <<lock, in_processing, unlock_queue, pc>>,
           delivery' = (delivery \ {d}) \cup {e},
           e.c = d.c, e.msg.m = d.msg.m, e.msg.queue = d.msg.queue,
           d.phase # "put", e.phase # "put",
           e.phase = "running" => e.msg.queue = "main",
           pc[d.c] # "stopped"
    PROVE  Bookkeeping'
  <1>1. NoneLost' /\ OwnQueue' /\ RunsOnMain' /\ OneDelivery'
    BY SMTT(60) DEF Bookkeeping, NoneLost, OwnQueue, RunsOnMain, OneDelivery
  <1>2. \A c \in Consumers, m \in Msgs :
           /\ Delivered(c, m)' <=> Delivered(c, m)
           /\ Held(c, m)' <=> Held(c, m)
    BY SMTT(60) DEF Delivered, Held
  <1>3. Slots' /\ Locks' /\ LockOwner'
    BY <1>2, SMTT(60) DEF Bookkeeping, Slots, Locks, LockOwner
  <1>4. Halted'
    BY SMTT(60) DEF Bookkeeping, Halted, NoLocks
  <1> QED BY <1>1, <1>3, <1>4, SMTT(60) DEF Bookkeeping

\* The same for the steps that change nothing of the delivery but its phase.
LEMMA AdvanceBooks ==
    ASSUME TypeOK, Bookkeeping, NEW d \in delivery, NEW ph, Advance(d, ph),
           UNCHANGED <<lock, in_processing, unlock_queue, pc>>,
           d.phase # "put", ph # "put", ph = "running" => d.msg.queue = "main",
           pc[d.c] # "stopped"
    PROVE  Bookkeeping'
  <1> DEFINE e == [d EXCEPT !.phase = ph]
  <1>1. e.c = d.c /\ e.msg = d.msg /\ e.phase = ph
    BY DEF TypeOK, Delivery
  <1>2. delivery' = (delivery \ {d}) \cup {e}
    BY SMTT(60) DEF Advance
  <1> HIDE DEF e
  <1> QED BY <1>1, <1>2, PhaseBooks, SMTT(60)

\* A delivery is acknowledged through the consumer that made it.
LEMMA PostOwn ==
    ASSUME TypeOK, OwnQueue, NEW d \in delivery
    PROVE  /\ d \in Delivery /\ d.c \in Consumers /\ d.msg.m \in Msgs
           /\ PostConsumer(d) = d.c
  <1>1. d \in Delivery /\ d.c \in Consumers /\ d.msg \in Message /\ d.msg.m \in Msgs
    BY SMTT(60) DEF TypeOK, Delivery, Message
  <1>2. d.c = <<d.c[1], d.c[2]>>
    BY <1>1, SMTT(60) DEF Consumers
  <1> QED BY <1>1, <1>2, SMTT(60) DEF PostConsumer, OwnQueue

\* Handing a lock to unlock_queue moves it from the deliveries to the queue.
LEMMA PutBooks ==
    ASSUME TypeOK, Bookkeeping, NEW d \in delivery, PutUnlock(d)
    PROVE  Bookkeeping'
  <1> DEFINE e == [d EXCEPT !.phase = "put"]
  <1>1. /\ d \in Delivery /\ d.c \in Consumers /\ d.msg.m \in Msgs
        /\ d.phase = "acked" /\ PostConsumer(d) = d.c
    BY PostOwn, SMTT(60) DEF PutUnlock, Bookkeeping
  <1>2. /\ delivery' = (delivery \ {d}) \cup {e}
        /\ unlock_queue' = [unlock_queue EXCEPT ![d.c][d.msg.m] = @ + 1]
        /\ UNCHANGED <<lock, in_processing, pc>>
    BY <1>1 DEF PutUnlock, Advance, table
  <1>3. e.c = d.c /\ e.msg = d.msg /\ e.phase = "put"
    BY <1>1, SMTT(60) DEF Delivery
  <1>4. NoneLost' /\ OwnQueue' /\ RunsOnMain' /\ OneDelivery'
    <2> HIDE DEF e
    <2> QED BY <1>2, <1>3 DEF Bookkeeping, NoneLost, OwnQueue, RunsOnMain, OneDelivery
  <1>5. \A c \in Consumers, m \in Msgs : Delivered(c, m)' <=> Delivered(c, m)
    BY <1>2, <1>3, ZenonT(60) DEF Delivered
  <1>6. Slots' /\ LockOwner'
    BY <1>2, <1>5 DEF Bookkeeping, Slots, LockOwner
  <1>7. Held(d.c, d.msg.m) /\ ~Held(d.c, d.msg.m)'
    BY <1>1, <1>2, <1>3, Zenon DEF Held, Bookkeeping, OneDelivery
  <1>8. \A c \in Consumers, m \in Msgs :
           <<c, m>> # <<d.c, d.msg.m>> => (Held(c, m)' <=> Held(c, m))
    BY <1>2, <1>3, Zenon DEF Held
  <1>9. Locks'
    <2> SUFFICES ASSUME NEW c \in Consumers, NEW m \in Msgs, pc'[c] # "stopped"
                 PROVE  lock'[c][m] = unlock_queue'[c][m] + (IF Held(c, m)' THEN 1 ELSE 0)
      BY DEF Locks
    <2>1. /\ lock[c][m] = unlock_queue[c][m] + (IF Held(c, m) THEN 1 ELSE 0)
          /\ lock[c][m] \in Nat /\ unlock_queue[c][m] \in Nat
      BY <1>2, ZenonT(40) DEF Bookkeeping, Locks, TypeOK
    <2>2. CASE <<c, m>> = <<d.c, d.msg.m>>
      <3>1. unlock_queue'[c][m] = unlock_queue[c][m] + 1
        BY <1>1, <1>2, <2>2, SMTT(60) DEF TypeOK
      <3> QED BY <1>2, <1>7, <2>1, <2>2, <3>1, SMTT(60)
    <2>3. CASE <<c, m>> # <<d.c, d.msg.m>>
      <3>1. unlock_queue'[c][m] = unlock_queue[c][m]
        BY <1>1, <1>2, <2>3, SMTT(60) DEF TypeOK
      <3> QED BY <1>2, <1>8, <2>1, <2>3, <3>1, SMTT(60)
    <2> QED BY <2>2, <2>3, SMTT(60)
  <1>10. Halted'
    BY <1>1, <1>2, <1>3, ZenonT(60) DEF Bookkeeping, Halted, NoLocks
  <1> QED BY <1>4, <1>6, <1>9, <1>10, SMTT(60) DEF Bookkeeping

\* The slot is freed together with the delivery it stood for.
LEMMA RemoveBooks ==
    ASSUME TypeOK, Bookkeeping, NEW d \in delivery, RemoveProcessing(d)
    PROVE  Bookkeeping'
  <1>1. /\ d.c \in Consumers /\ d.msg.m \in Msgs
        /\ d.phase = "put" /\ PostConsumer(d) = d.c
    BY PostOwn DEF RemoveProcessing, Bookkeeping
  <1>2. /\ delivery' = delivery \ {d}
        /\ in_processing' = [in_processing EXCEPT ![d.c] = @ \ {d.msg.m}]
        /\ UNCHANGED <<lock, unlock_queue, pc>>
    BY <1>1 DEF RemoveProcessing, table
  <1>3. NoneLost' /\ OwnQueue' /\ RunsOnMain' /\ OneDelivery'
    BY <1>2 DEF Bookkeeping, NoneLost, OwnQueue, RunsOnMain, OneDelivery
  <1>4. Slots'
    <2> SUFFICES ASSUME NEW c \in Consumers, NEW m \in Msgs
                 PROVE  m \in in_processing'[c] <=> Delivered(c, m)'
      BY DEF Slots
    <2>1. m \in in_processing[c] <=> Delivered(c, m)
      BY DEF Bookkeeping, Slots
    <2>2. CASE c = d.c /\ m = d.msg.m
      <3>1. ~Delivered(c, m)'
        BY <1>2, <2>2, SMTT(60) DEF Delivered, Bookkeeping, OneDelivery
      <3> QED BY <1>1, <1>2, <2>2, <3>1, SMTT(60) DEF TypeOK
    <2>3. CASE ~(c = d.c /\ m = d.msg.m)
      <3>1. Delivered(c, m)' <=> Delivered(c, m)
        BY <1>2, <2>3, SMTT(60) DEF Delivered
      <3> QED BY <1>1, <1>2, <2>1, <2>3, <3>1, SMTT(60) DEF TypeOK
    <2> QED BY <2>2, <2>3
  <1>5. \A c \in Consumers, m \in Msgs : Held(c, m)' <=> Held(c, m)
    BY <1>1, <1>2, SMTT(60) DEF Held
  <1>6. Locks' /\ LockOwner'
    BY <1>2, <1>5, SMTT(60) DEF Bookkeeping, Locks, LockOwner
  <1>7. Halted'
    BY <1>2, SMTT(60) DEF Bookkeeping, Halted, NoLocks
  <1> QED BY <1>3, <1>4, <1>6, <1>7 DEF Bookkeeping

\* Purging releases exactly the locks handed back.
LEMMA PurgeBooks ==
    ASSUME TypeOK, Bookkeeping, NEW c \in Consumers, PurgeLocks(c)
    PROVE  Bookkeeping'
  <1>1. UNCHANGED <<pc, in_processing, delivery>> /\ pc[c] = "loop"
    BY SMTT(60) DEF PurgeLocks, Idle, Listening
  <1>2. \A o \in Consumers, m \in Msgs :
           /\ lock[o][m] \in Nat /\ unlock_queue[o][m] \in Nat
           /\ o # c => lock'[o][m] = lock[o][m] /\ unlock_queue'[o][m] = unlock_queue[o][m]
           /\ unlock_queue'[c][m] = 0
           /\ lock'[c][m] = IF lock[c][m] > unlock_queue[c][m]
                            THEN lock[c][m] - unlock_queue[c][m] ELSE 0
    BY SMTT(60) DEF PurgeLocks, TypeOK, NoLocks
  <1>3. NoneLost' /\ OwnQueue' /\ RunsOnMain' /\ OneDelivery'
    BY <1>1, SMTT(60) DEF Bookkeeping, NoneLost, OwnQueue, RunsOnMain, OneDelivery
  <1>4. Slots'
    BY <1>1, SMTT(60) DEF Bookkeeping, Slots, Delivered
  <1>5. \A o \in Consumers, m \in Msgs : Held(o, m)' <=> Held(o, m)
    BY <1>1, SMTT(60) DEF Held
  <1>6. Locks'
    <2> SUFFICES ASSUME NEW o \in Consumers, NEW m \in Msgs, pc'[o] # "stopped"
                 PROVE  lock'[o][m] = unlock_queue'[o][m] + (IF Held(o, m)' THEN 1 ELSE 0)
      BY SMTT(60) DEF Locks
    <2>1. lock[o][m] = unlock_queue[o][m] + (IF Held(o, m) THEN 1 ELSE 0)
      BY <1>1, SMTT(60) DEF Bookkeeping, Locks
    <2> QED BY <1>2, <1>5, <2>1, SMTT(60)
  <1>7. \A o \in Consumers, m \in Msgs : lock'[o][m] > 0 => lock[o][m] > 0
    BY <1>2, SMTT(60)
  <1>8. LockOwner'
    BY <1>7, SMTT(60) DEF Bookkeeping, LockOwner
  <1>9. Halted'
    <2>1. \A o \in Consumers : o # c => lock'[o] = lock[o]
      BY ZenonT(60) DEF PurgeLocks, TypeOK
    <2> QED BY <1>1, <2>1 DEF Bookkeeping, Halted, NoLocks
  <1> QED BY <1>3, <1>4, <1>6, <1>8, <1>9, SMTT(60) DEF Bookkeeping

\* A claim takes a lock nobody else holds, for a message its consumer is not processing.
LEMMA ClaimBooks ==
    ASSUME TypeOK, Bookkeeping, NEW c \in Consumers, NEW s \in snapshot[c],
           Claim(c, s), pc[c] = "loop", UNCHANGED <<pc, unlock_queue>>,
           s.m \notin in_processing[c], LockFree(c, s.m), s.queue = c[2]
    PROVE  Bookkeeping'
  <1> DEFINE d == [c |-> c, gen |-> gen[c], msg |-> s, phase |-> "waiting"]
  <1>1. s.m \in Msgs
    BY DEF TypeOK, Message
  <1>2. /\ delivery' = delivery \cup {d}
        /\ d.c = c /\ d.msg = s /\ d.phase = "waiting"
        /\ in_processing' = [in_processing EXCEPT ![c] = @ \cup {s.m}]
        /\ lock' = [lock EXCEPT ![c][s.m] = @ + 1]
    BY SMTT(60) DEF Claim
  <1> HIDE DEF d
  <1>3. ~Delivered(c, s.m)
    BY <1>1, SMTT(60) DEF Bookkeeping, Slots
  <1>4. NoneLost' /\ OwnQueue' /\ RunsOnMain'
    BY <1>2, SMTT(60) DEF Bookkeeping, NoneLost, OwnQueue, RunsOnMain
  <1>5. OneDelivery'
    BY <1>2, <1>3 DEF Bookkeeping, OneDelivery, Delivered
  <1>6. \A o \in Consumers, m \in Msgs :
           /\ Delivered(o, m)' <=> (Delivered(o, m) \/ (o = c /\ m = s.m))
           /\ Held(o, m)' <=> (Held(o, m) \/ (o = c /\ m = s.m))
    BY <1>2, Zenon DEF Delivered, Held
  <1>7. Slots'
    BY <1>1, <1>2, <1>6, ZenonT(60) DEF Bookkeeping, Slots, TypeOK
  <1>8. \A o \in Consumers, m \in Msgs :
           /\ lock[o][m] \in Nat /\ unlock_queue[o][m] \in Nat
           /\ lock'[o][m] = IF o = c /\ m = s.m THEN lock[o][m] + 1 ELSE lock[o][m]
    BY <1>1, <1>2, SMTT(60) DEF TypeOK
  <1>9. Locks'
    <2> SUFFICES ASSUME NEW o \in Consumers, NEW m \in Msgs, pc'[o] # "stopped"
                 PROVE  lock'[o][m] = unlock_queue'[o][m] + (IF Held(o, m)' THEN 1 ELSE 0)
      BY Zenon DEF Locks
    <2>1. lock[o][m] = unlock_queue[o][m] + (IF Held(o, m) THEN 1 ELSE 0)
      BY ZenonT(60) DEF Bookkeeping, Locks
    <2>2. CASE o = c /\ m = s.m
      <3>1. ~Held(o, m)
        BY <1>3, <2>2, Zenon DEF Held, Delivered
      <3>2. lock'[o][m] = lock[o][m] + 1 /\ Held(o, m)' /\ unlock_queue[o][m] \in Nat
        BY <1>6, <1>8, <2>2, ZenonT(60)
      <3> QED BY <2>1, <3>1, <3>2, SMTT(60)
    <2>3. CASE ~(o = c /\ m = s.m)
      <3>1. lock'[o][m] = lock[o][m] /\ (Held(o, m)' <=> Held(o, m))
        BY <1>6, <1>8, <2>3, ZenonT(60)
      <3> QED BY <2>1, <3>1, ZenonT(60)
    <2> QED BY <2>2, <2>3, ZenonT(60)
  <1>10. LockOwner'
    <2> SUFFICES ASSUME NEW a \in Consumers, NEW o \in Consumers, NEW m \in Msgs,
                        a[2] = o[2], lock'[a][m] > 0, lock'[o][m] > 0
                 PROVE  a = o
      BY Zenon DEF LockOwner
    <2>1. CASE m # s.m \/ (a # c /\ o # c)
      BY <1>8, <2>1, ZenonT(60) DEF Bookkeeping, LockOwner
    <2>2. CASE m = s.m /\ (a = c \/ o = c)
      BY <1>8, <2>2 DEF LockFree
    <2> QED BY <2>1, <2>2, Zenon
  <1>11. Halted'
    <2>1. \A o \in Consumers : o # c => lock'[o] = lock[o]
      BY <1>2, SMTT(60) DEF TypeOK
    <2> QED BY <1>2, <2>1, ZenonT(60) DEF Bookkeeping, Halted, NoLocks
  <1> QED BY <1>4, <1>5, <1>7, <1>9, <1>10, <1>11, SMTT(60) DEF Bookkeeping

\* The consumers of a process are those whose first part it is.
LEMMA ConsumersOfProcess ==
    ASSUME NEW p \in Procs, NEW c \in Consumers
    PROVE  /\ c \in ConsumersOf(p) <=> c[1] = p
           /\ c[1] \in Procs /\ <<p, "main">> \in Consumers
  BY SMTT(60) DEF Consumers, ConsumersOf, Queues

\* A killed process loses its locks, slots and deliveries together.
LEMMA CrashBooks ==
    ASSUME TypeOK, Bookkeeping, NEW p \in Procs, Crash(p)
    PROVE  Bookkeeping'
  <1>1. /\ delivery' = {d \in delivery : d.c[1] # p}
        /\ \A c \in Consumers :
              IF c[1] = p
              THEN /\ pc'[c] = "new" /\ in_processing'[c] = {}
                   /\ unlock_queue'[c] = NoLocks /\ lock'[c] = NoLocks
              ELSE /\ pc'[c] = pc[c] /\ in_processing'[c] = in_processing[c]
                   /\ unlock_queue'[c] = unlock_queue[c] /\ lock'[c] = lock[c]
    BY ConsumersOfProcess, ZenonT(40) DEF Crash, Renew, Release
  <1>2. \A d \in delivery : d.c \in Consumers
    BY Zenon DEF TypeOK, Delivery
  <1>3. \A c \in Consumers, m \in Msgs :
           IF c[1] = p THEN ~Delivered(c, m)' /\ ~Held(c, m)'
           ELSE (Delivered(c, m)' <=> Delivered(c, m)) /\ (Held(c, m)' <=> Held(c, m))
    BY <1>1, ZenonT(60) DEF Delivered, Held
  <1>4. NoneLost' /\ OwnQueue' /\ RunsOnMain' /\ OneDelivery'
    BY <1>1, Zenon DEF Bookkeeping, NoneLost, OwnQueue, RunsOnMain, OneDelivery
  <1>5. Slots'
    BY <1>1, <1>3, Zenon DEF Bookkeeping, Slots
  <1>6. Locks'
    BY <1>1, <1>3, SMTT(60) DEF Bookkeeping, Locks, NoLocks
  <1>7. LockOwner'
    BY <1>1, SMTT(60) DEF Bookkeeping, LockOwner, NoLocks
  <1>8. Halted'
    BY <1>1, <1>2, SMTT(30) DEF Bookkeeping, Halted, NoLocks
  <1> QED BY <1>4, <1>5, <1>6, <1>7, <1>8 DEF Bookkeeping

\* A process that shuts down has no message in a worker thread and gives up its locks.
LEMMA StopBooks ==
    ASSUME TypeOK, Bookkeeping, NEW p \in Procs, StopConsumers(p)
    PROVE  Bookkeeping'
  <1>1. /\ UNCHANGED <<delivery, in_processing, unlock_queue>>
        /\ \A c \in Consumers :
              IF c[1] = p THEN pc'[c] = "stopped" /\ lock'[c] = NoLocks
              ELSE pc'[c] = pc[c] /\ lock'[c] = lock[c]
        /\ \A d \in delivery : d.c[1] = p => d.phase = "waiting"
    BY ConsumersOfProcess, ZenonT(60) DEF StopConsumers, Release
  <1>2. \A d \in delivery : d.c \in Consumers
    BY SMTT(60) DEF TypeOK, Delivery
  <1>3. NoneLost' /\ OwnQueue' /\ RunsOnMain' /\ OneDelivery'
    BY <1>1, SMTT(60) DEF Bookkeeping, NoneLost, OwnQueue, RunsOnMain, OneDelivery
  <1>4. Slots'
    BY <1>1, SMTT(60) DEF Bookkeeping, Slots, Delivered
  <1>5. Locks'
    BY <1>1, SMTT(60) DEF Bookkeeping, Locks, Held
  <1>6. LockOwner'
    BY <1>1, SMTT(60) DEF Bookkeeping, LockOwner, NoLocks
  <1>7. Halted'
    BY <1>1, <1>2, SMTT(60) DEF Bookkeeping, Halted, NoLocks
  <1> QED BY <1>3, <1>4, <1>5, <1>6, <1>7 DEF Bookkeeping

\* The process that requeued its messages starts with empty books.
LEMMA RequeueBooks ==
    ASSUME TypeOK, Bookkeeping, NEW p \in Procs, Requeue(p)
    PROVE  Bookkeeping'
  <1>1. /\ delivery' = {d \in delivery : d.c[1] # p}
        /\ lock' = lock
        /\ \A c \in Consumers :
              IF c[1] = p
              THEN /\ pc'[c] = "new" /\ in_processing'[c] = {}
                   /\ unlock_queue'[c] = NoLocks
              ELSE /\ pc'[c] = pc[c] /\ in_processing'[c] = in_processing[c]
                   /\ unlock_queue'[c] = unlock_queue[c]
    BY ConsumersOfProcess DEF Requeue, Renew
  <1>2. \A c \in Consumers : c[1] = p => lock[c] = NoLocks
    BY ConsumersOfProcess, ZenonT(40) DEF Requeue, Bookkeeping, Halted
  <1>3. \A d \in delivery : d.c \in Consumers
    BY DEF TypeOK, Delivery
  <1>4. \A c \in Consumers, m \in Msgs :
           IF c[1] = p THEN ~Delivered(c, m)' /\ ~Held(c, m)'
           ELSE (Delivered(c, m)' <=> Delivered(c, m)) /\ (Held(c, m)' <=> Held(c, m))
    BY <1>1, ZenonT(60) DEF Delivered, Held
  <1>5. NoneLost' /\ OwnQueue' /\ RunsOnMain' /\ OneDelivery'
    BY <1>1, ZenonT(60) DEF Bookkeeping, NoneLost, OwnQueue, RunsOnMain, OneDelivery
  <1>6. Slots'
    BY <1>1, <1>4, Zenon DEF Bookkeeping, Slots
  <1>7. Locks'
    BY <1>1, <1>2, <1>4, SMTT(60) DEF Bookkeeping, Locks, NoLocks
  <1>8. LockOwner'
    BY <1>1, ZenonT(60) DEF Bookkeeping, LockOwner
  <1>9. Halted'
    BY <1>1, <1>3 DEF Bookkeeping, Halted, NoLocks
  <1> QED BY <1>5, <1>6, <1>7, <1>8, <1>9 DEF Bookkeeping

\* After a message is enqueued its row is neither done nor another delivery's to finish.
LEMMA EnqueueRows ==
    ASSUME TypeOK, OwnRow, DoneSucceeded, NEW m \in Msgs, NEW q, NEW n, NEW t,
           Enqueue(m, q, n, t), succeeded \ {m} \subseteq succeeded',
           \A d \in delivery' : d \in delivery \/ d.msg.m = m,
           \A d \in delivery : d.msg.m \in Msgs
    PROVE  OwnRow' /\ DoneSucceeded'
  <1>1. /\ row'[m].state = "queued"
        /\ \A o \in Msgs : o # m => row'[o] = row[o]
    BY SMTT(30) DEF Enqueue, TypeOK
  <1>2. OwnRow'
    BY <1>1, ZenonT(40) DEF OwnRow
  <1>3. DoneSucceeded'
    BY <1>1, ZenonT(40) DEF DoneSucceeded
  <1> QED BY <1>2, <1>3, ZenonT(60)

\* No delivery that is about to be acknowledged survives the claim of its row on the
\* same queue: it would hold the lock, or occupy the slot, that the claim needs.
LEMMA ClaimRows ==
    ASSUME TypeOK, Bookkeeping, OwnRow, DoneSucceeded, NEW c \in Consumers,
           NEW s \in snapshot[c], Claim(c, s), succeeded' = succeeded,
           s.m \notin in_processing[c], LockFree(c, s.m), row[s.m].queue = c[2]
    PROVE  OwnRow' /\ DoneSucceeded'
  <1>1. s.m \in Msgs
    BY SMTT(60) DEF TypeOK, Message
  <1>2. /\ row'[s.m].state = "consumed" /\ row'[s.m].queue = row[s.m].queue
        /\ \A o \in Msgs : o # s.m => row'[o] = row[o]
    BY <1>1, SMTT(60) DEF Claim, TypeOK, Row
  <1>3. ASSUME NEW d \in delivery, d.phase = "ended", d.msg.m = s.m PROVE d.msg.queue # c[2]
    <2> SUFFICES ASSUME d.msg.queue = c[2] PROVE FALSE
      OBVIOUS
    <2>1. d.c \in Consumers /\ d.c[2] = c[2]
      BY Zenon DEF TypeOK, Delivery, Bookkeeping, OwnQueue
    <2>2. d.c # c
      BY <1>1, <1>3, ZenonT(60) DEF Bookkeeping, Slots, Delivered
    <2>3. pc[d.c] # "stopped"
      BY <1>3, Zenon DEF Bookkeeping, Halted
    <2>4. Held(d.c, s.m)
      BY <1>3, Zenon DEF Held
    <2>5. lock[d.c][s.m] # 0
      BY <1>1, <2>1, <2>3, <2>4, HeldLocked, ZenonT(60)
    <2>6. lock[d.c][s.m] = 0
      BY <2>1, <2>2, Zenon DEF LockFree
    <2> QED BY <2>5, <2>6, ZenonT(60)
  <1>4. \A d \in delivery' : d.phase = "ended" => d \in delivery
    BY SMTT(60) DEF Claim
  <1>5. \A d \in delivery : d.msg.m \in Msgs
    BY Zenon DEF TypeOK, Delivery, Message
  <1>6. OwnRow'
    <2> SUFFICES ASSUME NEW d \in delivery', d.phase = "ended",
                        row'[d.msg.m].queue = d.msg.queue, row'[d.msg.m].state = "consumed"
                 PROVE  d.msg.m \in succeeded'
      BY Zenon DEF OwnRow
    <2>1. d \in delivery /\ d.msg.m # s.m
      BY <1>2, <1>3, <1>4, ZenonT(60)
    <2> QED BY <1>2, <1>5, <2>1, ZenonT(60) DEF OwnRow
  <1>7. DoneSucceeded'
    BY <1>2 DEF DoneSucceeded
  <1> QED BY <1>6, <1>7, ZenonT(60)

\* What a worker thread does keeps the books and the rows in order.
LEMMA WorkerInv ==
    ASSUME TypeOK, Bookkeeping, OwnRow, DoneSucceeded, NEW d \in delivery, WorkerStep(d)
    PROVE  Bookkeeping' /\ OwnRow' /\ DoneSucceeded'
  <1>1. /\ d \in Delivery /\ d.c \in Consumers /\ d.msg \in Message /\ d.msg.m \in Msgs
        /\ \A e \in delivery : e.msg.m \in Msgs
    BY ZenonT(60) DEF TypeOK, Delivery, Message
  <1>2. d.phase # "waiting" => pc[d.c] # "stopped"
    BY DEF Bookkeeping, Halted
  <1>3. ASSUME NEW ph
        PROVE  LET e == [d EXCEPT !.phase = ph]
               IN  e.c = d.c /\ e.msg = d.msg /\ e.phase = ph
    BY <1>1 DEF Delivery
  <1>4. CASE Process(d)
    <2>1. Bookkeeping'
      BY <1>4, AdvanceBooks DEF Process, table, consumers
    <2> QED
      BY <1>3, <1>4, <2>1, ZenonT(60) DEF Process, Advance, table, history, OwnRow, DoneSucceeded
  <1>5. CASE Succeed(d)
    <2>1. Bookkeeping'
      BY <1>2, <1>5, AdvanceBooks, SMTT(60) DEF Succeed, table, consumers
    <2>2. /\ delivery' = (delivery \ {d}) \cup {[d EXCEPT !.phase = "ended"]}
          /\ succeeded' = succeeded \cup {d.msg.m} /\ row' = row
      BY <1>5 DEF Succeed, Advance, table
    <2>3. [d EXCEPT !.phase = "ended"].msg = d.msg
      BY <1>3
    <2>4. OwnRow'
      BY <2>2, <2>3, ZenonT(60) DEF OwnRow
    <2>5. DoneSucceeded'
      BY <2>2, ZenonT(60) DEF DoneSucceeded
    <2> QED BY <2>1, <2>4, <2>5
  <1>6. CASE Retry(d)
    <2> DEFINE e == [d EXCEPT !.phase = "ended", !.msg.retries = @ + 1]
    <2>1. /\ e.c = d.c /\ e.phase = "ended"
          /\ e.msg.m = d.msg.m /\ e.msg.queue = d.msg.queue
      BY <1>1 DEF Delivery, Message
    <2>2. delivery' = (delivery \ {d}) \cup {e}
      BY <1>6, SMTT(60) DEF Retry
    <2> HIDE DEF e
    <2>3. Bookkeeping'
      BY <1>2, <1>6, <2>1, <2>2, PhaseBooks, SMTT(60) DEF Retry
    <2>4. /\ Enqueue(d.msg.m, "dq", d.msg.retries + 1, DefaultTenant)
          /\ succeeded' = succeeded \ {d.msg.m}
      BY <1>6 DEF Retry
    <2> QED BY <1>1, <2>1, <2>2, <2>3, <2>4, EnqueueRows, SMTT(60)
  <1>7. CASE GiveUp(d)
    <2>1. Bookkeeping'
      BY <1>2, <1>7, AdvanceBooks DEF GiveUp, table, consumers
    <2> QED BY <1>3, <1>7, <2>1, ZenonT(60) DEF GiveUp, Advance, table, OwnRow, DoneSucceeded
  <1>8. CASE DelayElapsed(d)
    <2>1. Bookkeeping'
      BY <1>8, AdvanceBooks DEF DelayElapsed, Idle, Listening
    <2>2. /\ Enqueue(d.msg.m, "main", d.msg.retries, DefaultTenant)
          /\ succeeded' = succeeded \ {d.msg.m}
          /\ delivery' = (delivery \ {d}) \cup {[d EXCEPT !.phase = "ended"]}
      BY <1>8 DEF DelayElapsed, Advance
    <2>3. \A e \in delivery' : e \in delivery \/ e.msg.m = d.msg.m
      <3>1. [d EXCEPT !.phase = "ended"].msg = d.msg
        BY <1>3
      <3> QED BY <2>2, <3>1, Zenon
    <2>4. OwnRow' /\ DoneSucceeded'
      BY <1>1, <2>2, <2>3, EnqueueRows
    <2> QED BY <2>1, <2>4
  <1>9. CASE Ack(d)
    <2>1. Bookkeeping'
      BY <1>2, <1>9, AdvanceBooks, SMTT(60) DEF Ack, consumers
    <2>2. /\ succeeded' = succeeded
          /\ delivery' = (delivery \ {d}) \cup {[d EXCEPT !.phase = "acked"]}
      BY <1>9 DEF Ack, Advance, history
    <2>3. CASE row' = row
      BY <1>3, <2>1, <2>2, <2>3, ZenonT(60) DEF OwnRow, DoneSucceeded
    <2>4. CASE row' # row
      <3>1. /\ d.phase = "ended"
            /\ row[d.msg.m].queue = d.msg.queue /\ row[d.msg.m].state = "consumed"
            /\ row' = [row EXCEPT ![d.msg.m].state = "done",
                                  ![d.msg.m].retries = d.msg.retries]
        BY <1>9, <2>4 DEF Ack
      <3>2. d.msg.m \in succeeded
        BY <3>1, Zenon DEF OwnRow
      <3>3. /\ row'[d.msg.m].state = "done"
            /\ \A o \in Msgs : o # d.msg.m => row'[o] = row[o]
        BY <1>1, <3>1 DEF TypeOK, Row
      <3> QED BY <1>1, <1>3, <2>1, <2>2, <3>2, <3>3, ZenonT(60) DEF OwnRow, DoneSucceeded
    <2> QED BY <2>3, <2>4, SMTT(60)
  <1>10. CASE Nack(d)
    <2>1. Bookkeeping'
      BY <1>2, <1>10, AdvanceBooks, SMTT(60) DEF Nack, consumers
    <2>2. /\ succeeded' = succeeded
          /\ delivery' = (delivery \ {d}) \cup {[d EXCEPT !.phase = "acked"]}
      BY <1>10, SMTT(60) DEF Nack, Advance, history
    <2>3. CASE row' = row
      BY <1>3, <2>1, <2>2, <2>3, ZenonT(40) DEF OwnRow, DoneSucceeded
    <2>4. CASE row' # row
      <3>1. row' = [row EXCEPT ![d.msg.m].state = "rejected",
                               ![d.msg.m].retries = d.msg.retries]
        BY <1>10, <2>4 DEF Nack
      <3>2. /\ row'[d.msg.m].state = "rejected"
            /\ \A o \in Msgs : o # d.msg.m => row'[o] = row[o]
        BY <1>1, <3>1 DEF TypeOK, Row
      <3> QED BY <1>1, <1>3, <2>1, <2>2, <3>2, ZenonT(60) DEF OwnRow, DoneSucceeded
    <2> QED BY <2>3, <2>4
  <1>11. CASE PutUnlock(d)
    <2>1. Bookkeeping'
      BY <1>11, PutBooks
    <2> QED BY <1>3, <1>11, <2>1, ZenonT(60)
            DEF PutUnlock, Advance, table, history, OwnRow, DoneSucceeded
  <1>12. CASE RemoveProcessing(d)
    <2>1. Bookkeeping'
      BY <1>12, RemoveBooks
    <2> QED BY <1>12, <2>1, ZenonT(60) DEF RemoveProcessing, table, history, OwnRow, DoneSucceeded
  <1> QED
    BY <1>4, <1>5, <1>6, <1>7, <1>8, <1>9, <1>10, <1>11, <1>12, ZenonT(60) DEF WorkerStep

\* Every step keeps the inductive invariant.
LEMMA InvStep == TypeOK /\ IInv /\ [Next]_vars => IInv'
  <1> SUFFICES ASSUME TypeOK, IInv, [Next]_vars, Orderly'
               PROVE  Bookkeeping' /\ OwnRow' /\ DoneSucceeded'
    BY DEF IInv
  <1>0. \A d \in delivery : d.msg.m \in Msgs
    BY ZenonT(60) DEF TypeOK, Delivery, Message
  <1>1. ASSUME Orderly, UNCHANGED <<table, in_processing, unlock_queue, delivery, succeeded>>,
               \A c \in Consumers : /\ pc'[c] = "lost" => pc[c] = "lost"
                                    /\ pc'[c] = "stopped" <=> pc[c] = "stopped"
        PROVE  Bookkeeping' /\ OwnRow' /\ DoneSucceeded'
    <2>1. Bookkeeping'
      BY <1>1, QuietBooks, ZenonT(60) DEF IInv, Bookkeeping, NoneLost, table
    <2> QED BY <1>1, <2>1, ZenonT(60) DEF IInv, OwnRow, DoneSucceeded, table
  <1>2. ASSUME Orderly, UNCHANGED <<lock, pc, in_processing, unlock_queue, delivery>>
        PROVE  Bookkeeping'
    BY <1>2, QuietBooks DEF IInv, Bookkeeping, NoneLost
  <1>3. ASSUME NEW m \in Msgs, Send(m) PROVE Bookkeeping' /\ OwnRow' /\ DoneSucceeded'
    <2>1. Orderly
      BY <1>3, ZenonT(60) DEF Send, Orderly, history, bounds
    <2>2. Bookkeeping'
      BY <1>2, <1>3, <2>1, ZenonT(60) DEF Send
    <2>3. PICK t \in Tenants : Enqueue(m, "main", 0, t)
      BY <1>3, Zenon DEF Send
    <2>4. OwnRow' /\ DoneSucceeded'
      BY <1>0, <1>3, <2>1, <2>3, EnqueueRows, ZenonT(60) DEF Send, IInv, history
    <2> QED BY <2>2, <2>4, Zenon
  <1>4. ASSUME NEW m \in Msgs, RetryCheck(m) PROVE Bookkeeping' /\ OwnRow' /\ DoneSucceeded'
    BY <1>1, <1>4, SMTT(60) DEF RetryCheck, Orderly, consumers, history
  <1>5. ASSUME NEW r \in api, RetryEnqueue(r) PROVE Bookkeeping' /\ OwnRow' /\ DoneSucceeded'
    <2>1. Orderly
      BY <1>5, SMTT(60) DEF RetryEnqueue, Orderly, bounds
    <2>2. Bookkeeping'
      BY <1>2, <1>5, <2>1, SMTT(60) DEF RetryEnqueue
    <2>3. r.m \in Msgs
      BY Zenon DEF TypeOK, Message
    <2>4. OwnRow' /\ DoneSucceeded'
      BY <1>0, <1>5, <2>1, <2>3, EnqueueRows, ZenonT(60) DEF RetryEnqueue, IInv
    <2> QED BY <2>2, <2>4, SMTT(60)
  <1>6. ASSUME NEW c \in Consumers,
               FetchFirst(c) \/ Listen(c) \/ Poll(c) \/ FetchPending(c) \/ Pop(c)
        PROVE  Bookkeeping' /\ OwnRow' /\ DoneSucceeded'
    <2>1. /\ UNCHANGED <<table, in_processing, unlock_queue, delivery, history, bounds>>
          /\ pc' = pc \/ (\E v \in {"fetched", "loop"} : /\ pc[c] \in {"new", "fetched"}
                                                         /\ pc' = [pc EXCEPT ![c] = v])
      BY <1>6 DEF FetchFirst, Listen, Poll, FetchPending, Pop
    <2>2. Orderly
      BY <2>1, ZenonT(60) DEF Orderly, history, bounds
    <2>3. \A o \in Consumers : /\ pc'[o] = "lost" => pc[o] = "lost"
                               /\ pc'[o] = "stopped" <=> pc[o] = "stopped"
      BY <2>1, SMTT(30) DEF TypeOK
    <2> QED BY <1>1, <2>1, <2>2, <2>3, ZenonT(60) DEF history
  <1>7. ASSUME NEW c \in Consumers, PurgeLocks(c)
        PROVE  Bookkeeping' /\ OwnRow' /\ DoneSucceeded'
    <2>1. Orderly
      BY <1>7, SMTT(60) DEF PurgeLocks, Orderly, history, bounds
    <2>2. Bookkeeping'
      BY <1>7, <2>1, PurgeBooks, ZenonT(60) DEF IInv
    <2> QED BY <1>7, <2>1, <2>2, ZenonT(60) DEF IInv, PurgeLocks, history, OwnRow, DoneSucceeded
  <1>8. ASSUME NEW c \in Consumers, ConsumeOne(c)
        PROVE  Bookkeeping' /\ OwnRow' /\ DoneSucceeded'
    <2>1. PICK s \in snapshot[c] :
             \/ /\ s.m \notin in_processing[c] /\ LockFree(c, s.m) /\ Claim(c, s)
             \/ UNCHANGED <<lock, row, in_processing, delivery, misrouted>>
      BY <1>8, ZenonT(60) DEF ConsumeOne
    <2>2. pc[c] = "loop" /\ UNCHANGED <<pc, unlock_queue, succeeded, losses>>
      BY <1>8, SMTT(60) DEF ConsumeOne, Listening, bounds
    <2>3. CASE s.m \notin in_processing[c] /\ LockFree(c, s.m) /\ Claim(c, s)
      <3>1. Orderly /\ s.queue = c[2] /\ row[s.m].queue = c[2]
        BY <2>2, <2>3, ZenonT(60) DEF Claim, Orderly
      <3>2. Bookkeeping'
        BY <2>2, <2>3, <3>1, ClaimBooks, ZenonT(60) DEF IInv
      <3>3. OwnRow' /\ DoneSucceeded'
        BY <2>2, <2>3, <3>1, ClaimRows, ZenonT(60) DEF IInv
      <3> QED BY <3>2, <3>3, SMTT(60)
    <2>4. CASE UNCHANGED <<lock, row, in_processing, delivery, misrouted>>
      BY <1>1, <2>2, <2>4, ZenonT(60) DEF Orderly, table
    <2> QED BY <2>1, <2>3, <2>4, ZenonT(60)
  <1>9. ASSUME NEW c \in Consumers, Reconnect(c) PROVE FALSE
    <2>1. Orderly
      BY <1>9, SMTT(60) DEF Reconnect, Orderly, history, bounds
    <2> QED BY <1>9, <2>1, ZenonT(40) DEF IInv, Bookkeeping, NoneLost, Reconnect
  <1>10. ASSUME NEW c \in Consumers, AutoPurge(c)
         PROVE  Bookkeeping' /\ OwnRow' /\ DoneSucceeded'
    <2>1. Orderly
      BY <1>10, SMTT(60) DEF AutoPurge, Orderly, history, bounds
    <2>2. Bookkeeping'
      BY <1>2, <1>10, <2>1, SMTT(60) DEF AutoPurge, consumers
    <2>3. \A m \in Msgs : row'[m] = row[m] \/ row'[m].state = "deleted"
      BY <1>10, SMTT(60) DEF AutoPurge, TypeOK, Row
    <2>4. UNCHANGED <<delivery, succeeded>>
      BY <1>10, ZenonT(60) DEF AutoPurge, history
    <2>5. OwnRow' /\ DoneSucceeded'
      BY <1>0, <2>1, <2>3, <2>4, ZenonT(40) DEF IInv, OwnRow, DoneSucceeded
    <2> QED BY <2>2, <2>5, SMTT(60)
  <1>11. ASSUME NEW c \in Consumers, LoseSession(c) PROVE FALSE
    BY <1>11, SMTT(60) DEF LoseSession, TypeOK, Orderly
  <1>12. ASSUME NEW d \in delivery, WorkerStep(d)
         PROVE  Bookkeeping' /\ OwnRow' /\ DoneSucceeded'
    <2>1. UNCHANGED <<losses, misrouted>>
      BY <1>12, ZenonT(60) DEF WorkerStep, Process, Succeed, Retry, GiveUp, DelayElapsed, Ack, Nack,
                   PutUnlock, RemoveProcessing, history, bounds
    <2> QED BY <1>12, <2>1, WorkerInv, ZenonT(60) DEF IInv, Orderly
  <1>13. ASSUME NEW p \in Procs, Crash(p)
         PROVE  Bookkeeping' /\ OwnRow' /\ DoneSucceeded'
    <2>1. Orderly
      BY <1>13 DEF Crash, Orderly, history
    <2>2. Bookkeeping'
      BY <1>13, <2>1, CrashBooks, ZenonT(60) DEF IInv
    <2> QED BY <1>13, <2>1, <2>2, ZenonT(60) DEF IInv, Crash, history, OwnRow, DoneSucceeded
  <1>14. ASSUME NEW p \in Procs, StopConsumers(p)
         PROVE  Bookkeeping' /\ OwnRow' /\ DoneSucceeded'
    <2>1. Orderly
      BY <1>14, ZenonT(60) DEF StopConsumers, Orderly, history
    <2>2. Bookkeeping'
      BY <1>14, <2>1, StopBooks, SMTT(60) DEF IInv
    <2> QED BY <1>14, <2>1, <2>2, ZenonT(60) DEF IInv, StopConsumers, history, OwnRow, DoneSucceeded
  <1>15. ASSUME NEW p \in Procs, Requeue(p)
         PROVE  Bookkeeping' /\ OwnRow' /\ DoneSucceeded'
    <2>1. Orderly
      BY <1>15, ZenonT(60) DEF Requeue, Orderly, history, bounds
    <2>2. Bookkeeping'
      BY <1>15, <2>1, RequeueBooks DEF IInv
    <2>3. \A m \in Msgs : row'[m] = row[m] \/ row'[m].state = "queued"
      BY <1>15, SMTT(60) DEF Requeue, TypeOK, Row
    <2>4. delivery' \subseteq delivery /\ succeeded' = succeeded
      BY <1>15, ZenonT(60) DEF Requeue, history
    <2>5. OwnRow' /\ DoneSucceeded'
      BY <1>0, <2>1, <2>3, <2>4, ZenonT(60) DEF IInv, OwnRow, DoneSucceeded
    <2> QED BY <2>2, <2>5, SMTT(60)
  <1>16. CASE UNCHANGED vars
    BY <1>1, <1>16, SMTT(60) DEF vars, Orderly, consumers, history, bounds
  <1> QED
    BY <1>3, <1>4, <1>5, <1>6, <1>7, <1>8, <1>9, <1>10, <1>11, <1>12, <1>13, <1>14, <1>15,
       <1>16, ZenonT(60) DEF Next, ConsumerStep

\* The books are empty and balanced before the first message is sent.
LEMMA InvInit == Init => IInv
  <1> SUFFICES ASSUME Init PROVE Bookkeeping /\ OwnRow /\ DoneSucceeded
    BY SMTT(30) DEF IInv
  <1>1. NoneLost /\ OwnQueue /\ RunsOnMain /\ OneDelivery /\ Halted /\ OwnRow
    BY ZenonT(60) DEF Init, NoneLost, OwnQueue, RunsOnMain, OneDelivery, Halted, OwnRow
  <1>2. Slots /\ Locks /\ LockOwner
    BY SMTT(60) DEF Init, Slots, Locks, LockOwner, Delivered, Held, NoLocks
  <1>3. DoneSucceeded
    BY DEF Init, DoneSucceeded
  <1> QED BY <1>1, <1>2, <1>3, SMTT(60) DEF Bookkeeping

\* The inductive invariant, the books of locks, slots and deliveries that __next__, ack,
\* nack and requeue keep, holds in every reachable state.
THEOREM Invariance == Spec => [](TypeOK /\ IInv)
  <1>1. Init => TypeOK /\ IInv
    BY TypeInit, InvInit, SMTT(60)
  <1>2. TypeOK /\ IInv /\ [Next]_vars => (TypeOK /\ IInv)'
    BY TypeStep, InvStep
  <1> QED BY <1>1, <1>2, PTL DEF Spec

\* While no session is lost and no message claimed on the wrong queue, a task is
\* never run by two threads at once.
THEOREM Exclusion == Spec => []MutualExclusion
  <1>1. TypeOK /\ IInv => MutualExclusion
    <2> SUFFICES ASSUME TypeOK, Bookkeeping, NEW d \in delivery, NEW e \in delivery,
                        d.msg.m = e.msg.m, d.phase = "running", e.phase = "running"
                 PROVE  d = e
      BY ZenonT(60) DEF IInv, MutualExclusion, Exclusive
    <2>1. /\ d.c \in Consumers /\ e.c \in Consumers /\ d.msg.m \in Msgs
          /\ d.c[2] = "main" /\ e.c[2] = "main"
      BY ZenonT(60) DEF TypeOK, Delivery, Message, Bookkeeping, OwnQueue, RunsOnMain
    <2>2. pc[d.c] # "stopped" /\ pc[e.c] # "stopped"
      BY DEF Bookkeeping, Halted
    <2>3. Held(d.c, d.msg.m) /\ Held(e.c, d.msg.m)
      BY Zenon DEF Held
    <2>4. lock[d.c][d.msg.m] > 0 /\ lock[e.c][d.msg.m] > 0
      BY <2>1, <2>2, <2>3, HeldLocked, ZenonT(60)
    <2>5. d.c = e.c
      BY <2>1, <2>4, SMTT(60) DEF Bookkeeping, LockOwner
    <2> QED BY <2>5 DEF Bookkeeping, OneDelivery
  <1> QED BY <1>1, Invariance, PTL

\* No lock leaks and none is released under a delivery that still needs it.
THEOREM LocksAccounted == Spec => []LockAccounting
  <1>1. IInv => LockAccounting
    BY ZenonT(60) DEF IInv, Bookkeeping, Locks, LockAccounting, Held
  <1> QED BY <1>1, Invariance, PTL

\* Prefetch slots are exactly the messages being processed.
THEOREM SlotsAccounted == Spec => []SlotAccounting
  <1>1. TypeOK /\ IInv => SlotAccounting
    <2> SUFFICES ASSUME TypeOK, Bookkeeping, NEW c \in Consumers
                 PROVE  in_processing[c] = {d.msg.m : d \in {e \in delivery : e.c = c}}
      BY ZenonT(60) DEF IInv, SlotAccounting
    <2>1. \A d \in delivery : d.msg.m \in Msgs
      BY DEF TypeOK, Delivery, Message
    <2>2. in_processing[c] \subseteq Msgs
      BY ZenonT(60) DEF TypeOK
    <2> QED BY <2>1, <2>2, SMTT(60) DEF Bookkeeping, Slots, Delivered
  <1> QED BY <1>1, Invariance, PTL

\* No acknowledgement of a failed attempt marks a task done.
THEOREM DoneMeansSucceeded == Spec => []DoneAfterSuccess
  <1>1. IInv => DoneAfterSuccess
    BY ZenonT(60) DEF IInv, DoneSucceeded, DoneAfterSuccess
  <1> QED BY <1>1, Invariance, PTL

-----------------------------------------------------------------------------
(* Retries *)

\* What typing says of the copies of a message.
LEMMA CopyTypes ==
    ASSUME TypeOK
    PROVE  /\ \A c \in Consumers : \A s \in snapshot[c] : s.m \in Msgs /\ s.retries \in Nat
           /\ \A r \in api : r.m \in Msgs /\ r.retries \in Nat
           /\ \A d \in delivery : /\ d \in Delivery /\ d.msg \in Message
                                  /\ d.msg.m \in Msgs /\ d.msg.retries \in Nat
           /\ \A m \in Msgs : /\ row[m] \in Row /\ row[m].retries \in Nat
                              /\ failures[m] \in Nat
  <1>1. \A s \in Message : s.m \in Msgs /\ s.retries \in Nat
    BY BrokerAssumption, SMTT(60) DEF Message
  <1>2. \A r \in Row : r.retries \in Nat
    BY BrokerAssumption DEF Row
  <1>3. \A d \in Delivery : d.msg \in Message
    BY ZenonT(60) DEF Delivery
  <1> QED BY <1>1, <1>2, <1>3, SMTT(60) DEF TypeOK

\* While no run fails, copies that are only dropped stay counted, and so do rows
\* whose retries are kept and that are not rejected.
LEMMA KeptCounted ==
    ASSUME RetriesCounted, UNCHANGED failures
    PROVE  /\ (\A m \in Msgs : /\ row'[m].retries = row[m].retries
                               /\ row'[m].state = "rejected" => row[m].state = "rejected")
                 => RowsCounted'
           /\ (\A c \in Consumers : snapshot'[c] \subseteq snapshot[c]) => ReadsCounted'
           /\ api' \subseteq api => RestartsCounted'
           /\ delivery' \subseteq delivery => RunsCounted'
  <1>1. ASSUME \A m \in Msgs : /\ row'[m].retries = row[m].retries
                               /\ row'[m].state = "rejected" => row[m].state = "rejected"
        PROVE  RowsCounted'
    BY <1>1, ZenonT(60) DEF RetriesCounted, RowsCounted
  <1>2. ASSUME \A c \in Consumers : snapshot'[c] \subseteq snapshot[c] PROVE ReadsCounted'
    BY <1>2, ZenonT(60) DEF RetriesCounted, ReadsCounted
  <1>3. ASSUME api' \subseteq api PROVE RestartsCounted'
    BY <1>3 DEF RetriesCounted, RestartsCounted
  <1>4. ASSUME delivery' \subseteq delivery PROVE RunsCounted'
    BY <1>4, ZenonT(60) DEF RetriesCounted, RunsCounted
  <1> QED BY <1>1, <1>2, <1>3, <1>4, ZenonT(60)

\* A step that leaves the table and only drops copies keeps the count.
LEMMA DroppedCounted ==
    ASSUME RetriesCounted, UNCHANGED <<row, api, failures>>, delivery' \subseteq delivery,
           \A c \in Consumers : snapshot'[c] \subseteq snapshot[c]
    PROVE  RetriesCounted'
  <1>1. RowsCounted' /\ ReadsCounted' /\ RestartsCounted' /\ RunsCounted'
    BY KeptCounted, ZenonT(60)
  <1> QED BY <1>1, ZenonT(60) DEF RetriesCounted

\* A row that is enqueued with no more retries than failures is counted.
LEMMA EnqueueCounted ==
    ASSUME TypeOK, RowsCounted, NEW m \in Msgs, NEW q, NEW n \in Nat, NEW t,
           Enqueue(m, q, n, t), n <= failures'[m],
           \A o \in Msgs : failures'[o] \in Nat /\ failures'[o] >= failures[o]
    PROVE  RowsCounted'
  <1>1. /\ row'[m].retries = n /\ row'[m].state = "queued"
        /\ \A o \in Msgs : o # m => row'[o] = row[o]
    BY ZenonT(60) DEF Enqueue, TypeOK
  <1> SUFFICES ASSUME NEW o \in Msgs
               PROVE  /\ row'[o].retries <= failures'[o]
                      /\ row'[o].state = "rejected" => failures'[o] > MaxRetries
    BY ZenonT(60) DEF RowsCounted
  <1>2. CASE o = m
    BY <1>1, <1>2, ZenonT(60)
  <1>3. CASE o # m
    <2>1. /\ row[o].retries \in Nat /\ failures[o] \in Nat /\ failures[o] <= failures'[o]
          /\ failures'[o] \in Nat /\ row'[o] = row[o]
      BY <1>1, <1>3, CopyTypes, ZenonT(60)
    <2>2. /\ row[o].retries <= failures[o]
          /\ row[o].state = "rejected" => failures[o] > MaxRetries
      BY ZenonT(60) DEF RowsCounted
    <2> QED BY <2>1, <2>2, BrokerAssumption, SMTT(60)
  <1> QED BY <1>2, <1>3, ZenonT(60)

\* A delivery replaced by one that is counted leaves the deliveries counted.
LEMMA ReplacedCounted ==
    ASSUME NEW d \in delivery, NEW e, delivery' = (delivery \ {d}) \cup {e},
           \A o \in delivery : /\ o.msg.retries <= failures'[o.msg.m]
                               /\ o.phase = "failed" => failures'[o.msg.m] > MaxRetries,
           e.msg.retries <= failures'[e.msg.m],
           e.phase = "failed" => failures'[e.msg.m] > MaxRetries
    PROVE  RunsCounted'
  BY ZenonT(60) DEF RunsCounted

\* A worker thread that moves a delivery on without failing it keeps it counted.
LEMMA AdvanceCounted ==
    ASSUME TypeOK, RunsCounted, NEW d \in delivery, NEW ph, Advance(d, ph),
           UNCHANGED failures, ph # "failed"
    PROVE  RunsCounted'
  <1> DEFINE e == [d EXCEPT !.phase = ph]
  <1>1. e.msg = d.msg /\ e.phase = ph
    BY CopyTypes DEF Delivery
  <1>2. delivery' = (delivery \ {d}) \cup {e}
    BY SMTT(60) DEF Advance
  <1> HIDE DEF e
  <1> QED BY <1>1, <1>2, SMTT(60) DEF RunsCounted

\* A failed run counts, whether the message is retried or given up.
LEMMA FailureCounted ==
    ASSUME TypeOK, RetriesCounted, NEW d \in delivery, Retry(d) \/ GiveUp(d)
    PROVE  RetriesCounted'
  <1>1. /\ failures' = [failures EXCEPT ![d.msg.m] = @ + 1]
        /\ UNCHANGED <<snapshot, api>>
    BY Zenon DEF Retry, GiveUp, consumers
  <1>2. d \in Delivery /\ d.msg \in Message /\ d.msg.m \in Msgs /\ d.msg.retries \in Nat
    BY CopyTypes, ZenonT(60)
  <1>3. failures \in [Msgs -> Nat]
    BY ZenonT(60) DEF TypeOK
  <1>4. /\ \A o \in Msgs : failures'[o] \in Nat /\ failures'[o] >= failures[o]
        /\ failures'[d.msg.m] = failures[d.msg.m] + 1
    BY <1>1, <1>2, <1>3, SMTT(60)
  <1>5. ASSUME NEW m \in Msgs, NEW n \in Nat, n <= failures[m] PROVE n <= failures'[m]
    BY <1>3, <1>4, <1>5, SMTT(60)
  <1>6. ASSUME NEW m \in Msgs, failures[m] > MaxRetries PROVE failures'[m] > MaxRetries
    BY <1>3, <1>4, <1>6, BrokerAssumption, SMTT(60)
  <1>7. ReadsCounted'
    BY <1>1, <1>5, CopyTypes, ZenonT(60) DEF RetriesCounted, ReadsCounted
  <1>8. RestartsCounted'
    BY <1>1, <1>5, CopyTypes, ZenonT(60) DEF RetriesCounted, RestartsCounted
  <1>9. \A o \in delivery : /\ o.msg.retries <= failures'[o.msg.m]
                            /\ o.phase = "failed" => failures'[o.msg.m] > MaxRetries
    BY <1>5, <1>6, CopyTypes, ZenonT(60) DEF RetriesCounted, RunsCounted
  <1>10. d.msg.retries <= failures[d.msg.m] /\ failures[d.msg.m] \in Nat
    BY <1>2, <1>3, SMTT(60) DEF RetriesCounted, RunsCounted
  <1>11. CASE Retry(d)
    <2> DEFINE e == [d EXCEPT !.phase = "ended", !.msg.retries = @ + 1]
    <2>1. d.msg.retries + 1 \in Nat /\ d.msg.retries + 1 <= failures'[d.msg.m]
      BY <1>2, <1>4, <1>10, SMTT(60)
    <2>2. Enqueue(d.msg.m, "dq", d.msg.retries + 1, DefaultTenant)
      BY <1>11, ZenonT(60) DEF Retry
    <2>3. RowsCounted'
      BY <1>2, <1>4, <2>1, <2>2, EnqueueCounted, SMTT(60) DEF RetriesCounted
    <2>4. e.phase = "ended" /\ e.msg.m = d.msg.m /\ e.msg.retries = d.msg.retries + 1
      BY <1>2, SMTT(60) DEF Delivery, Message
    <2>5. delivery' = (delivery \ {d}) \cup {e}
      BY <1>11, ZenonT(60) DEF Retry
    <2> HIDE DEF e
    <2>6. RunsCounted'
      BY <1>9, <2>1, <2>4, <2>5, ReplacedCounted, ZenonT(60)
    <2> QED BY <1>7, <1>8, <2>3, <2>6, ZenonT(60) DEF RetriesCounted
  <1>12. CASE GiveUp(d)
    <2> DEFINE e == [d EXCEPT !.phase = "failed"]
    <2>1. row' = row /\ d.msg.retries = MaxRetries
      BY <1>12, ZenonT(60) DEF GiveUp, table
    <2>2. RowsCounted'
      BY <1>5, <1>6, <2>1, CopyTypes, ZenonT(60) DEF RetriesCounted, RowsCounted
    <2>3. failures'[d.msg.m] > MaxRetries
      BY <1>4, <1>10, <2>1, BrokerAssumption, SMTT(60)
    <2>4. e.msg = d.msg /\ e.phase = "failed"
      BY <1>2 DEF Delivery
    <2>5. delivery' = (delivery \ {d}) \cup {e}
      BY <1>12, ZenonT(60) DEF GiveUp, Advance
    <2> HIDE DEF e
    <2>6. RunsCounted'
      BY <1>9, <2>3, <2>4, <2>5, ReplacedCounted, SMTT(60)
    <2> QED BY <1>7, <1>8, <2>2, <2>6, SMTT(60) DEF RetriesCounted
  <1> QED BY <1>11, <1>12, SMTT(60)

\* The row an acknowledgement writes carries the retries of its delivery, and is
\* rejected only by a delivery that failed for the last time.
LEMMA AckCounted ==
    ASSUME TypeOK, RetriesCounted, NEW d \in delivery, Ack(d) \/ Nack(d)
    PROVE  RetriesCounted'
  <1>1. /\ Advance(d, "acked") /\ UNCHANGED <<snapshot, api, failures>>
        /\ row' # row => \/ row' = [row EXCEPT ![d.msg.m].state = "done",
                                               ![d.msg.m].retries = d.msg.retries]
                         \/ /\ d.phase = "failed"
                            /\ row' = [row EXCEPT ![d.msg.m].state = "rejected",
                                                  ![d.msg.m].retries = d.msg.retries]
    BY ZenonT(60) DEF Ack, Nack, consumers, history
  <1>2. d.msg.m \in Msgs /\ row \in [Msgs -> Row]
    BY CopyTypes, ZenonT(60) DEF TypeOK
  <1>3. row' # row =>
           /\ row'[d.msg.m].retries = d.msg.retries
           /\ row'[d.msg.m].state = "rejected" => d.phase = "failed"
           /\ \A o \in Msgs : o # d.msg.m => row'[o] = row[o]
    BY <1>1, <1>2, ZenonT(60) DEF Row
  <1>4. /\ d.msg.retries <= failures[d.msg.m]
        /\ d.phase = "failed" => failures[d.msg.m] > MaxRetries
    BY DEF RetriesCounted, RunsCounted
  <1>5. RowsCounted'
    BY <1>1, <1>3, <1>4, SMTT(60) DEF RetriesCounted, RowsCounted
  <1>6. RunsCounted'
    BY <1>1, AdvanceCounted, Zenon DEF RetriesCounted
  <1>7. ReadsCounted' /\ RestartsCounted'
    BY <1>1, KeptCounted
  <1> QED BY <1>5, <1>6, <1>7, ZenonT(60) DEF RetriesCounted

\* Every step keeps the count.
LEMMA RetriesStep == TypeOK /\ RetriesCounted /\ [Next]_vars => RetriesCounted'
  <1> SUFFICES ASSUME TypeOK, RetriesCounted, [Next]_vars PROVE RetriesCounted'
    OBVIOUS
  <1>1. \A m \in Msgs : failures[m] \in Nat /\ failures[m] >= failures[m]
    BY SMTT(60) DEF TypeOK
  <1>2. ASSUME NEW m \in Msgs, Send(m) PROVE RetriesCounted'
    <2>1. PICK t \in Tenants : Enqueue(m, "main", 0, t)
      BY <1>2, ZenonT(60) DEF Send
    <2>2. UNCHANGED <<snapshot, api, delivery, failures>>
      BY <1>2, SMTT(60) DEF Send, history
    <2>3. 0 \in Nat /\ 0 <= failures'[m]
      BY <1>1, <2>2, SMTT(60)
    <2>4. RowsCounted'
      BY <1>1, <2>1, <2>2, <2>3, EnqueueCounted, ZenonT(60) DEF RetriesCounted
    <2>5. ReadsCounted' /\ RestartsCounted' /\ RunsCounted'
      BY <2>2, KeptCounted, SMTT(60)
    <2> QED BY <2>4, <2>5, ZenonT(60) DEF RetriesCounted
  <1>3. ASSUME NEW m \in Msgs, RetryCheck(m) PROVE RetriesCounted'
    <2>1. /\ UNCHANGED <<row, snapshot, delivery, failures>>
          /\ api' = api \cup {[m |-> m, queue |-> row[m].queue,
                               retries |-> row[m].retries, tenant |-> row[m].tenant]}
      BY <1>3, ZenonT(60) DEF RetryCheck, table, consumers, history
    <2>2. RestartsCounted'
      BY <2>1, SMTT(60) DEF RetriesCounted, RestartsCounted, RowsCounted
    <2>3. RowsCounted' /\ ReadsCounted' /\ RunsCounted'
      BY <2>1, KeptCounted, SMTT(60)
    <2> QED BY <2>2, <2>3, ZenonT(60) DEF RetriesCounted
  <1>4. ASSUME NEW r \in api, RetryEnqueue(r) PROVE RetriesCounted'
    <2>1. /\ Enqueue(r.m, r.queue, r.retries, r.tenant) /\ api' \subseteq api
          /\ UNCHANGED <<snapshot, delivery, failures>>
      BY <1>4, ZenonT(60) DEF RetryEnqueue
    <2>2. r.m \in Msgs /\ r.retries \in Nat /\ r.retries <= failures'[r.m]
      BY <2>1, CopyTypes, ZenonT(60) DEF RetriesCounted, RestartsCounted
    <2>3. RowsCounted'
      BY <1>1, <2>1, <2>2, EnqueueCounted, ZenonT(60) DEF RetriesCounted
    <2>4. ReadsCounted' /\ RestartsCounted' /\ RunsCounted'
      BY <2>1, KeptCounted, ZenonT(60)
    <2> QED BY <2>3, <2>4, ZenonT(60) DEF RetriesCounted
  <1>5. ASSUME NEW c \in Consumers, Pop(c) PROVE RetriesCounted'
    <2>1. UNCHANGED <<row, api, delivery, failures>>
      BY <1>5, SMTT(60) DEF Pop, table, history
    <2>2. PICK m \in notifies[c] : snapshot' = [snapshot EXCEPT ![c] =
                IF row[m].state \in TaskState
                THEN {[m |-> m, queue |-> row[m].queue,
                       retries |-> row[m].retries, tenant |-> row[m].tenant]}
                ELSE {}]
      BY <1>5, ZenonT(60) DEF Pop
    <2>3. m \in Msgs /\ snapshot \in [Consumers -> SUBSET Message]
      BY Zenon DEF TypeOK
    <2>4. ReadsCounted'
      <3>1. row[m].retries <= failures[m]
        BY <2>3, ZenonT(60) DEF RetriesCounted, RowsCounted
      <3>2. \A s \in snapshot'[c] : s.m = m /\ s.retries = row[m].retries
        BY <2>2, <2>3, SMTT(60)
      <3>3. \A o \in Consumers : o # c => snapshot'[o] = snapshot[o]
        BY <2>2, <2>3, ZenonT(60)
      <3> QED BY <2>1, <3>1, <3>2, <3>3, ZenonT(60) DEF RetriesCounted, ReadsCounted
    <2>5. RowsCounted' /\ RestartsCounted' /\ RunsCounted'
      BY <2>1, KeptCounted, SMTT(60)
    <2> QED BY <2>4, <2>5, ZenonT(60) DEF RetriesCounted
  <1>6. ASSUME NEW c \in Consumers, ConsumeOne(c) PROVE RetriesCounted'
    <2>1. PICK s \in snapshot[c] :
             /\ snapshot' = [snapshot EXCEPT ![c] = {}]
             /\ Claim(c, s) \/ UNCHANGED <<lock, row, in_processing, delivery, misrouted>>
      BY <1>6, ZenonT(60) DEF ConsumeOne
    <2>2. UNCHANGED <<api, failures>>
      BY <1>6, ZenonT(60) DEF ConsumeOne
    <2>3. \A o \in Consumers : snapshot'[o] \subseteq snapshot[o]
      BY <2>1, ZenonT(40) DEF TypeOK
    <2>4. CASE Claim(c, s)
      <3>1. row \in [Msgs -> Row] /\ row' = [row EXCEPT ![s.m].state = "consumed"]
        BY <2>4, SMTT(60) DEF Claim, TypeOK
      <3>2. \A m \in Msgs : /\ row'[m].retries = row[m].retries
                            /\ row'[m].state = "rejected" => row[m].state = "rejected"
        BY <3>1, ZenonT(40) DEF Row
      <3>3. RowsCounted' /\ ReadsCounted' /\ RestartsCounted'
        BY <2>2, <2>3, <3>2, KeptCounted, Zenon
      <3>4. s.retries <= failures[s.m]
        BY SMTT(60) DEF RetriesCounted, ReadsCounted
      <3>5. RunsCounted'
        BY <2>2, <2>4, <3>4, SMTT(60) DEF Claim, RetriesCounted, RunsCounted
      <3> QED BY <3>3, <3>5, SMTT(60) DEF RetriesCounted
    <2>5. CASE UNCHANGED <<lock, row, in_processing, delivery, misrouted>>
      BY <2>2, <2>3, <2>5, DroppedCounted, SMTT(60)
    <2> QED BY <2>1, <2>4, <2>5, ZenonT(60)
  <1>7. ASSUME NEW c \in Consumers, AutoPurge(c) PROVE RetriesCounted'
    <2>1. UNCHANGED <<snapshot, api, delivery, failures>>
      BY <1>7, SMTT(60) DEF AutoPurge, consumers, history
    <2>2. \A m \in Msgs : /\ row'[m].retries = row[m].retries
                          /\ row'[m].state = "rejected" => row[m].state = "rejected"
      BY <1>7, CopyTypes, SMTT(60) DEF AutoPurge, Row
    <2>3. RowsCounted' /\ ReadsCounted' /\ RestartsCounted' /\ RunsCounted'
      BY <2>1, <2>2, KeptCounted, SMTT(60)
    <2> QED BY <2>3, SMTT(60) DEF RetriesCounted
  <1>8. ASSUME NEW p \in Procs, Requeue(p) PROVE RetriesCounted'
    <2>1. delivery' \subseteq delivery /\ UNCHANGED <<api, failures>>
      BY <1>8, SMTT(60) DEF Requeue, history
    <2>2. \A m \in Msgs : /\ row'[m].retries = row[m].retries
                          /\ row'[m].state = "rejected" => row[m].state = "rejected"
      BY <1>8, CopyTypes, SMTT(60) DEF Requeue, Row
    <2>3. \A c \in Consumers : snapshot'[c] \subseteq snapshot[c]
      BY <1>8, ZenonT(60) DEF Requeue, Renew
    <2>4. RowsCounted' /\ ReadsCounted' /\ RestartsCounted' /\ RunsCounted'
      BY <2>1, <2>2, <2>3, KeptCounted, ZenonT(60)
    <2> QED BY <2>4, SMTT(60) DEF RetriesCounted
  <1>9. ASSUME NEW d \in delivery, WorkerStep(d) PROVE RetriesCounted'
    <2>1. ASSUME NEW ph, Advance(d, ph), UNCHANGED <<row, snapshot, api, failures>>,
                 ph # "failed"
          PROVE  RetriesCounted'
      <3>1. RowsCounted' /\ ReadsCounted' /\ RestartsCounted'
        BY <2>1, KeptCounted, SMTT(60)
      <3>2. RunsCounted'
        BY <2>1, AdvanceCounted, ZenonT(60) DEF RetriesCounted
      <3> QED BY <3>1, <3>2, ZenonT(60) DEF RetriesCounted
    <2>2. CASE Process(d)
      BY <2>1, <2>2, ZenonT(60) DEF Process, table, consumers, history
    <2>3. CASE Succeed(d)
      BY <2>1, <2>3, SMTT(60) DEF Succeed, table, consumers
    <2>4. CASE DelayElapsed(d)
      <3>1. /\ Enqueue(d.msg.m, "main", d.msg.retries, DefaultTenant)
            /\ Advance(d, "ended") /\ UNCHANGED <<snapshot, api, failures>>
        BY <2>4, ZenonT(60) DEF DelayElapsed
      <3>2. d.msg.m \in Msgs /\ d.msg.retries \in Nat /\ d.msg.retries <= failures'[d.msg.m]
        BY <3>1, CopyTypes, ZenonT(60) DEF RetriesCounted, RunsCounted
      <3>3. RowsCounted'
        BY <1>1, <3>1, <3>2, EnqueueCounted, ZenonT(60) DEF RetriesCounted
      <3>4. ReadsCounted' /\ RestartsCounted'
        BY <3>1, KeptCounted, SMTT(60)
      <3>5. RunsCounted'
        BY <3>1, AdvanceCounted, ZenonT(60) DEF RetriesCounted
      <3> QED BY <3>3, <3>4, <3>5, ZenonT(60) DEF RetriesCounted
    <2>5. CASE PutUnlock(d)
      BY <2>1, <2>5, ZenonT(60) DEF PutUnlock, table, history
    <2>6. CASE RemoveProcessing(d)
      BY <2>6, DroppedCounted, ZenonT(60) DEF RemoveProcessing, table, history
    <2> QED BY <1>9, <2>2, <2>3, <2>4, <2>5, <2>6, FailureCounted, AckCounted, SMTT(60) DEF WorkerStep
  <1>10. ASSUME NEW c \in Consumers,
                \/ FetchFirst(c) \/ Listen(c) \/ PurgeLocks(c) \/ Poll(c) \/ FetchPending(c)
                \/ LoseSession(c)
         PROVE  RetriesCounted'
    <2>1. UNCHANGED <<row, snapshot, delivery, api, failures>>
      BY <1>10, ZenonT(60) DEF FetchFirst, Listen, PurgeLocks, Poll, FetchPending, LoseSession,
                          table, history
    <2> QED BY <2>1, DroppedCounted, SMTT(60)
  <1>11. ASSUME NEW c \in Consumers, Reconnect(c) PROVE RetriesCounted'
    <2>1. UNCHANGED <<row, api, failures>> /\ delivery' \subseteq delivery
      BY <1>11, ZenonT(60) DEF Reconnect, table, history
    <2>2. \A o \in Consumers : snapshot'[o] \subseteq snapshot[o]
      BY <1>11, SMTT(60) DEF Reconnect, Renew
    <2> QED BY <2>1, <2>2, DroppedCounted, ZenonT(60)
  <1>12. ASSUME NEW p \in Procs, Crash(p) PROVE RetriesCounted'
    <2>1. UNCHANGED <<row, api, failures>> /\ delivery' \subseteq delivery
      BY <1>12, ZenonT(60) DEF Crash, history
    <2>2. \A o \in Consumers : snapshot'[o] \subseteq snapshot[o]
      BY <1>12, ZenonT(60) DEF Crash, Renew
    <2> QED BY <2>1, <2>2, DroppedCounted, ZenonT(60)
  <1>13. ASSUME NEW p \in Procs, StopConsumers(p) PROVE RetriesCounted'
    BY <1>13, DroppedCounted, ZenonT(60) DEF StopConsumers, history
  <1>14. CASE UNCHANGED vars
    BY <1>14, DroppedCounted, ZenonT(60) DEF vars, table, consumers, history
  <1> QED
    BY <1>2, <1>3, <1>4, <1>5, <1>6, <1>7, <1>8, <1>9, <1>10, <1>11, <1>12,
       <1>13, <1>14, Zenon
    DEF Next, ConsumerStep

\* Before the first message is sent there is nothing to count.
LEMMA RetriesInit == Init => RetriesCounted
  <1>1. Init => RowsCounted
    BY SMTT(60) DEF Init, RowsCounted
  <1>2. Init => ReadsCounted /\ RestartsCounted /\ RunsCounted
    BY Zenon DEF Init, ReadsCounted, RestartsCounted, RunsCounted
  <1> QED BY <1>1, <1>2, ZenonT(60) DEF RetriesCounted

\* A task is rejected only after more failed runs than it has retries, whatever
\* sessions are lost, processes killed and messages misrouted.
THEOREM RejectedAfterRetries == Spec => []RetriesExhausted
  <1>1. RetriesCounted => RetriesExhausted
    BY Zenon DEF RetriesCounted, RowsCounted, RetriesExhausted
  <1> QED BY <1>1, RetriesInit, RetriesStep, Typing, PTL DEF Spec

-----------------------------------------------------------------------------
(* The invariant *)

\* What typing says of a delivery, and of one that is moved on.
LEMMA DeliveryTypes ==
    ASSUME TypeOK, NEW d \in delivery
    PROVE  /\ d.c \in Consumers /\ d.msg.m \in Msgs
           /\ \A ph : LET e == [d EXCEPT !.phase = ph]
                      IN  e.c = d.c /\ e.msg = d.msg /\ e.phase = ph
  <1>1. d \in Delivery
    BY ZenonT(60) DEF TypeOK
  <1> QED BY ONLY <1>1, SMTT(60) DEF Delivery, Message

\* Of the deliveries of a message on one queue only one is not given back, among the
\* processes that live: it has the lock.
LEMMA SoleHolder ==
    ASSUME TypeOK, Bookkeeping, NEW d \in delivery, NEW e \in delivery,
           d.msg.m = e.msg.m, d.msg.queue = e.msg.queue,
           d.phase # "put", e.phase # "put",
           pc[d.c] # "stopped", pc[e.c] # "stopped"
    PROVE  d = e
  <1>1. d.c \in Consumers /\ e.c \in Consumers /\ d.msg.m \in Msgs /\ d.c[2] = e.c[2]
    BY DeliveryTypes, ZenonT(60) DEF Bookkeeping, OwnQueue
  <1>2. Held(d.c, d.msg.m) /\ Held(e.c, d.msg.m)
    BY Zenon DEF Held
  <1>3. lock[d.c][d.msg.m] > 0 /\ lock[e.c][d.msg.m] > 0
    BY <1>1, <1>2, HeldLocked, ZenonT(60)
  <1>4. d.c = e.c
    BY <1>1, <1>3, SMTT(60) DEF Bookkeeping, LockOwner
  <1> QED BY <1>4 DEF Bookkeeping, OneDelivery

\* Steps that only drop deliveries, and change rows only by purging finished ones and
\* giving back open or finished ones, keep the invariant.
LEMMA KeptOpen ==
    ASSUME TypeOK, Busy, Forwarded, Placed,
           delivery' \subseteq delivery,
           \A d \in delivery' : pc'[d.c] # "stopped" => pc[d.c] # "stopped",
           \A m \in Msgs : /\ row'[m].queue = row[m].queue
                           /\ \/ row'[m].state = row[m].state
                              \/ row[m].state \in TaskState /\ row'[m].state = "queued"
                              \/ row[m].state \in Finished /\ row'[m].state = "deleted",
           \A r \in api' : \/ r \in api
                           \/ r.queue = "main" /\ r.m \in Msgs /\ row[r.m].state \in Finished
    PROVE  Busy' /\ Forwarded' /\ Placed'
  <1>0. \A d \in delivery : d.msg.m \in Msgs
    BY DeliveryTypes, ZenonT(60)
  <1>1. Busy'
    BY <1>0, SMTT(60) DEF Busy, Working, Open, Finished
  <1>2. Forwarded'
    BY <1>0, SMTT(60) DEF Forwarded
  <1>3. Placed'
    <2>1. \A r \in api : r.m \in Msgs
      BY CopyTypes, ZenonT(60)
    <2> QED BY <1>0, <2>1, SMTT(60) DEF Placed, Finished
  <1> QED BY <1>1, <1>2, <1>3, ZenonT(60)

\* So does enqueueing, on the actor queue or where nobody works on the message.
LEMMA EnqueueOpen ==
    ASSUME TypeOK, Busy, Forwarded, Placed, NEW m \in Msgs, NEW q, NEW n, NEW t,
           Enqueue(m, q, n, t), UNCHANGED pc, api' \subseteq api,
           \A d \in delivery' : d \in delivery \/ (d.msg.m = m /\ d.phase = "ended"),
           q = "main" \/ \A d \in delivery' : Working(d)' => d.msg.m # m
    PROVE  Busy' /\ Forwarded' /\ Placed'
  <1>0. \A d \in delivery : d.msg.m \in Msgs
    BY DeliveryTypes, ZenonT(60)
  <1>1. /\ row'[m].state = "queued" /\ row'[m].queue = q
        /\ \A o \in Msgs : o # m => row'[o] = row[o]
    BY SMTT(30) DEF Enqueue, TypeOK
  <1>2. Busy'
    <2> SUFFICES ASSUME NEW d \in delivery', Working(d)'
                 PROVE  row'[d.msg.m].queue = "main" /\ row'[d.msg.m].state \in Open
      BY ZenonT(60) DEF Busy
    <2>1. CASE d.msg.m = m
      BY <1>1, <2>1, ZenonT(60) DEF Open
    <2>2. CASE d.msg.m # m
      <3>1. d \in delivery /\ Working(d)
        BY <2>2, ZenonT(60) DEF Working
      <3> QED BY <1>0, <1>1, <2>2, <3>1, ZenonT(60) DEF Busy
    <2> QED BY <2>1, <2>2, ZenonT(60)
  <1>3. Forwarded'
    <2> SUFFICES ASSUME NEW d \in delivery', d.msg.queue = "dq", d.phase = "ended"
                 PROVE  ~(row'[d.msg.m].queue = "dq" /\ row'[d.msg.m].state = "consumed")
      BY ZenonT(60) DEF Forwarded
    <2>0. "queued" # "consumed"
      OBVIOUS
    <2>1. CASE d.msg.m = m
      BY <1>1, <2>0, <2>1, ZenonT(60)
    <2>2. CASE d.msg.m # m
      <3>1. d \in delivery
        BY <2>2, ZenonT(60)
      <3> QED BY <1>0, <1>1, <2>2, <3>1, ZenonT(60) DEF Forwarded
    <2> QED BY <2>1, <2>2, ZenonT(60)
  <1>4. Placed'
    <2>1. \A r \in api : r.m \in Msgs
      BY CopyTypes, ZenonT(60)
    <2> QED BY <1>0, <1>1, <2>1, SMTT(60) DEF Placed, Finished
  <1> QED BY <1>2, <1>3, <1>4, ZenonT(60)

\* So does moving a delivery on, when only a message of the actor queue ends or fails.
LEMMA AdvanceOpen ==
    ASSUME TypeOK, Busy, Forwarded, Placed, NEW d \in delivery, NEW ph, Advance(d, ph),
           UNCHANGED <<row, pc, api>>,
           ph \in {"waiting", "running", "failed"} =>
              d.phase \in {"waiting", "running", "failed"},
           ph \in {"ended", "failed"} => d.msg.queue = "main"
    PROVE  Busy' /\ Forwarded' /\ Placed'
  <1> DEFINE e == [d EXCEPT !.phase = ph]
  <1>1. e.c = d.c /\ e.msg = d.msg /\ e.phase = ph
    BY DeliveryTypes, ZenonT(60)
  <1>2. delivery' = (delivery \ {d}) \cup {e}
    BY ZenonT(60) DEF Advance
  <1> HIDE DEF e
  <1>3. Busy'
    BY <1>1, <1>2, SMTT(60) DEF Busy, Working
  <1>4. Forwarded'
    BY <1>1, <1>2, SMTT(60) DEF Forwarded
  <1>5. Placed'
    BY <1>1, <1>2, SMTT(60) DEF Placed
  <1> QED BY <1>3, <1>4, <1>5, ZenonT(60)

\* A claim on its own queue finds no delivery on that queue that is about to be
\* acknowledged: it would hold the lock, or occupy the slot, that the claim needs.
LEMMA ClaimAlone ==
    ASSUME TypeOK, Bookkeeping, NEW c \in Consumers, NEW m \in Msgs,
           m \notin in_processing[c], LockFree(c, m),
           NEW d \in delivery, d.phase = "ended", d.msg.m = m
    PROVE  d.msg.queue # c[2]
  <1> SUFFICES ASSUME d.msg.queue = c[2] PROVE FALSE
    OBVIOUS
  <1>1. d.c \in Consumers /\ d.c[2] = c[2]
    BY DeliveryTypes, ZenonT(60) DEF Bookkeeping, OwnQueue
  <1>2. d.c # c
    BY ZenonT(60) DEF Bookkeeping, Slots, Delivered
  <1>3. pc[d.c] # "stopped"
    BY Zenon DEF Bookkeeping, Halted
  <1>4. Held(d.c, m)
    BY Zenon DEF Held
  <1>5. lock[d.c][m] > 0
    BY <1>1, <1>3, <1>4, HeldLocked
  <1> QED BY <1>1, <1>2, <1>5, SMTT(60) DEF LockFree

\* So does a claim: its own queue has no other delivery about to be acknowledged.
LEMMA ClaimOpen ==
    ASSUME TypeOK, Bookkeeping, Busy, Forwarded, Placed, NEW c \in Consumers,
           NEW s \in snapshot[c], Claim(c, s), UNCHANGED <<pc, api>>,
           s.m \notin in_processing[c], LockFree(c, s.m), row[s.m].state \in Open,
           s.queue = c[2], row[s.m].queue = c[2]
    PROVE  Busy' /\ Forwarded' /\ Placed'
  <1> DEFINE e == [c |-> c, gen |-> gen[c], msg |-> s, phase |-> "waiting"]
  <1>0. s.m \in Msgs /\ \A d \in delivery : d.msg.m \in Msgs
    <2>1. s \in Message
      BY DEF TypeOK
    <2> QED BY <2>1, DeliveryTypes DEF Message
  <1>1. e.c = c /\ e.msg = s /\ e.phase = "waiting" /\ delivery' = delivery \cup {e}
    BY Zenon DEF Claim
  <1>2. /\ row'[s.m].state = "consumed" /\ row'[s.m].queue = row[s.m].queue
        /\ \A o \in Msgs : o # s.m => row'[o] = row[o]
    BY <1>0, SMTT(60) DEF Claim, TypeOK, Row
  <1> HIDE DEF e
  <1>3. Busy'
    <2> SUFFICES ASSUME NEW d \in delivery', Working(d)'
                 PROVE  row'[d.msg.m].queue = "main" /\ row'[d.msg.m].state \in Open
      BY Zenon DEF Busy
    <2>1. CASE d = e
      BY <1>1, <1>2, <2>1, ZenonT(60) DEF Working, Open
    <2>2. CASE d \in delivery
      <3>1. row[d.msg.m].queue = "main" /\ row[d.msg.m].state \in Open
        BY <2>2, ZenonT(60) DEF Busy, Working
      <3> QED BY <1>0, <1>2, <2>2, <3>1, ZenonT(60) DEF Open
    <2> QED BY <1>1, <2>1, <2>2, Zenon
  <1>4. Forwarded'
    <2> SUFFICES ASSUME NEW d \in delivery', d.msg.queue = "dq", d.phase = "ended",
                        row'[d.msg.m].queue = "dq", row'[d.msg.m].state = "consumed"
                 PROVE  FALSE
      BY ZenonT(60) DEF Forwarded
    <2>1. d \in delivery
      BY <1>1, ZenonT(60)
    <2>2. CASE d.msg.m = s.m
      BY <1>0, <1>2, <2>1, <2>2, ClaimAlone, ZenonT(60)
    <2>3. CASE d.msg.m # s.m
      BY <1>0, <1>2, <2>1, <2>3, ZenonT(60) DEF Forwarded
    <2> QED BY <2>2, <2>3, SMTT(60)
  <1>5. Placed'
    <2>1. \A r \in api : r.m \in Msgs
      BY CopyTypes, ZenonT(60)
    <2> QED BY <1>0, <1>1, <1>2, <2>1, SMTT(60) DEF Placed, Finished
  <1> QED BY <1>3, <1>4, <1>5, Zenon

\* An acknowledgement that writes its row writes that of a message of the actor queue,
\* open until then, that nobody else works on.
LEMMA AckWrites ==
    ASSUME TypeOK, Bookkeeping, Busy, Forwarded, Placed, NEW d \in delivery,
           Ack(d) \/ Nack(d), row' # row
    PROVE  /\ row[d.msg.m].queue = "main" /\ row[d.msg.m].state \in Open
           /\ \A e \in delivery \ {d} : Working(e) => e.msg.m # d.msg.m
           /\ row'[d.msg.m].queue = "main"
           /\ \A o \in Msgs : o # d.msg.m => row'[o] = row[o]
           /\ \/ /\ d.phase = "ended" /\ row'[d.msg.m].state = "done"
                 /\ row[d.msg.m].queue = d.msg.queue /\ row[d.msg.m].state = "consumed"
              \/ d.phase = "failed" /\ row'[d.msg.m].state = "rejected"
  <1>0. d.msg.m \in Msgs /\ row \in [Msgs -> Row]
    BY DeliveryTypes, ZenonT(60) DEF TypeOK
  <1>1. /\ row[d.msg.m].queue = d.msg.queue
        /\ \/ /\ d.phase = "ended" /\ row[d.msg.m].state = "consumed"
              /\ row' = [row EXCEPT ![d.msg.m].state = "done",
                                    ![d.msg.m].retries = d.msg.retries]
           \/ /\ d.phase = "failed"
              /\ row' = [row EXCEPT ![d.msg.m].state = "rejected",
                                    ![d.msg.m].retries = d.msg.retries]
    BY ZenonT(60) DEF Ack, Nack
  <1>2. /\ row'[d.msg.m].queue = row[d.msg.m].queue
        /\ \A o \in Msgs : o # d.msg.m => row'[o] = row[o]
        /\ d.phase = "ended" => row'[d.msg.m].state = "done"
        /\ d.phase = "failed" => row'[d.msg.m].state = "rejected"
    BY <1>0, <1>1, SMTT(60) DEF Row
  <1>3. d.msg.queue = "main"
    <2>1. d.msg.queue \in {"main", "dq"}
      BY SMTT(60) DEF TypeOK, Delivery, Message, Queues
    <2> QED BY <1>1, <2>1, SMTT(60) DEF Forwarded, Placed
  <1>4. pc[d.c] # "stopped" /\ d.phase # "put"
    BY <1>1, SMTT(60) DEF Bookkeeping, Halted
  <1>5. row[d.msg.m].state \in Open
    BY <1>1, <1>3, <1>4, SMTT(60) DEF Busy, Working, Open
  <1>6. \A e \in delivery \ {d} : Working(e) => e.msg.m # d.msg.m
    <2> SUFFICES ASSUME NEW e \in delivery, e # d, Working(e), e.msg.m = d.msg.m PROVE FALSE
      BY ZenonT(60)
    <2>1. e.msg.queue = "main" /\ pc[e.c] # "stopped" /\ e.phase # "put"
      BY SMTT(60) DEF Working
    <2> QED BY <1>3, <1>4, <2>1, SoleHolder, ZenonT(60)
  <1> QED BY <1>1, <1>2, <1>3, <1>5, <1>6, ZenonT(60)

\* What a worker thread does keeps the invariant.
LEMMA WorkerOpen ==
    ASSUME TypeOK, Bookkeeping, Busy, Forwarded, Placed, NEW d \in delivery, WorkerStep(d)
    PROVE  Busy' /\ Forwarded' /\ Placed'
  <1>0. /\ d.c \in Consumers /\ d.msg.m \in Msgs
        /\ \A ph : LET e == [d EXCEPT !.phase = ph]
                   IN  e.c = d.c /\ e.msg = d.msg /\ e.phase = ph
    BY DeliveryTypes, ZenonT(60)
  <1>1. d.phase = "running" => d.msg.queue = "main"
    BY ZenonT(60) DEF Bookkeeping, RunsOnMain
  <1>2. CASE Process(d)
    BY <1>2, AdvanceOpen, SMTT(60) DEF Process, table, consumers
  <1>3. CASE Succeed(d)
    BY <1>1, <1>3, AdvanceOpen, SMTT(60) DEF Succeed, table, consumers
  <1>4. CASE GiveUp(d)
    BY <1>1, <1>4, AdvanceOpen, SMTT(60) DEF GiveUp, table, consumers
  <1>5. CASE PutUnlock(d)
    BY <1>5, AdvanceOpen, SMTT(60) DEF PutUnlock, table
  <1>6. CASE RemoveProcessing(d)
    BY <1>6, KeptOpen, SMTT(60) DEF RemoveProcessing, table
  <1>7. CASE Retry(d)
    <2> DEFINE e == [d EXCEPT !.phase = "ended", !.msg.retries = @ + 1]
    <2>1. e.c = d.c /\ e.phase = "ended" /\ e.msg.m = d.msg.m
      <3>1. d \in Delivery
        BY ZenonT(60) DEF TypeOK
      <3> QED BY ONLY <3>1, SMTT(60) DEF Delivery, Message
    <2>2. /\ delivery' = (delivery \ {d}) \cup {e} /\ UNCHANGED <<pc, api>>
          /\ Enqueue(d.msg.m, "dq", d.msg.retries + 1, DefaultTenant)
          /\ d.phase = "running"
      BY <1>7, Zenon DEF Retry
    <2> HIDE DEF e
    <2>3. pc[d.c] # "stopped"
      BY <2>2, SMTT(60) DEF Bookkeeping, Halted
    <2>4. ASSUME NEW o \in delivery', Working(o)' PROVE o.msg.m # d.msg.m
      <3>1. o \in delivery /\ o # d /\ o.msg.queue = "main" /\ pc[o.c] # "stopped"
            /\ o.phase # "put"
        BY <2>1, <2>2, <2>4, SMTT(60) DEF Working
      <3> QED BY <1>1, <2>2, <2>3, <3>1, SoleHolder, SMTT(60)
    <2>5. \A o \in delivery' : o \in delivery \/ (o.msg.m = d.msg.m /\ o.phase = "ended")
      BY <2>1, <2>2, Zenon
    <2> QED BY <1>0, <2>2, <2>4, <2>5, EnqueueOpen, ZenonT(60)
  <1>8. CASE DelayElapsed(d)
    <2>1. /\ delivery' = (delivery \ {d}) \cup {[d EXCEPT !.phase = "ended"]}
          /\ UNCHANGED <<pc, api>>
          /\ Enqueue(d.msg.m, "main", d.msg.retries, DefaultTenant)
      BY <1>8, Zenon DEF DelayElapsed, Advance
    <2>2. \A o \in delivery' : o \in delivery \/ (o.msg.m = d.msg.m /\ o.phase = "ended")
      BY <1>0, <2>1, ZenonT(60)
    <2> QED BY <1>0, <2>1, <2>2, EnqueueOpen, Zenon
  <1>9. CASE Ack(d) \/ Nack(d)
    <2>1. Advance(d, "acked") /\ UNCHANGED <<pc, api>>
      BY <1>9, Zenon DEF Ack, Nack, consumers
    <2>2. CASE row' = row
      BY <2>1, <2>2, AdvanceOpen, SMTT(60)
    <2>3. CASE row' # row
      <3> DEFINE e == [d EXCEPT !.phase = "acked"]
      <3>1. e.phase = "acked" /\ e.msg = d.msg /\ delivery' = (delivery \ {d}) \cup {e}
        BY <1>0, <2>1, Zenon DEF Advance
      <3> HIDE DEF e
      <3>2. /\ \A o \in delivery \ {d} : Working(o) => o.msg.m # d.msg.m
            /\ row'[d.msg.m].queue = "main" /\ row'[d.msg.m].state \in Finished
            /\ \A o \in Msgs : o # d.msg.m => row'[o] = row[o]
        BY <1>9, <2>3, AckWrites, Zenon DEF Finished
      <3>3. \A o \in delivery : o.msg.m \in Msgs
        BY DeliveryTypes, Zenon
      <3>4. Busy'
        BY <2>1, <3>1, <3>2, <3>3, ZenonT(60) DEF Busy, Working
      <3>5. Forwarded'
        BY <3>1, <3>2, <3>3, SMTT(60) DEF Forwarded
      <3>6. Placed'
        <4>1. \A r \in api : r.m \in Msgs
          BY CopyTypes, ZenonT(60)
        <4> QED BY <1>0, <2>1, <3>1, <3>2, <3>3, <4>1, SMTT(60) DEF Placed, Finished
      <3> QED BY <3>4, <3>5, <3>6, Zenon
    <2> QED BY <2>2, <2>3
  <1> QED BY <1>2, <1>3, <1>4, <1>5, <1>6, <1>7, <1>8, <1>9, ZenonT(60) DEF WorkerStep

\* No step makes a disorderly system orderly.
LEMMA OrderlyBefore ==
    ASSUME TypeOK, [Next]_vars, Orderly'
    PROVE  Orderly
  <1>1. CASE losses' = losses /\ misrouted' = misrouted
    BY <1>1, ZenonT(60) DEF Orderly
  <1>2. ASSUME NEW c \in Consumers, ConsumeOne(c) PROVE Orderly
    <2>1. losses' = losses
      BY <1>2, ZenonT(60) DEF ConsumeOne, bounds
    <2>2. misrouted => misrouted'
      BY <1>2, ZenonT(60) DEF ConsumeOne, Claim
    <2> QED BY <2>1, <2>2, ZenonT(60) DEF Orderly
  <1>3. ASSUME NEW c \in Consumers, LoseSession(c) PROVE Orderly
    BY <1>3, SMTT(60) DEF LoseSession, TypeOK, Orderly
  <1>4. CASE \E m \in Msgs : Send(m) \/ RetryCheck(m)
    BY <1>1, <1>4, ZenonT(60) DEF Send, RetryCheck, history, bounds
  <1>5. CASE \E r \in api : RetryEnqueue(r)
    BY <1>1, <1>5, ZenonT(60) DEF RetryEnqueue, bounds
  <1>6. ASSUME NEW c \in Consumers, ConsumerStep(c) \/ AutoPurge(c) \/ LoseSession(c)
        PROVE  Orderly
    BY <1>1, <1>2, <1>3, <1>6, ZenonT(60)
    DEF ConsumerStep, FetchFirst, Listen, PurgeLocks, Poll, FetchPending, Pop, Reconnect,
        AutoPurge, history, bounds
  <1>7. CASE \E d \in delivery : WorkerStep(d)
    BY <1>1, <1>7, ZenonT(60)
    DEF WorkerStep, Process, Succeed, Retry, GiveUp, DelayElapsed, Ack, Nack, PutUnlock,
        RemoveProcessing, history, bounds
  <1>8. CASE \E p \in Procs : Crash(p) \/ StopConsumers(p) \/ Requeue(p)
    BY <1>1, <1>8, ZenonT(60) DEF Crash, StopConsumers, Requeue, history, bounds
  <1>9. CASE UNCHANGED vars
    BY <1>1, <1>9, Zenon DEF vars, history, bounds
  <1> QED BY <1>4, <1>5, <1>6, <1>7, <1>8, <1>9, ZenonT(60) DEF Next

\* Every step keeps the invariant.
LEMMA OpenStep == TypeOK /\ IInv /\ OpenInv /\ [Next]_vars => OpenInv'
  <1> SUFFICES ASSUME TypeOK, IInv, OpenInv, [Next]_vars, Orderly'
               PROVE  Busy' /\ Forwarded' /\ Placed'
    BY ZenonT(60) DEF OpenInv
  <1>0. Orderly /\ Bookkeeping /\ Busy /\ Forwarded /\ Placed
    BY OrderlyBefore, ZenonT(60) DEF IInv, OpenInv
  <1>1. ASSUME UNCHANGED row, delivery' \subseteq delivery, UNCHANGED api,
               \A d \in delivery' : pc'[d.c] # "stopped" => pc[d.c] # "stopped"
        PROVE  Busy' /\ Forwarded' /\ Placed'
    BY <1>0, <1>1, KeptOpen, ZenonT(60)
  <1>2. ASSUME NEW m \in Msgs, Send(m) PROVE Busy' /\ Forwarded' /\ Placed'
    <2>1. PICK t \in Tenants : Enqueue(m, "main", 0, t)
      BY <1>2, ZenonT(60) DEF Send
    <2> QED BY <1>0, <1>2, <2>1, EnqueueOpen, ZenonT(60) DEF Send
  <1>3. ASSUME NEW m \in Msgs, RetryCheck(m) PROVE Busy' /\ Forwarded' /\ Placed'
    <2>1. \A r \in api' : \/ r \in api
                          \/ r.queue = "main" /\ r.m \in Msgs /\ row[r.m].state \in Finished
      BY <1>0, <1>3, SMTT(60) DEF RetryCheck, Placed
    <2>2. UNCHANGED <<row, delivery, pc>>
      BY <1>3, ZenonT(60) DEF RetryCheck, table, consumers
    <2> QED BY <1>0, <2>1, <2>2, KeptOpen, ZenonT(60)
  <1>4. ASSUME NEW r \in api, RetryEnqueue(r) PROVE Busy' /\ Forwarded' /\ Placed'
    <2>1. r.m \in Msgs /\ r.queue = "main"
      BY <1>0, SMTT(60) DEF TypeOK, Message, Placed
    <2>2. /\ Enqueue(r.m, r.queue, r.retries, r.tenant) /\ UNCHANGED <<pc, delivery>>
          /\ api' \subseteq api
      BY <1>4, ZenonT(60) DEF RetryEnqueue
    <2> QED BY <1>0, <2>1, <2>2, EnqueueOpen, ZenonT(60)
  <1>5. ASSUME NEW c \in Consumers, FetchFirst(c) \/ Listen(c)
        PROVE  Busy' /\ Forwarded' /\ Placed'
    <2>1. /\ UNCHANGED <<row, delivery, api>> /\ pc[c] # "stopped"
          /\ \E v : pc' = [pc EXCEPT ![c] = v]
      BY <1>5, SMTT(60) DEF FetchFirst, Listen, table
    <2>2. \A d \in delivery' : pc'[d.c] # "stopped" => pc[d.c] # "stopped"
      BY <2>1, DeliveryTypes, SMTT(60) DEF TypeOK
    <2> QED BY <1>1, <2>1, <2>2, ZenonT(60)
  <1>6. ASSUME NEW c \in Consumers, PurgeLocks(c) \/ Poll(c) \/ FetchPending(c) \/ Pop(c)
        PROVE  Busy' /\ Forwarded' /\ Placed'
    BY <1>1, <1>6, ZenonT(60) DEF PurgeLocks, Poll, FetchPending, Pop, table
  <1>7. ASSUME NEW c \in Consumers, ConsumeOne(c) PROVE Busy' /\ Forwarded' /\ Placed'
    <2>1. PICK s \in snapshot[c] :
             \/ /\ s.m \notin in_processing[c] /\ LockFree(c, s.m) /\ Claim(c, s)
                /\ row[s.m].state \in Open
             \/ UNCHANGED <<lock, row, in_processing, delivery, misrouted>>
      BY <1>7, ZenonT(60) DEF ConsumeOne
    <2>2. UNCHANGED <<pc, api>>
      BY <1>7, ZenonT(60) DEF ConsumeOne
    <2>3. CASE s.m \notin in_processing[c] /\ LockFree(c, s.m) /\ Claim(c, s)
               /\ row[s.m].state \in Open
      <3>1. s.queue = c[2] /\ row[s.m].queue = c[2]
        BY <2>3, ZenonT(60) DEF Claim, Orderly
      <3> QED BY <1>0, <2>2, <2>3, <3>1, ClaimOpen, ZenonT(60)
    <2>4. CASE UNCHANGED <<lock, row, in_processing, delivery, misrouted>>
      BY <1>1, <2>2, <2>4, ZenonT(60)
    <2> QED BY <2>1, <2>3, <2>4, ZenonT(60)
  <1>8. ASSUME NEW c \in Consumers, Reconnect(c) PROVE FALSE
    BY <1>0, <1>8, ZenonT(40) DEF Bookkeeping, NoneLost, Reconnect
  <1>9. ASSUME NEW c \in Consumers, AutoPurge(c) PROVE Busy' /\ Forwarded' /\ Placed'
    <2>1. \A m \in Msgs : /\ row'[m].queue = row[m].queue
                          /\ \/ row'[m].state = row[m].state
                             \/ row[m].state \in Finished /\ row'[m].state = "deleted"
      BY <1>9, SMTT(60) DEF AutoPurge, TypeOK, Row
    <2>2. UNCHANGED <<delivery, pc, api>>
      BY <1>9, ZenonT(60) DEF AutoPurge, consumers
    <2> QED BY <1>0, <2>1, <2>2, KeptOpen, ZenonT(60)
  <1>10. ASSUME NEW c \in Consumers, LoseSession(c) PROVE FALSE
    BY <1>10, SMTT(60) DEF LoseSession, TypeOK, Orderly
  <1>11. ASSUME NEW d \in delivery, WorkerStep(d) PROVE Busy' /\ Forwarded' /\ Placed'
    BY <1>0, <1>11, WorkerOpen, ZenonT(60)
  <1>12. ASSUME NEW p \in Procs, Crash(p) PROVE Busy' /\ Forwarded' /\ Placed'
    <2>1. \A d \in delivery' : d \in delivery /\ d.c[1] # p
      BY <1>12, ZenonT(60) DEF Crash
    <2>2. \A c \in Consumers : c[1] # p => pc'[c] = pc[c]
      BY <1>12, SMTT(60) DEF Crash, Renew, ConsumersOf
    <2>3. UNCHANGED <<row, api>>
      BY <1>12, ZenonT(60) DEF Crash
    <2> QED BY <1>1, <2>1, <2>2, <2>3, DeliveryTypes, ZenonT(60)
  <1>13. ASSUME NEW p \in Procs, StopConsumers(p) PROVE Busy' /\ Forwarded' /\ Placed'
    <2>1. \A c \in Consumers : pc'[c] # "stopped" => pc[c] # "stopped"
      BY <1>13, SMTT(60) DEF StopConsumers
    <2> QED BY <1>1, <1>13, <2>1, DeliveryTypes, ZenonT(60) DEF StopConsumers
  <1>14. ASSUME NEW p \in Procs, Requeue(p) PROVE Busy' /\ Forwarded' /\ Placed'
    <2>1. \A d \in delivery' : d \in delivery /\ d.c[1] # p
      BY <1>14, ZenonT(60) DEF Requeue
    <2>2. \A c \in Consumers : c[1] # p => pc'[c] = pc[c]
      BY <1>14, SMTT(60) DEF Requeue, Renew, ConsumersOf
    <2>3. \A m \in Msgs : /\ row'[m].queue = row[m].queue
                          /\ \/ row'[m].state = row[m].state
                             \/ row[m].state \in TaskState /\ row'[m].state = "queued"
      BY <1>14, SMTT(60) DEF Requeue, TypeOK, Row
    <2>4. UNCHANGED api
      BY <1>14, ZenonT(60) DEF Requeue
    <2>5. \A d \in delivery' : pc'[d.c] # "stopped" => pc[d.c] # "stopped"
      BY <2>1, <2>2, DeliveryTypes, ZenonT(60)
    <2> QED BY <1>0, <2>1, <2>3, <2>4, <2>5, KeptOpen, ZenonT(60)
  <1>15. CASE UNCHANGED vars
    BY <1>1, <1>15, ZenonT(60) DEF vars, table, consumers
  <1> QED
    BY <1>2, <1>3, <1>4, <1>5, <1>6, <1>7, <1>8, <1>9, <1>10, <1>11, <1>12, <1>13, <1>14,
       <1>15, ZenonT(60) DEF Next, ConsumerStep

-----------------------------------------------------------------------------
(* The steps of the queue that the steps of the broker are *)

\* The status of every message follows from its row.
LEMMA StatusFollows ==
    /\ statusBar = [m \in Msgs |-> StatusOf(row[m])]
    /\ statusBar' = [m \in Msgs |-> StatusOf(row'[m])]
    /\ \A m \in Msgs : statusBar[m] = StatusOf(row[m]) /\ statusBar'[m] = StatusOf(row'[m])
  BY ZenonT(60) DEF statusBar, StatusOf

\* A row that is written gives its message a new status, and nothing else changes.
LEMMA StatusBecomes ==
    ASSUME NEW m \in Msgs, NEW st, StatusOf(row'[m]) = st,
           \A o \in Msgs : o # m => row'[o] = row[o]
    PROVE  statusBar' = [statusBar EXCEPT ![m] = st]
  <1>1. \A o \in Msgs : StatusOf(row'[o]) = IF o = m THEN st ELSE StatusOf(row[o])
    BY ZenonT(60) DEF StatusOf
  <1> QED BY <1>1, StatusFollows, SMTT(60)

\* Enqueueing opens the message, and changes the status of no other.
LEMMA EnqueueStatus ==
    ASSUME TypeOK, NEW m \in Msgs, NEW q, NEW n, NEW t, Enqueue(m, q, n, t)
    PROVE  statusBar' = [statusBar EXCEPT ![m] = "open"]
  <1>1. /\ row'[m].state = "queued"
        /\ \A o \in Msgs : o # m => row'[o] = row[o]
    BY SMTT(30) DEF Enqueue, TypeOK
  <1>2. StatusOf(row'[m]) = "open"
    BY <1>1, ZenonT(60) DEF StatusOf, Open
  <1> QED BY <1>1, <1>2, StatusBecomes, ZenonT(60)

\* A step that concerns neither status nor runs is a stutter of the queue.
LEMMA QueueStutters ==
    ASSUME UNCHANGED <<failures, succeeded>>, Orderly, Orderly',
           \A m \in Msgs : StatusOf(row'[m]) = StatusOf(row[m]), runningBar' = runningBar
    PROVE  UNCHANGED Queue!vars
  <1>1. statusBar' = statusBar
    BY StatusFollows, ZenonT(60)
  <1>2. Orderly' = Orderly
    BY ZenonT(60) DEF Orderly
  <1> QED BY <1>1, <1>2, ZenonT(60) DEF Queue!vars

\* Deliveries that were not running and are not may come and go.
LEMMA SameRuns ==
    ASSUME \A d \in delivery : d.phase = "running" => d \in delivery',
           \A d \in delivery' : d.phase = "running" => d \in delivery
    PROVE  runningBar' = runningBar
  <1>1. {e \in delivery' : e.phase = "running"} = {e \in delivery : e.phase = "running"}
    BY ZenonT(60)
  <1> QED BY <1>1, ZenonT(60) DEF runningBar

\* A delivery moved on neither into nor out of a run leaves the runs as they are.
LEMMA AdvanceRuns ==
    ASSUME TypeOK, NEW d \in delivery, NEW ph, Advance(d, ph),
           d.phase # "running", ph # "running"
    PROVE  runningBar' = runningBar
  <1>1. [d EXCEPT !.phase = ph].phase = ph
    BY DeliveryTypes, ZenonT(60)
  <1> QED BY <1>1, SameRuns, ZenonT(60) DEF Advance

\* The run that ends was the only one of its message.
LEMMA RunEnds ==
    ASSUME TypeOK, Bookkeeping, NEW d \in delivery, d.phase = "running", NEW e,
           e.phase # "running", delivery' = (delivery \ {d}) \cup {e}
    PROVE  d.msg.m \in runningBar /\ runningBar' = runningBar \ {d.msg.m}
  <1>1. ASSUME NEW o \in delivery, o.phase = "running", o.msg.m = d.msg.m PROVE o = d
    <2>1. o.msg.queue = "main" /\ d.msg.queue = "main"
      BY <1>1, ZenonT(60) DEF Bookkeeping, RunsOnMain
    <2>2. pc[o.c] # "stopped" /\ pc[d.c] # "stopped"
      BY <1>1, SMTT(60) DEF Bookkeeping, Halted
    <2> QED BY <1>1, <2>1, <2>2, SoleHolder, SMTT(60)
  <1> QED BY <1>1, SMTT(60) DEF runningBar

\* What a worker thread does is a step of the queue, or a stutter.
LEMMA WorkerRefines ==
    ASSUME TypeOK, Bookkeeping, OwnRow, Busy, Forwarded, Placed, RetriesCounted,
           Orderly, Orderly', NEW d \in delivery, WorkerStep(d)
    PROVE  [Queue!Next]_(Queue!vars)
  <1> DEFINE k == d.msg.m
  <1>0. /\ d.c \in Consumers /\ k \in Msgs
        /\ \A ph : LET e == [d EXCEPT !.phase = ph]
                   IN  e.c = d.c /\ e.msg = d.msg /\ e.phase = ph
    BY DeliveryTypes, ZenonT(60)
  <1>o. Orderly' = Orderly
    BY ZenonT(60) DEF Orderly
  <1>t. ASSUME Queue!TaskStep(k) PROVE [Queue!Next]_(Queue!vars)
    BY <1>0, <1>t, ZenonT(60) DEF Queue!Next
  <1>s. ASSUME row' = row PROVE statusBar' = statusBar
    BY <1>s, ZenonT(60) DEF statusBar
  <1>1. CASE Process(d)
    <2>1. /\ UNCHANGED <<row, failures, succeeded>> /\ d.phase = "waiting" /\ Working(d)
          /\ delivery' = (delivery \ {d}) \cup {[d EXCEPT !.phase = "running"]}
      BY <1>1, SMTT(60) DEF Process, Advance, Working, table, history
    <2>2. statusBar[k] = "open"
      <3>1. row[k].state \in Open
        BY <2>1, ZenonT(60) DEF Busy
      <3> QED BY <1>0, <3>1, StatusFollows, ZenonT(60) DEF StatusOf
    <2>3. k \notin runningBar
      <3> SUFFICES ASSUME NEW o \in delivery, o.phase = "running", o.msg.m = k PROVE FALSE
        BY SMTT(60) DEF runningBar
      <3>1. o.msg.queue = "main" /\ pc[o.c] # "stopped"
        BY SMTT(60) DEF Bookkeeping, RunsOnMain, Halted
      <3>2. o = d
        BY <2>1, <3>1, SoleHolder, SMTT(60) DEF Working
      <3> QED BY <2>1, <3>2, SMTT(60)
    <2>4. runningBar' = runningBar \cup {k}
      <3> DEFINE e == [d EXCEPT !.phase = "running"]
      <3>1. e.msg.m = k /\ e.phase = "running" /\ delivery' = (delivery \ {d}) \cup {e}
        BY <1>0, <2>1, ZenonT(60)
      <3> HIDE DEF e
      <3> QED BY <2>1, <3>1, SMTT(60) DEF runningBar
    <2>5. Queue!Start(k)
      BY <1>o, <1>s, <2>1, <2>2, <2>3, <2>4, ZenonT(60) DEF Queue!Start
    <2> QED BY <1>t, <2>5, ZenonT(60) DEF Queue!TaskStep
  <1>2. CASE Succeed(d)
    <2>1. /\ UNCHANGED <<row, failures>> /\ d.phase = "running"
          /\ succeeded' = succeeded \cup {k}
          /\ delivery' = (delivery \ {d}) \cup {[d EXCEPT !.phase = "ended"]}
      BY <1>2, ZenonT(60) DEF Succeed, Advance, table
    <2>2. k \in runningBar /\ runningBar' = runningBar \ {k}
      <3>1. [d EXCEPT !.phase = "ended"].phase # "running"
        BY <1>0, SMTT(60)
      <3> QED BY <2>1, <3>1, RunEnds, ZenonT(60)
    <2>3. Queue!Pass(k)
      BY <1>o, <1>s, <2>1, <2>2, ZenonT(60) DEF Queue!Pass
    <2> QED BY <1>t, <2>3, ZenonT(60) DEF Queue!TaskStep
  <1>3. CASE Retry(d)
    <2> DEFINE e == [d EXCEPT !.phase = "ended", !.msg.retries = @ + 1]
    <2>1. e.phase # "running"
      BY SMTT(60) DEF TypeOK, Delivery, Message
    <2>2. /\ delivery' = (delivery \ {d}) \cup {e} /\ d.phase = "running"
          /\ Enqueue(k, "dq", d.msg.retries + 1, DefaultTenant)
          /\ failures' = [failures EXCEPT ![k] = @ + 1]
          /\ succeeded' = succeeded \ {k}
      BY <1>3, ZenonT(60) DEF Retry
    <2> HIDE DEF e
    <2>3. k \in runningBar /\ runningBar' = runningBar \ {k}
      BY <2>1, <2>2, RunEnds, ZenonT(60)
    <2>4. statusBar[k] = "open"
      <3>1. Working(d)
        BY <2>2, SMTT(60) DEF Working, Bookkeeping, RunsOnMain, Halted
      <3>2. row[k].state \in Open
        BY <3>1, ZenonT(60) DEF Busy
      <3> QED BY <1>0, <3>2, StatusFollows, Zenon DEF StatusOf
    <2>5. statusBar' = [statusBar EXCEPT ![k] = "open"]
      BY <1>0, <2>2, EnqueueStatus, ZenonT(60)
    <2>6. statusBar' = statusBar
      <3>1. statusBar = [m \in Msgs |-> StatusOf(row[m])]
        BY StatusFollows, ZenonT(60)
      <3> QED BY <2>4, <2>5, <3>1, SMTT(60)
    <2>7. Queue!Fail(k)
      BY <1>o, <2>2, <2>3, <2>6, ZenonT(60) DEF Queue!Fail
    <2> QED BY <1>t, <2>7, ZenonT(60) DEF Queue!TaskStep
  <1>4. CASE GiveUp(d)
    <2>1. /\ UNCHANGED <<row, succeeded>> /\ d.phase = "running"
          /\ failures' = [failures EXCEPT ![k] = @ + 1]
          /\ delivery' = (delivery \ {d}) \cup {[d EXCEPT !.phase = "failed"]}
      BY <1>4, ZenonT(60) DEF GiveUp, Advance, table
    <2>2. k \in runningBar /\ runningBar' = runningBar \ {k}
      <3>1. [d EXCEPT !.phase = "failed"].phase # "running"
        BY <1>0, SMTT(60)
      <3> QED BY <2>1, <3>1, RunEnds, ZenonT(60)
    <2>3. Queue!Fail(k)
      BY <1>o, <1>s, <2>1, <2>2, ZenonT(60) DEF Queue!Fail
    <2> QED BY <1>t, <2>3, Zenon DEF Queue!TaskStep
  <1>5. CASE DelayElapsed(d)
    <2>1. /\ Enqueue(k, "main", d.msg.retries, DefaultTenant)
          /\ succeeded' = succeeded \ {k} /\ UNCHANGED failures
          /\ d.phase = "waiting" /\ Advance(d, "ended")
      BY <1>5, ZenonT(60) DEF DelayElapsed
    <2>2. statusBar' = [statusBar EXCEPT ![k] = "open"]
      BY <1>0, <2>1, EnqueueStatus, ZenonT(60)
    <2>3. runningBar' = runningBar
      BY <2>1, AdvanceRuns, SMTT(60)
    <2>4. statusBar[k] # "unsent"
      <3>1. row[k].state # "unsent"
        BY ZenonT(60) DEF Placed
      <3> QED BY <1>0, <3>1, StatusFollows, SMTT(60) DEF StatusOf
    <2>5. Queue!Reopen(k)
      BY <1>o, <2>1, <2>2, <2>3, <2>4, ZenonT(60) DEF Queue!Reopen, Queue!Become
    <2> QED BY <1>t, <2>5, ZenonT(60) DEF Queue!TaskStep
  <1>6. CASE Ack(d) \/ Nack(d)
    <2>1. /\ Advance(d, "acked") /\ UNCHANGED <<failures, succeeded>>
          /\ d.phase \in {"ended", "failed"}
      BY <1>6, SMTT(60) DEF Ack, Nack, history
    <2>2. runningBar' = runningBar
      BY <2>1, AdvanceRuns, SMTT(60)
    <2>3. CASE row' = row
      BY <1>o, <1>s, <2>1, <2>2, <2>3, ZenonT(60) DEF Queue!vars
    <2>4. CASE row' # row
      <3>1. /\ row[k].state \in Open
            /\ \A o \in Msgs : o # k => row'[o] = row[o]
            /\ \/ /\ d.phase = "ended" /\ row'[k].state = "done"
                  /\ row[k].queue = d.msg.queue /\ row[k].state = "consumed"
               \/ d.phase = "failed" /\ row'[k].state = "rejected"
        BY <1>6, <2>4, AckWrites, ZenonT(60)
      <3>2. statusBar[k] = "open"
        BY <1>0, <3>1, StatusFollows, ZenonT(60) DEF StatusOf
      <3>3. CASE d.phase = "ended" /\ row'[k].state = "done"
        <4>1. k \in succeeded
          BY <3>1, <3>3, SMTT(60) DEF OwnRow
        <4>2. statusBar' = [statusBar EXCEPT ![k] = "done"]
          <5>1. StatusOf(row'[k]) = "done"
            BY <3>3, SMTT(60) DEF StatusOf, Open
          <5> QED BY <1>0, <3>1, <5>1, StatusBecomes, ZenonT(60)
        <4>3. Queue!Complete(k)
          BY <1>o, <2>1, <2>2, <3>2, <4>1, <4>2, ZenonT(60) DEF Queue!Complete, Queue!Become
        <4> QED BY <1>t, <4>3, ZenonT(60) DEF Queue!TaskStep
      <3>4. CASE d.phase = "failed" /\ row'[k].state = "rejected"
        <4>1. failures[k] > MaxRetries
          BY <3>4, ZenonT(60) DEF RetriesCounted, RunsCounted
        <4>2. statusBar' = [statusBar EXCEPT ![k] = "rejected"]
          <5>1. StatusOf(row'[k]) = "rejected"
            BY <3>4, SMTT(60) DEF StatusOf, Open
          <5> QED BY <1>0, <3>1, <5>1, StatusBecomes, ZenonT(60)
        <4>3. Queue!Reject(k)
          BY <1>o, <2>1, <2>2, <3>2, <4>1, <4>2, ZenonT(60) DEF Queue!Reject, Queue!Become
        <4> QED BY <1>t, <4>3, ZenonT(60) DEF Queue!TaskStep
      <3> QED BY <3>1, <3>3, <3>4, ZenonT(60)
    <2> QED BY <2>3, <2>4, SMTT(60)
  <1>7. CASE PutUnlock(d)
    <2>1. /\ Advance(d, "put") /\ UNCHANGED <<row, failures, succeeded>> /\ d.phase = "acked"
      BY <1>7, ZenonT(60) DEF PutUnlock, table, history
    <2>2. runningBar' = runningBar
      BY <2>1, AdvanceRuns, SMTT(60)
    <2> QED BY <1>o, <1>s, <2>1, <2>2, ZenonT(60) DEF Queue!vars
  <1>8. CASE RemoveProcessing(d)
    <2>1. /\ delivery' = delivery \ {d} /\ UNCHANGED <<row, failures, succeeded>>
          /\ d.phase = "put"
      BY <1>8, ZenonT(60) DEF RemoveProcessing, table, history
    <2>2. runningBar' = runningBar
      BY <2>1, SameRuns, SMTT(60)
    <2> QED BY <1>o, <1>s, <2>1, <2>2, ZenonT(60) DEF Queue!vars
  <1> QED BY <1>1, <1>2, <1>3, <1>4, <1>5, <1>6, <1>7, <1>8, ZenonT(60) DEF WorkerStep

\* Every step of the broker is a step of the queue, or a stutter.
LEMMA StepRefines ==
    TypeOK /\ IInv /\ OpenInv /\ RetriesCounted /\ [Next]_vars => [Queue!Next]_(Queue!vars)
  <1> SUFFICES ASSUME TypeOK, IInv, OpenInv, RetriesCounted, [Next]_vars
               PROVE  [Queue!Next]_(Queue!vars)
    OBVIOUS
  <1>1. CASE ~Orderly'
    <2>1. Orderly' = FALSE
      BY <1>1, ZenonT(60) DEF Orderly
    <2> QED BY <2>1, ZenonT(60) DEF Queue!Next
  <1>2. CASE Orderly'
    <2>0. Orderly /\ Bookkeeping /\ OwnRow /\ Busy /\ Forwarded /\ Placed
      BY <1>2, OrderlyBefore, ZenonT(60) DEF IInv, OpenInv
    <2>o. Orderly' = Orderly
      BY <1>2, <2>0, ZenonT(60) DEF Orderly
    <2>q. ASSUME UNCHANGED <<row, failures, succeeded>>, runningBar' = runningBar
          PROVE  [Queue!Next]_(Queue!vars)
      BY <2>o, <2>q, ZenonT(60) DEF Queue!vars, statusBar
    <2>1. ASSUME NEW m \in Msgs, Send(m) PROVE [Queue!Next]_(Queue!vars)
      <3>1. PICK t \in Tenants : Enqueue(m, "main", 0, t)
        BY <2>1, ZenonT(60) DEF Send
      <3>2. /\ row[m].state = "unsent"
            /\ UNCHANGED <<delivery, failures, succeeded>>
        BY <2>1, ZenonT(60) DEF Send, history
      <3>3. statusBar[m] = "unsent"
        BY <3>2, StatusFollows, SMTT(60) DEF StatusOf, Open
      <3>4. statusBar' = [statusBar EXCEPT ![m] = "open"]
        BY <3>1, EnqueueStatus, ZenonT(60)
      <3>5. runningBar' = runningBar
        BY <3>2, SameRuns, ZenonT(60)
      <3>6. Queue!Submit(m)
        BY <2>o, <3>2, <3>3, <3>4, <3>5, ZenonT(60) DEF Queue!Submit, Queue!Become
      <3> QED BY <3>6, ZenonT(60) DEF Queue!Next, Queue!TaskStep
    <2>2. ASSUME NEW m \in Msgs, RetryCheck(m) PROVE [Queue!Next]_(Queue!vars)
      <3>1. UNCHANGED <<row, delivery, failures, succeeded>>
        BY <2>2, ZenonT(60) DEF RetryCheck, table, history
      <3> QED BY <2>q, <3>1, SameRuns, ZenonT(60)
    <2>3. ASSUME NEW r \in api, RetryEnqueue(r) PROVE [Queue!Next]_(Queue!vars)
      <3>1. r.m \in Msgs /\ row[r.m].state # "unsent"
        BY <2>0, CopyTypes, ZenonT(60) DEF Placed
      <3>2. /\ Enqueue(r.m, r.queue, r.retries, r.tenant)
            /\ UNCHANGED <<delivery, failures>> /\ succeeded' = succeeded \ {r.m}
        BY <2>3, ZenonT(60) DEF RetryEnqueue
      <3>3. statusBar[r.m] # "unsent"
        BY <3>1, StatusFollows, SMTT(60) DEF StatusOf
      <3>4. statusBar' = [statusBar EXCEPT ![r.m] = "open"]
        BY <3>1, <3>2, EnqueueStatus, ZenonT(60)
      <3>5. runningBar' = runningBar
        BY <3>2, SameRuns, ZenonT(60)
      <3>6. Queue!Reopen(r.m)
        BY <2>o, <3>2, <3>3, <3>4, <3>5, ZenonT(60) DEF Queue!Reopen, Queue!Become
      <3> QED BY <3>1, <3>6, ZenonT(60) DEF Queue!Next, Queue!TaskStep
    <2>4. ASSUME NEW c \in Consumers,
                 FetchFirst(c) \/ Listen(c) \/ PurgeLocks(c) \/ Poll(c) \/ FetchPending(c) \/ Pop(c)
          PROVE  [Queue!Next]_(Queue!vars)
      <3>1. UNCHANGED <<row, delivery, failures, succeeded>>
        BY <2>4, ZenonT(60)
        DEF FetchFirst, Listen, PurgeLocks, Poll, FetchPending, Pop, table, history
      <3> QED BY <2>q, <3>1, SameRuns, ZenonT(60)
    <2>5. ASSUME NEW c \in Consumers, ConsumeOne(c) PROVE [Queue!Next]_(Queue!vars)
      <3>1. PICK s \in snapshot[c] :
               \/ Claim(c, s) /\ row[s.m].state \in Open
               \/ UNCHANGED <<lock, row, in_processing, delivery, misrouted>>
        BY <2>5, ZenonT(60) DEF ConsumeOne
      <3>2. UNCHANGED <<failures, succeeded>>
        BY <2>5, ZenonT(60) DEF ConsumeOne
      <3>3. CASE Claim(c, s) /\ row[s.m].state \in Open
        <4>1. s.m \in Msgs
          BY CopyTypes, ZenonT(60)
        <4>2. /\ row'[s.m].state = "consumed"
              /\ \A o \in Msgs : o # s.m => row'[o] = row[o]
          BY <3>3, <4>1, SMTT(60) DEF Claim, TypeOK, Row
        <4>3. \A m \in Msgs : StatusOf(row'[m]) = StatusOf(row[m])
          BY <3>3, <4>2, SMTT(60) DEF StatusOf, Open
        <4>4. runningBar' = runningBar
          BY <3>3, SameRuns, SMTT(60) DEF Claim
        <4> QED BY <1>2, <2>0, <3>2, <4>3, <4>4, QueueStutters, ZenonT(60)
      <3>4. CASE UNCHANGED <<lock, row, in_processing, delivery, misrouted>>
        BY <2>q, <3>2, <3>4, SameRuns, ZenonT(60)
      <3> QED BY <3>1, <3>3, <3>4, ZenonT(60)
    <2>6. ASSUME NEW c \in Consumers, Reconnect(c) PROVE FALSE
      BY <2>0, <2>6, ZenonT(40) DEF Bookkeeping, NoneLost, Reconnect
    <2>7. ASSUME NEW c \in Consumers, AutoPurge(c) PROVE [Queue!Next]_(Queue!vars)
      <3>1. PICK ms \in SUBSET {m \in Msgs : row[m].state \in Finished} :
               row' = [m \in Msgs |-> IF m \in ms THEN [row[m] EXCEPT !.state = "deleted"]
                                      ELSE row[m]]
        BY <2>7, ZenonT(60) DEF AutoPurge
      <3>2. UNCHANGED <<delivery, failures, succeeded>>
        BY <2>7, ZenonT(60) DEF AutoPurge, history
      <3>3. ms \in SUBSET Msgs /\ \A m \in ms : statusBar[m] \in {"done", "rejected"}
        BY <3>1, StatusFollows, SMTT(60) DEF StatusOf, Open, Finished
      <3>4. \A m \in Msgs : StatusOf(row'[m]) = IF m \in ms THEN "deleted" ELSE StatusOf(row[m])
        BY <3>1, SMTT(60) DEF StatusOf, Open, TypeOK, Row
      <3>5. statusBar' = [m \in Msgs |-> IF m \in ms THEN "deleted" ELSE statusBar[m]]
        BY <3>4, StatusFollows, SMTT(60)
      <3>6. Queue!Purge(ms)
        BY <2>o, <3>2, <3>3, <3>5, SameRuns, ZenonT(60) DEF Queue!Purge, Queue!Ended
      <3> QED BY <3>3, <3>6, ZenonT(60) DEF Queue!Next
    <2>8. ASSUME NEW c \in Consumers, LoseSession(c) PROVE FALSE
      BY <1>2, <2>8, SMTT(60) DEF LoseSession, TypeOK, Orderly
    <2>9. ASSUME NEW d \in delivery, WorkerStep(d) PROVE [Queue!Next]_(Queue!vars)
      BY <1>2, <2>0, <2>9, WorkerRefines, ZenonT(60)
    <2>10. ASSUME NEW p \in Procs, Crash(p) PROVE [Queue!Next]_(Queue!vars)
      <3>1. UNCHANGED <<row, failures, succeeded>> /\ delivery' \subseteq delivery
        BY <2>10, ZenonT(60) DEF Crash, history
      <3>2. runningBar' \in SUBSET runningBar
        BY <3>1, SMTT(60) DEF runningBar
      <3>3. Queue!Interrupt
        BY <2>o, <3>1, <3>2, ZenonT(60) DEF Queue!Interrupt, statusBar
      <3> QED BY <3>3, ZenonT(60) DEF Queue!Next
    <2>11. ASSUME NEW p \in Procs, StopConsumers(p) PROVE [Queue!Next]_(Queue!vars)
      <3>1. UNCHANGED <<row, delivery, failures, succeeded>>
        BY <2>11, ZenonT(60) DEF StopConsumers, history
      <3> QED BY <2>q, <3>1, SameRuns, Zenon
    <2>12. ASSUME NEW p \in Procs, Requeue(p) PROVE [Queue!Next]_(Queue!vars)
      <3> DEFINE left == {d.msg.m : d \in {e \in delivery : e.c[1] = p}}
                 ms == {m \in left : row[m].state \in TaskState}
      <3>1. /\ row' = [m \in Msgs |-> IF m \in ms THEN [row[m] EXCEPT !.state = "queued"]
                                      ELSE row[m]]
            /\ delivery' = {d \in delivery : d.c[1] # p} /\ UNCHANGED <<failures, succeeded>>
            /\ pc[<<p, "main">>] = "stopped"
        BY <2>12, ZenonT(60) DEF Requeue, history
      <3>2. \A d \in delivery : d.c[1] = p => d.phase = "waiting"
        <4>1. <<p, "main">> \in Consumers
          BY SMTT(60) DEF Consumers, Queues
        <4>2. \A c \in Consumers : c[1] = p => pc[c] = "stopped"
          BY <2>0, <3>1, <4>1, SMTT(60) DEF Bookkeeping, Halted
        <4> QED BY <2>0, <4>2, DeliveryTypes, ZenonT(60) DEF Bookkeeping, Halted
      <3>3. runningBar' = runningBar
        BY <3>1, <3>2, SameRuns, SMTT(60)
      <3>4. ms \in SUBSET Msgs
        BY DeliveryTypes, SMTT(60)
      <3>5. \A m \in ms : row[m].state \in TaskState
        BY SMTT(60)
      <3> HIDE DEF ms
      <3>6. \A m \in ms : statusBar[m] \in {"done", "rejected", "open"}
        BY <3>4, <3>5, StatusFollows, SMTT(60) DEF StatusOf, Open, TaskState
      <3>7. \A m \in Msgs : StatusOf(row'[m]) = IF m \in ms THEN "open" ELSE StatusOf(row[m])
        BY <3>1, SMTT(60) DEF StatusOf, Open, TypeOK, Row
      <3>8. statusBar' = [m \in Msgs |-> IF m \in ms THEN "open" ELSE statusBar[m]]
        BY <3>7, StatusFollows, SMTT(60)
      <3>9. \A m \in ms : statusBar[m] \in Queue!Ended \cup {"open"}
        BY <3>6, ZenonT(60) DEF Queue!Ended
      <3>10. Queue!Requeue(ms)
        BY <2>o, <3>1, <3>3, <3>8, <3>9, ZenonT(60) DEF Queue!Requeue
      <3> QED BY <3>4, <3>10, ZenonT(60) DEF Queue!Next
    <2>13. CASE UNCHANGED vars
      <3>1. UNCHANGED <<row, delivery, failures, succeeded>>
        BY <2>13, ZenonT(60) DEF vars, table, history
      <3> QED BY <2>q, <3>1, SameRuns, ZenonT(60)
    <2> QED
      BY <2>1, <2>2, <2>3, <2>4, <2>5, <2>6, <2>7, <2>8, <2>9, <2>10, <2>11, <2>12, <2>13,
         ZenonT(60) DEF Next, ConsumerStep
  <1> QED BY <1>1, <1>2, SMTT(60)

\* The initial states of the broker are initial states of the queue.
LEMMA InitRefines == Init => OpenInv /\ Queue!Init
  <1> SUFFICES ASSUME Init PROVE OpenInv /\ Queue!Init
    BY SMTT(60)
  <1>1. Busy /\ Forwarded
    BY ZenonT(60) DEF Init, Busy, Forwarded
  <1>2. \A m \in Msgs : row[m].state = "unsent" /\ row[m].queue = "main"
    <2>1. \A m \in Msgs : row[m] = [state |-> "unsent", queue |-> "main", retries |-> 0,
                                  tenant |-> DefaultTenant]
      BY ZenonT(60) DEF Init
    <2> QED BY ONLY <2>1, SMTT(60)
  <1>3. Placed
    BY <1>2, ZenonT(60) DEF Init, Placed, Finished
  <1>4. statusBar = [m \in Msgs |-> "unsent"]
    BY <1>2, SMTT(60) DEF statusBar, StatusOf, Open
  <1>5. runningBar = {}
    BY SMTT(60) DEF Init, runningBar
  <1>6. Orderly = TRUE
    BY ZenonT(60) DEF Init, Orderly
  <1> QED BY <1>1, <1>3, <1>4, <1>5, <1>6, ZenonT(60) DEF OpenInv, Init, Queue!Init

\* The broker implements the queue: in every behaviour, with any number of workers,
\* messages, retries, crashes, shutdowns and restarts through the API, what senders see
\* is a queue that runs an open task in one thread at a time and records only what
\* its runs justify, until a session is lost or a message claimed on the wrong queue.
THEOREM Implementation == Spec => ImplementsQueue
  <1>1. Init => TypeOK /\ IInv /\ OpenInv /\ RetriesCounted /\ Queue!Init
    BY TypeInit, InvInit, RetriesInit, InitRefines, SMTT(60)
  <1>2. TypeOK /\ IInv /\ OpenInv /\ RetriesCounted /\ [Next]_vars
          => (TypeOK /\ IInv /\ OpenInv /\ RetriesCounted)' /\ [Queue!Next]_(Queue!vars)
    BY TypeStep, InvStep, OpenStep, RetriesStep, StepRefines, SMTT(60)
  <1> QED BY <1>1, <1>2, PTL DEF Spec, ImplementsQueue, Queue!Spec
=============================================================================
