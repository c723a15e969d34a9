------------------------- MODULE SharedSignalsProofs ------------------------
(***************************************************************************)
(* Proofs about shared signals (SharedSignals), for any streams, workers and *)
(* number of signals.                                                       *)
(***************************************************************************)
EXTENDS SharedSignals, Integers, TLAPS

Task == [events : SUBSET SetEvents, tries : Nat, send : BOOLEAN]
Job == [at : {"idle", "dispatch", "create", "push", "answered", "failed"}, task : Task]
Row == {"none", "pending_new", "pending_failed", "sent", "cleaned"}
Signal == [type : {"verification", "user"}, to : SUBSET Streams]

\* A task that sends has one event.
Single(t) == t.send => \E e \in SetEvents : t.events = {e}
\* A queue is a bag of well-formed tasks.
Queued(q) == IsABag(q) /\ DOMAIN q \subseteq Task /\ \A t \in DOMAIN q : Single(t)
Sends(w) == work[w].at \in {"create", "push", "answered", "failed"}

SignalTyped ==
    /\ stream \in [Streams -> {"none", "there", "gone"}] /\ requests \subseteq Streams
    /\ signals \in Seq(Signal) /\ Len(signals) <= MaxSignals
    /\ deaths \in Seq(SUBSET SetEvents)
    /\ Queued(queue)
    /\ work \in [SignalWorkers -> Job]
    /\ \A w \in SignalWorkers : Single(work[w].task) /\ (Sends(w) => work[w].task.send)
    /\ stored \in [SetEvents -> Row] /\ pushed \in [SetEvents -> Nat]

\* The worker has the event at hand, between its row and the outcome.
Has(w, at, e) == work[w].at = at /\ e \in work[w].task.events
Pushing(w, e) == Has(w, "push", e)
Answered(e) == \E w \in SignalWorkers : Has(w, "answered", e)
Sending(e) == \E w \in SignalWorkers : \E at \in {"push", "answered", "failed"} : Has(w, at, e)
\* The event is in a task that will still store it.
InQueue(q, e) == \E t \in DOMAIN q : e \in t.events
Coming(e) == \/ InQueue(queue, e)
             \/ \E w \in SignalWorkers : Has(w, "dispatch", e) \/ Has(w, "create", e)
Died(e) == \E i \in DOMAIN deaths : e \in deaths[i]
Meant(e) == e[1] \in DOMAIN signals /\ e[2] \in signals[e[1]].to

\* The push of an event: one worker at most is about to make the first.
Once(e) ==
    /\ pushed[e] <= 1
    /\ \A w \in SignalWorkers : Pushing(w, e) =>
         /\ pushed[e] = 0
         /\ \A v \in SignalWorkers : Pushing(v, e) => v = w
    /\ pushed[e] # 0 \/ (\E w \in SignalWorkers : Pushing(w, e)) =>
         stored[e] # "none" \/ stream[StreamOf(e)] = "gone"

\* Where an event of a stream that is there has got to.
Traced(e) ==
    /\ stored[e] \in {"sent", "cleaned"} \/ Answered(e) => pushed[e] # 0
    /\ stored[e] # "none" \/ Meant(e) => stream[StreamOf(e)] # "none"
    /\ stored[e] = "pending_new" /\ StreamThere(StreamOf(e)) => Died(e) \/ Sending(e)
    /\ Meant(e) /\ StreamThere(StreamOf(e)) /\ e \notin refused => stored[e] # "none" \/ Coming(e)

SignalInv ==
    /\ SignalTyped
    /\ \A e \in SetEvents \ recreated : Once(e)
    /\ \A e \in SetEvents : Traced(e)

\* Sending tasks to the broker adds them to the queue.
LEMMA BagAdd ==
    ASSUME NEW q, IsABag(q), NEW S
    PROVE  IsABag(q (+) SetToBag(S)) /\ DOMAIN (q (+) SetToBag(S)) = DOMAIN q \cup S
<1> DEFINE r == q (+) SetToBag(S)
<1>1. SetToBag(S) = [x \in S |-> 1]
  BY DEF SetToBag
<1>2. r = [x \in DOMAIN q \cup S |->
             (IF x \in DOMAIN q THEN q[x] ELSE 0) + (IF x \in S THEN 1 ELSE 0)]
  BY <1>1 DEF (+)
<1>3. \A x \in DOMAIN q : q[x] \in Nat /\ q[x] > 0
  BY DEF IsABag
<1> HIDE DEF r
<1>4. \A x \in DOMAIN q \cup S : r[x] \in {n \in Nat : n > 0}
  BY <1>2, <1>3, SMTT(60)
<1>5. DOMAIN r = DOMAIN q \cup S
  BY <1>2
<1>6. r \in [DOMAIN r -> {n \in Nat : n > 0}]
  BY <1>2, <1>4, <1>5, SMTT(60)
<1>7. IsABag(r)
  BY <1>6 DEF IsABag
<1> QED
  BY <1>5, <1>7, SMTT(60) DEF r

\* A task that a worker takes may be left in the queue once less; the others stay.
LEMMA BagTake ==
    ASSUME NEW q, IsABag(q), NEW t
    PROVE  /\ IsABag(q (-) SetToBag({t}))
           /\ DOMAIN (q (-) SetToBag({t})) \subseteq DOMAIN q
           /\ DOMAIN q \ {t} \subseteq DOMAIN (q (-) SetToBag({t}))
<1> DEFINE one == [x \in {t} |-> 1]
           b == [x \in DOMAIN q |-> IF x \in DOMAIN one THEN q[x] - one[x] ELSE q[x]]
           r == [x \in {d \in DOMAIN b : b[d] > 0} |-> b[x]]
<1>1. r = q (-) SetToBag({t})
  BY DEF SetToBag, (-)
<1>2. \A x \in DOMAIN q : q[x] \in Nat /\ q[x] > 0
  BY DEF IsABag
<1>3. \A x \in DOMAIN q : b[x] \in Int /\ (x # t => b[x] = q[x])
  BY <1>2
<1>4. DOMAIN b = DOMAIN q
  OBVIOUS
<1> HIDE DEF b
<1>5. DOMAIN r = {d \in DOMAIN q : b[d] > 0} /\ \A x \in DOMAIN r : r[x] = b[x]
  BY <1>4
<1>6. r \in [DOMAIN r -> {n \in Nat : n > 0}]
  <2>1. \A x \in {d \in DOMAIN b : b[d] > 0} : b[x] \in {n \in Nat : n > 0}
    BY <1>3, <1>4, SMTT(60)
  <2> QED
    BY <2>1
<1> HIDE DEF r
<1>7. DOMAIN r \subseteq DOMAIN q /\ DOMAIN q \ {t} \subseteq DOMAIN r
  BY <1>2, <1>3, <1>5, SMTT(60)
<1> QED
  BY <1>1, <1>6, <1>7, SMTT(60) DEF IsABag

\* Sending well-formed tasks keeps the queue well-formed.
LEMMA QueueAdd ==
    ASSUME NEW q, Queued(q), NEW S \in SUBSET Task, \A t \in S : Single(t)
    PROVE  Queued(q (+) SetToBag(S))
<1>1. IsABag(q) /\ DOMAIN q \subseteq Task /\ \A t \in DOMAIN q : Single(t)
  BY DEF Queued
<1> DEFINE r == q (+) SetToBag(S)
<1>2. IsABag(r) /\ DOMAIN r = DOMAIN q \cup S
  BY <1>1, BagAdd, SMTT(60)
<1> HIDE DEF r
<1>3. Queued(r)
  BY <1>1, <1>2, SMTT(60) DEF Queued
<1> QED
  BY <1>3 DEF r

\* So does taking one.
LEMMA QueueTake ==
    ASSUME NEW q, Queued(q), NEW t
    PROVE  Queued(q (-) SetToBag({t}))
<1>1. IsABag(q) /\ DOMAIN q \subseteq Task /\ \A x \in DOMAIN q : Single(x)
  BY DEF Queued
<1> DEFINE r == q (-) SetToBag({t})
<1>2. IsABag(r) /\ DOMAIN r \subseteq DOMAIN q
  BY <1>1, BagTake, ZenonT(60)
<1> HIDE DEF r
<1>3. Queued(r)
  BY <1>1, <1>2 DEF Queued
<1> QED
  BY <1>3 DEF r

\* The worker that sends has exactly the event at hand in its task.
LEMMA Hand ==
    ASSUME SignalTyped, NEW w \in SignalWorkers, Sends(w)
    PROVE  AtHand(w) \in SetEvents /\ work[w].task.events = {AtHand(w)}
<1>1. PICK e \in SetEvents : work[w].task.events = {e}
  BY ZenonT(60) DEF SignalTyped, Single
<1>2. AtHand(w) \in work[w].task.events
  BY <1>1 DEF AtHand
<1> QED
  BY <1>1, <1>2

\* What a step of one worker leaves of the jobs of the others.
LEMMA OneJob ==
    ASSUME work \in [SignalWorkers -> Job], NEW w \in SignalWorkers, NEW v \in Job,
           work' = [work EXCEPT ![w] = v]
    PROVE  /\ work' \in [SignalWorkers -> Job] /\ work'[w] = v
           /\ \A x \in SignalWorkers : x # w => work'[x] = work[x]
OBVIOUS

\* A step that neither pushes the event nor brings a worker to its push keeps the promise.
LEMMA OnceKept ==
    ASSUME NEW e \in SetEvents, Once(e), pushed'[e] = pushed[e],
           \A x \in SignalWorkers : Pushing(x, e)' => Pushing(x, e),
           stored[e] # "none" => stored'[e] # "none" \/ stream'[StreamOf(e)] = "gone",
           stream[StreamOf(e)] = "gone" => stream'[StreamOf(e)] = "gone"
    PROVE  Once(e)'
BY Zenon DEF Once

\* A step that neither stores nor pushes the event keeps its trace when it leaves the event
\* with a worker, or in the queue, as long as it was.
LEMMA TracedKept ==
    ASSUME NEW e \in SetEvents, Traced(e), stored'[e] = stored[e],
           pushed[e] # 0 => pushed'[e] # 0, Answered(e)' => Answered(e),
           Meant(e)' => Meant(e), StreamThere(StreamOf(e))' => StreamThere(StreamOf(e)),
           stream[StreamOf(e)] # "none" => stream'[StreamOf(e)] # "none",
           e \in refused => e \in refused', Died(e) => Died(e)',
           Sending(e) /\ StreamThere(StreamOf(e))' => Sending(e)' \/ Died(e)',
           Coming(e) /\ StreamThere(StreamOf(e))' /\ stored[e] = "none" =>
               Coming(e)' \/ e \in refused'
    PROVE  Traced(e)'
BY ZenonT(60) DEF Traced

\* The step of a worker: it does job v next.
Turns(w, v) == work' = [work EXCEPT ![w] = v] /\ UNCHANGED <<stream, requests, signals>>
Fits(v) == Single(v.task) /\ (v.at \in {"create", "push", "answered", "failed"} => v.task.send)

\* The types, for the step of a worker.
LEMMA TurnTyped ==
    ASSUME SignalTyped, NEW w \in SignalWorkers, NEW v \in Job, Turns(w, v), Fits(v),
           Queued(queue'), deaths' \in Seq(SUBSET SetEvents),
           stored' \in [SetEvents -> Row], pushed' \in [SetEvents -> Nat]
    PROVE  SignalTyped'
<1>1. work \in [SignalWorkers -> Job] /\ work' = [work EXCEPT ![w] = v]
  BY DEF SignalTyped, Turns
<1>2. /\ work' \in [SignalWorkers -> Job] /\ work'[w] = v
      /\ \A x \in SignalWorkers : x # w => work'[x] = work[x]
  BY <1>1, OneJob, SMTT(60)
<1>3. /\ stream' \in [Streams -> {"none", "there", "gone"}] /\ requests' \subseteq Streams
      /\ signals' \in Seq(Signal) /\ Len(signals') <= MaxSignals
  BY DEF SignalTyped, Turns
<1>4. \A x \in SignalWorkers : Single(work'[x].task) /\ (Sends(x)' => work'[x].task.send)
  <2> TAKE x \in SignalWorkers
  <2>1. CASE x = w
    BY <2>1, <1>2, SMTT(60) DEF Fits, Sends
  <2>2. CASE x # w
    BY <2>2, <1>2, SMTT(60) DEF SignalTyped, Sends
  <2> QED
    BY <2>1, <2>2, ZenonT(60)
<1> QED
  BY <1>2, <1>3, <1>4, ZenonT(60) DEF SignalTyped

\* The push of an event that the worker does not come to push.
LEMMA TurnOnce ==
    ASSUME SignalTyped, NEW w \in SignalWorkers, NEW v \in Job, Turns(w, v),
           NEW e \in SetEvents, Once(e), pushed'[e] = pushed[e],
           v.at = "push" => ~ e \in v.task.events,
           stored[e] # "none" => stored'[e] # "none"
    PROVE  Once(e)'
<1>1. work \in [SignalWorkers -> Job] /\ work' = [work EXCEPT ![w] = v] /\ stream' = stream
  BY DEF SignalTyped, Turns
<1>2. work'[w] = v /\ \A x \in SignalWorkers : x # w => work'[x] = work[x]
  BY <1>1, OneJob, SMTT(60)
<1>3. \A x \in SignalWorkers : Pushing(x, e)' => Pushing(x, e)
  BY <1>2, ZenonT(60) DEF Pushing, Has
<1> QED
  BY <1>1, <1>3, OnceKept, ZenonT(60)

\* The trace of an event that the worker neither stores nor pushes.
LEMMA TurnTraced ==
    ASSUME SignalTyped, NEW w \in SignalWorkers, NEW v \in Job, Turns(w, v),
           NEW e \in SetEvents, Traced(e), stored'[e] = stored[e], pushed'[e] = pushed[e],
           v.at = "answered" => ~ e \in v.task.events,
           e \in refused => e \in refused', Died(e) => Died(e)',
           (\E at \in {"push", "answered", "failed"} : Has(w, at, e)) /\ StreamThere(StreamOf(e))
               => Died(e)' \/ (v.at \in {"push", "answered", "failed"} /\ e \in v.task.events),
           (InQueue(queue, e) \/ Has(w, "dispatch", e) \/ Has(w, "create", e))
             /\ StreamThere(StreamOf(e)) /\ stored[e] = "none"
               => \/ InQueue(queue', e) \/ e \in refused'
                  \/ v.at \in {"dispatch", "create"} /\ e \in v.task.events
    PROVE  Traced(e)'
<1>1. /\ work \in [SignalWorkers -> Job] /\ work' = [work EXCEPT ![w] = v]
      /\ stream' = stream /\ signals' = signals
  BY SMTT(60) DEF SignalTyped, Turns
<1>2. work'[w] = v /\ \A x \in SignalWorkers : x # w => work'[x] = work[x]
  BY <1>1, OneJob, SMTT(60)
<1>3. Answered(e)' => Answered(e)
  BY <1>2, ZenonT(60) DEF Answered, Has
<1>4. Meant(e)' => Meant(e)
  BY <1>1, ZenonT(60) DEF Meant
<1>5. StreamThere(StreamOf(e))' <=> StreamThere(StreamOf(e))
  BY <1>1, ZenonT(60) DEF StreamThere
<1>6. Sending(e) /\ StreamThere(StreamOf(e)) => Sending(e)' \/ Died(e)'
  <2> SUFFICES ASSUME Sending(e), StreamThere(StreamOf(e)), ~ Died(e)' PROVE Sending(e)'
    BY SMTT(60)
  <2>1. PICK x \in SignalWorkers : \E at \in {"push", "answered", "failed"} : Has(x, at, e)
    BY DEF Sending
  <2>2. CASE x = w
    <3>1. v.at \in {"push", "answered", "failed"} /\ e \in v.task.events
      BY <2>1, <2>2, ZenonT(60)
    <3> QED
      BY <3>1, <1>2, ZenonT(60) DEF Sending, Has
  <2>3. CASE x # w
    BY <2>1, <2>3, <1>2, ZenonT(60) DEF Sending, Has
  <2> QED
    BY <2>2, <2>3, ZenonT(60)
<1>7. Coming(e) /\ StreamThere(StreamOf(e)) /\ stored[e] = "none" => Coming(e)' \/ e \in refused'
  <2> SUFFICES ASSUME Coming(e), StreamThere(StreamOf(e)), stored[e] = "none", e \notin refused'
               PROVE  Coming(e)'
    BY SMTT(60)
  <2>1. CASE InQueue(queue, e) \/ Has(w, "dispatch", e) \/ Has(w, "create", e)
    <3>1. InQueue(queue', e) \/ (v.at \in {"dispatch", "create"} /\ e \in v.task.events)
      BY <2>1, SMTT(60)
    <3>2. CASE InQueue(queue', e)
      BY <3>2, ZenonT(60) DEF Coming, InQueue
    <3>3. CASE v.at \in {"dispatch", "create"} /\ e \in v.task.events
      BY <3>3, <1>2, ZenonT(60) DEF Coming, Has
    <3> QED
      BY <3>1, <3>2, <3>3, ZenonT(60)
  <2>2. ASSUME NEW x \in SignalWorkers, x # w, Has(x, "dispatch", e) \/ Has(x, "create", e)
        PROVE  Coming(e)'
    BY <2>2, <1>2, ZenonT(60) DEF Coming, Has
  <2> QED
    BY <2>1, <2>2, ZenonT(60) DEF Coming
<1> QED
  BY <1>1, <1>3, <1>4, <1>5, <1>6, <1>7, TracedKept, ZenonT(60)

\* A worker that ended its task has nothing at hand.
LEMMA NoJob == NoWork \in Job /\ Fits(NoWork) /\ NoWork.at = "idle" /\ NoWork.task.events = {}
<1>1. DispatchTask({}) \in Task /\ DispatchTask({}).send = FALSE /\ DispatchTask({}).events = {}
  BY DEF DispatchTask, Task
<1>2. NoWork.at = "idle" /\ NoWork.task = DispatchTask({})
  BY DEF NoWork
<1>3. NoWork \in Job
  BY <1>1, SMTT(60) DEF NoWork, Job
<1> QED
  BY <1>1, <1>2, <1>3, ZenonT(60) DEF Fits, Single

\* The job of a worker that continues with its task.
LEMMA NextJob ==
    ASSUME SignalTyped, NEW w \in SignalWorkers, Sends(w),
           NEW at \in {"create", "push", "answered", "failed"}, Continue(w, at),
           UNCHANGED <<stream, requests, signals>>
    PROVE  \E v \in Job : Turns(w, v) /\ Fits(v) /\ v.at = at /\ v.task = work[w].task
<1> DEFINE v == [work[w] EXCEPT !.at = at]
<1>1. work \in [SignalWorkers -> Job] /\ Single(work[w].task) /\ work[w].task.send
  BY DEF SignalTyped
<1>2. work[w] \in Job
  BY <1>1, SMTT(60)
<1>3. v \in Job /\ v.at = at /\ v.task = work[w].task
  BY <1>2, SMTT(60) DEF Job
<1>4. work' = [work EXCEPT ![w] = v]
  BY DEF Continue
<1> HIDE DEF v
<1>5. Turns(w, v)
  BY <1>4, SMTT(60) DEF Turns
<1>6. Fits(v)
  BY <1>1, <1>3, ZenonT(60) DEF Fits
<1> QED
  BY <1>3, <1>5, <1>6, ZenonT(60)

\* A task that raises goes back to the queue or is given up, which loses nothing where the
\* stream is gone or the event is stored.
LEMMA RaisedStep ==
    ASSUME SignalInv, NEW w \in SignalWorkers, Sends(w), Raised(w),
           UNCHANGED <<stream, requests, refused, signals, stored, pushed, recreated, deaths>>,
           StreamThere(StreamOf(AtHand(w))) =>
               work[w].at = "create" /\ stored[AtHand(w)] # "none"
    PROVE  SignalInv'
<1>1. SignalTyped /\ Queued(queue) /\ work[w] \in Job /\ Single(work[w].task)
  BY SMTT(60) DEF SignalInv, SignalTyped
<1>2. AtHand(w) \in SetEvents /\ work[w].task.events = {AtHand(w)}
  BY <1>1, Hand, ZenonT(60)
<1>3. Turns(w, NoWork)
  BY SMTT(60) DEF Raised, Ended, Turns
<1> DEFINE t == work[w].task
           again == [t EXCEPT !.tries = @ + 1]
<1>4. t \in Task
  BY <1>1, SMTT(60) DEF Job
<1>5. again \in Task /\ again.send = t.send /\ again.events = t.events
  BY <1>4, SMTT(60) DEF Task
<1>6. Single(again)
  BY <1>1, <1>5, ZenonT(60) DEF Single
<1>7. queue' = queue \/ queue' = queue (+) SetToBag({again})
  BY SMTT(60) DEF Raised
<1> HIDE DEF again, t
<1>8. Queued(queue') /\ DOMAIN queue \subseteq DOMAIN queue'
  <2>1. CASE queue' = queue
    BY <1>1, <2>1, SMTT(60)
  <2>2. CASE queue' = queue (+) SetToBag({again})
    <3>1. Queued(queue (+) SetToBag({again}))
      BY <1>1, <1>5, <1>6, QueueAdd, ZenonT(60)
    <3>2. DOMAIN queue \subseteq DOMAIN (queue (+) SetToBag({again}))
      BY <1>1, BagAdd, ZenonT(60) DEF Queued
    <3> QED
      BY <2>2, <3>1, <3>2, ZenonT(60)
  <2> QED
    BY <1>7, <2>1, <2>2, ZenonT(60)
<1>9. SignalTyped'
  <2>1. /\ deaths' \in Seq(SUBSET SetEvents) /\ stored' \in [SetEvents -> Row]
        /\ pushed' \in [SetEvents -> Nat]
    BY <1>1, SMTT(60) DEF SignalTyped
  <2> QED
    BY <1>1, <1>3, <1>8, <2>1, NoJob, TurnTyped, ZenonT(60)
<1>10. ASSUME NEW e \in SetEvents \ recreated PROVE Once(e)'
  <2>1. e \in SetEvents /\ Once(e)
    BY SMTT(60) DEF SignalInv
  <2> QED
    BY <1>1, <1>3, <2>1, NoJob, TurnOnce, ZenonT(60)
<1>11. ASSUME NEW e \in SetEvents PROVE Traced(e)'
  <2>1. Traced(e)
    BY SMTT(60) DEF SignalInv
  <2>2. Died(e) => Died(e)'
    BY SMTT(60) DEF Died
  <2>3. InQueue(queue, e) => InQueue(queue', e)
    BY <1>8, ZenonT(60) DEF InQueue
  <2>4. \A at : Has(w, at, e) => e = AtHand(w) /\ work[w].at = at
    BY <1>2, ZenonT(60) DEF Has
  <2>5. ~ ((\E at \in {"push", "answered", "failed"} : Has(w, at, e)) /\ StreamThere(StreamOf(e)))
    BY <2>4, ZenonT(60)
  <2>6. Has(w, "dispatch", e) \/ Has(w, "create", e) =>
          ~ StreamThere(StreamOf(e)) \/ stored[e] # "none"
    BY <2>4, SMTT(60) DEF Sends
  <2> QED
    BY <1>1, <1>3, <2>1, <2>2, <2>3, <2>5, <2>6, NoJob, TurnTraced, ZenonT(60)
<1> QED
  BY <1>9, <1>10, <1>11, ZenonT(60) DEF SignalInv

\* ssf_events_dispatch begins: the task moves from the queue to the worker.
LEMMA DispatchStep ==
    ASSUME SignalInv, NEW w \in SignalWorkers, DispatchEvents(w)
    PROVE  SignalInv'
<1>1. PICK t \in Waiting(w, FALSE) :
        queue' = queue (-) SetToBag({t}) /\ work' = [work EXCEPT ![w] = [at |-> "dispatch", task |-> t]]
  BY ZenonT(60) DEF DispatchEvents
<1>2. SignalTyped /\ Queued(queue)
  BY DEF SignalInv, SignalTyped
<1>3. t \in DOMAIN queue /\ t \in Task /\ Single(t) /\ work[w].at = "idle"
  BY <1>1, <1>2, ZenonT(60) DEF Waiting, Queued, BagToSet
<1> DEFINE v == [at |-> "dispatch", task |-> t]
<1>4. v \in Job /\ v.at = "dispatch" /\ v.task = t
  BY <1>3 DEF Job
<1>5. Fits(v)
  BY <1>3, <1>4 DEF Fits
<1>6. Turns(w, v)
  BY <1>1, ZenonT(60) DEF DispatchEvents, Turns
<1> HIDE DEF v
<1>7. Queued(queue')
  BY <1>1, <1>2, QueueTake, ZenonT(60)
<1>8. DOMAIN queue \ {t} \subseteq DOMAIN queue'
  BY <1>1, <1>2, BagTake, Zenon DEF Queued
<1>9. UNCHANGED <<refused, stored, pushed, recreated, deaths>>
  BY DEF DispatchEvents
<1>10. SignalTyped'
  <2>1. /\ deaths' \in Seq(SUBSET SetEvents) /\ stored' \in [SetEvents -> Row]
        /\ pushed' \in [SetEvents -> Nat]
    BY <1>2, <1>9, ZenonT(60) DEF SignalTyped
  <2> QED
    BY <1>2, <1>4, <1>5, <1>6, <1>7, <2>1, TurnTyped, ZenonT(60)
<1>11. ASSUME NEW e \in SetEvents \ recreated PROVE Once(e)'
  <2>1. e \in SetEvents /\ Once(e)
    BY SMTT(60) DEF SignalInv
  <2> QED
    BY <1>2, <1>4, <1>6, <1>9, <2>1, TurnOnce, ZenonT(60)
<1>12. ASSUME NEW e \in SetEvents PROVE Traced(e)'
  <2>1. Traced(e)
    BY SMTT(60) DEF SignalInv
  <2>2. Died(e) => Died(e)'
    BY <1>9, SMTT(60) DEF Died
  <2>3. InQueue(queue, e) => InQueue(queue', e) \/ e \in t.events
    BY <1>8, ZenonT(60) DEF InQueue
  <2>4. \A at \in {"dispatch", "create", "push", "answered", "failed"} : ~ Has(w, at, e)
    BY <1>3, SMTT(60) DEF Has
  <2> QED
    BY <1>2, <1>4, <1>6, <1>9, <2>1, <2>2, <2>3, <2>4, TurnTraced, ZenonT(60)
<1> QED
  BY <1>9, <1>10, <1>11, <1>12, ZenonT(60) DEF SignalInv

\* The tasks that a dispatch sends are well-formed, one for every event whose stream is there.
LEMMA SendsFit ==
    ASSUME SignalTyped, NEW w \in SignalWorkers
    PROVE  /\ DispatchSends(w) \in SUBSET Task /\ \A t \in DispatchSends(w) : Single(t)
           /\ \A e \in work[w].task.events : StreamThere(StreamOf(e)) =>
                \E t \in DispatchSends(w) : e \in t.events
<1>1. work[w].task.events \subseteq SetEvents
  BY SMTT(60) DEF SignalTyped, Job, Task
<1>2. \A e \in SetEvents : /\ SendTask(e) \in Task /\ SendTask(e).send = TRUE
                           /\ SendTask(e).events = {e}
  BY DEF SendTask, Task
<1>3. \A e \in SetEvents : Single(SendTask(e))
  BY <1>2, ZenonT(60) DEF Single
<1>4. \A t \in DispatchSends(w) : \E e \in SetEvents : t = SendTask(e)
  BY <1>1, ZenonT(60) DEF DispatchSends
<1>5. \A e \in work[w].task.events : StreamThere(StreamOf(e)) => SendTask(e) \in DispatchSends(w)
  BY ZenonT(60) DEF DispatchSends
<1> QED
  BY <1>1, <1>2, <1>3, <1>4, <1>5, ZenonT(60)

\* ssf_events_dispatch ends: each event whose stream is there has a task of its own.
LEMMA DispatchDoneStep ==
    ASSUME SignalInv, NEW w \in SignalWorkers, DispatchDone(w)
    PROVE  SignalInv'
<1>1. SignalTyped /\ Queued(queue)
  BY SMTT(60) DEF SignalInv, SignalTyped
<1>2. Turns(w, NoWork)
  BY SMTT(60) DEF DispatchDone, Ended, Turns
<1>3. UNCHANGED <<refused, stored, pushed, recreated, deaths>> /\ work[w].at = "dispatch"
  BY SMTT(60) DEF DispatchDone
<1>4. Queued(queue')
  BY <1>1, SendsFit, QueueAdd, ZenonT(60) DEF DispatchDone
<1>5. DOMAIN queue' = DOMAIN queue \cup DispatchSends(w)
  BY <1>1, BagAdd, ZenonT(60) DEF DispatchDone, Queued
<1>6. SignalTyped'
  <2>1. /\ deaths' \in Seq(SUBSET SetEvents) /\ stored' \in [SetEvents -> Row]
        /\ pushed' \in [SetEvents -> Nat]
    BY <1>1, <1>3, ZenonT(60) DEF SignalTyped
  <2> QED
    BY <1>1, <1>2, <1>4, <2>1, NoJob, TurnTyped, ZenonT(60)
<1>7. ASSUME NEW e \in SetEvents \ recreated PROVE Once(e)'
  <2>1. e \in SetEvents /\ Once(e)
    BY ZenonT(60) DEF SignalInv
  <2> QED
    BY <1>1, <1>2, <1>3, <2>1, NoJob, TurnOnce, ZenonT(60)
<1>8. ASSUME NEW e \in SetEvents PROVE Traced(e)'
  <2>1. Traced(e)
    BY SMTT(60) DEF SignalInv
  <2>2. Died(e) => Died(e)'
    BY <1>3, SMTT(60) DEF Died
  <2>3. InQueue(queue, e) => InQueue(queue', e)
    BY <1>5, ZenonT(60) DEF InQueue
  <2>4. e \in work[w].task.events /\ StreamThere(StreamOf(e)) => InQueue(queue', e)
    BY <1>1, <1>5, SendsFit, ZenonT(60) DEF InQueue
  <2>5. Has(w, "dispatch", e) => e \in work[w].task.events
    BY SMTT(60) DEF Has
  <2>6. \A at \in {"create", "push", "answered", "failed"} : ~ Has(w, at, e)
    BY <1>3, SMTT(60) DEF Has
  <2> QED
    BY <1>1, <1>2, <1>3, <2>1, <2>2, <2>3, <2>4, <2>5, <2>6, NoJob, TurnTraced, ZenonT(60)
<1> QED
  BY <1>3, <1>6, <1>7, <1>8, ZenonT(60) DEF SignalInv

\* send_ssf_event begins: the event is with the worker, or its stream is gone, or it is refused.
LEMMA BeginStep ==
    ASSUME SignalInv, NEW w \in SignalWorkers, BeginSend(w)
    PROVE  SignalInv'
<1> DEFINE Ev(t) == CHOOSE x \in t.events : TRUE
           access(t) == allowed \/ signals[Ev(t)[1]].type = "verification"
<1>1. PICK t \in Waiting(w, TRUE) :
        /\ queue' = queue (-) SetToBag({t})
        /\ IF StreamThere(StreamOf(Ev(t))) /\ access(t)
             THEN work' = [work EXCEPT ![w] = [at |-> "create", task |-> t]]
             ELSE UNCHANGED work
        /\ refused' = IF access(t) THEN refused ELSE refused \cup {Ev(t)}
  BY ZenonT(60) DEF BeginSend
<1>2. SignalTyped /\ Queued(queue)
  BY ZenonT(60) DEF SignalInv, SignalTyped
<1>3. t \in DOMAIN queue /\ t \in Task /\ Single(t) /\ work[w].at = "idle" /\ t.send
  BY <1>1, <1>2, ZenonT(60) DEF Waiting, Queued, BagToSet
<1>4. PICK d \in SetEvents : t.events = {d}
  BY <1>3, ZenonT(60) DEF Single
<1>5. Ev(t) = d
  BY <1>4, ZenonT(60)
<1>6. UNCHANGED <<stream, requests, signals, stored, pushed, recreated, deaths>>
  BY SMTT(60) DEF BeginSend
<1> DEFINE r == access(t)
<1>7. /\ IF StreamThere(StreamOf(d)) /\ r
           THEN work' = [work EXCEPT ![w] = [at |-> "create", task |-> t]]
           ELSE work' = work
      /\ refused' = IF r THEN refused ELSE refused \cup {d}
  BY <1>1, <1>5, ZenonT(60)
<1> HIDE DEF r, access, Ev
<1>8. PICK v \in Job : /\ Turns(w, v) /\ Fits(v) /\ v.at \in {"idle", "create"}
                       /\ StreamThere(StreamOf(d)) /\ r => v.at = "create" /\ v.task = t
  <2>1. CASE StreamThere(StreamOf(d)) /\ r
    <3> DEFINE v == [at |-> "create", task |-> t]
    <3>1. v \in Job /\ v.at = "create" /\ v.task = t
      BY <1>3 DEF Job
    <3>2. Turns(w, v)
      BY <2>1, <1>6, <1>7, ZenonT(60) DEF Turns
    <3> HIDE DEF v
    <3>3. Fits(v)
      BY <1>3, <3>1, ZenonT(60) DEF Fits
    <3> QED
      BY <3>1, <3>2, <3>3, ZenonT(60)
  <2>2. CASE ~ (StreamThere(StreamOf(d)) /\ r)
    <3>1. work \in [SignalWorkers -> Job]
      BY <1>2, ZenonT(60) DEF SignalTyped
    <3>2. work[w] \in Job /\ work' = [work EXCEPT ![w] = work[w]]
      BY <2>2, <1>7, <3>1, ZenonT(60)
    <3>3. Turns(w, work[w])
      BY <1>6, <3>2, ZenonT(60) DEF Turns
    <3>4. Fits(work[w])
      BY <1>2, <1>3, ZenonT(60) DEF Fits, SignalTyped
    <3> QED
      BY <1>3, <2>2, <3>2, <3>3, <3>4, ZenonT(60)
  <2> QED
    BY <2>1, <2>2
<1>9. Queued(queue')
  BY <1>1, <1>2, QueueTake, ZenonT(60)
<1>10. DOMAIN queue \ {t} \subseteq DOMAIN queue'
  BY <1>1, <1>2, BagTake, Zenon DEF Queued
<1>11. SignalTyped'
  <2>1. /\ deaths' \in Seq(SUBSET SetEvents) /\ stored' \in [SetEvents -> Row]
        /\ pushed' \in [SetEvents -> Nat]
    BY <1>2, <1>6, ZenonT(60) DEF SignalTyped
  <2> QED
    BY <1>2, <1>8, <1>9, <2>1, TurnTyped, ZenonT(60)
<1>12. ASSUME NEW e \in SetEvents \ recreated PROVE Once(e)'
  <2>1. e \in SetEvents /\ Once(e)
    BY ZenonT(60) DEF SignalInv
  <2> QED
    BY <1>2, <1>6, <1>8, <2>1, TurnOnce, ZenonT(60)
<1>13. ASSUME NEW e \in SetEvents PROVE Traced(e)'
  <2>1. Traced(e)
    BY SMTT(60) DEF SignalInv
  <2>2. Died(e) => Died(e)'
    BY <1>6, ZenonT(60) DEF Died
  <2>3. InQueue(queue, e) => InQueue(queue', e) \/ e = d
    BY <1>4, <1>10, ZenonT(60) DEF InQueue
  <2>4. \A at \in {"dispatch", "create", "push", "answered", "failed"} : ~ Has(w, at, e)
    BY <1>3, SMTT(60) DEF Has
  <2>5. InQueue(queue, e) /\ StreamThere(StreamOf(e)) =>
          InQueue(queue', e) \/ e \in refused' \/ (v.at \in {"dispatch", "create"} /\ e \in v.task.events)
    BY <1>4, <1>7, <1>8, <2>3, ZenonT(60)
  <2>6. e \in refused => e \in refused'
    BY <1>7, ZenonT(60)
  <2> QED
    BY <1>2, <1>6, <1>8, <2>1, <2>2, <2>4, <2>5, <2>6, TurnTraced, ZenonT(60)
<1> QED
  BY <1>6, <1>11, <1>12, <1>13, ZenonT(60) DEF SignalInv

\* StreamEvent.objects.create: the row is the ticket to the one push.
LEMMA CreateStep ==
    ASSUME SignalInv, NEW w \in SignalWorkers, CreateEvent(w)
    PROVE  SignalInv'
<1>1. SignalTyped /\ Queued(queue) /\ work[w].at = "create" /\ Sends(w)
  BY SMTT(60) DEF SignalInv, SignalTyped, CreateEvent, Sends
<1>2. PICK d \in SetEvents : d = AtHand(w) /\ work[w].task.events = {d}
  BY <1>1, Hand, ZenonT(60)
<1>3. UNCHANGED <<stream, requests, refused, signals, pushed, deaths>>
  BY SMTT(60) DEF CreateEvent
<1>4. stored \in [SetEvents -> Row] /\ pushed \in [SetEvents -> Nat] /\ deaths \in Seq(SUBSET SetEvents)
  BY <1>1, SMTT(60) DEF SignalTyped
<1>5. CASE ~ (stored[d] \in {"none", "cleaned"} /\ StreamThere(StreamOf(d)))
  <2>1. Raised(w) /\ UNCHANGED <<stored, recreated>>
    BY <1>2, <1>5, ZenonT(60) DEF CreateEvent
  <2>2. StreamThere(StreamOf(d)) => work[w].at = "create" /\ stored[d] # "none"
    BY <1>1, <1>5, ZenonT(60)
  <2> QED
    BY <1>1, <1>2, <1>3, <2>1, <2>2, RaisedStep, ZenonT(60)
<1>6. CASE stored[d] \in {"none", "cleaned"} /\ StreamThere(StreamOf(d))
  <2>1. /\ stored' = [stored EXCEPT ![d] = "pending_new"]
        /\ recreated' = IF stored[d] = "cleaned" THEN recreated \cup {d} ELSE recreated
        /\ Continue(w, "push") /\ queue' = queue
    BY <1>2, <1>6, ZenonT(60) DEF CreateEvent
  <2>2. PICK v \in Job : Turns(w, v) /\ Fits(v) /\ v.at = "push" /\ v.task = work[w].task
    BY <1>1, <1>3, <2>1, NextJob, ZenonT(60)
  <2>3. stored' \in [SetEvents -> Row] /\ stored'[d] = "pending_new"
    BY <1>2, <1>4, <2>1, ZenonT(60) DEF Row
  <2>4. \A e \in SetEvents : e # d => stored'[e] = stored[e]
    BY <1>4, <2>1, ZenonT(60)
  <2>5. SignalTyped'
    BY <1>1, <1>3, <1>4, <2>1, <2>2, <2>3, TurnTyped, ZenonT(60)
  <2>6. recreated \subseteq recreated'
    BY <2>1, ZenonT(60)
  <2>7. /\ work'[w] = v
        /\ \A x \in SignalWorkers : x # w => work'[x] = work[x]
    BY <1>1, <2>2, OneJob, ZenonT(60) DEF SignalTyped, Turns
  <2>8. ASSUME NEW e \in SetEvents \ recreated' PROVE Once(e)'
    <3>1. e \in SetEvents /\ Once(e)
      BY <2>6, ZenonT(60) DEF SignalInv
    <3>2. CASE e # d
      <4>1. ~ e \in v.task.events
        BY <1>2, <2>2, <3>2, ZenonT(60)
      <4>2. pushed'[e] = pushed[e] /\ (stored[e] # "none" => stored'[e] # "none")
        BY <1>3, <2>4, <3>1, <3>2, ZenonT(60)
      <4> QED
        BY <1>1, <2>2, <3>1, <4>1, <4>2, TurnOnce, ZenonT(60)
    <3>3. CASE e = d
      <4>1. stored[d] = "none"
        BY <1>6, <2>1, <3>3, ZenonT(60)
      <4>2. stream[StreamOf(d)] # "gone"
        BY <1>6, ZenonT(60) DEF StreamThere
      <4>3. pushed[d] = 0 /\ \A x \in SignalWorkers : ~ Pushing(x, d)
        BY <3>1, <3>3, <4>1, <4>2, ZenonT(60) DEF Once
      <4>4. \A x \in SignalWorkers : Pushing(x, d)' => x = w
        BY <2>7, <4>3, ZenonT(60) DEF Pushing, Has
      <4>5. pushed'[d] = 0 /\ pushed'[d] <= 1 /\ stored'[d] # "none"
        BY ONLY <1>3, <2>3, <4>3, SMTT(60)
      <4> QED
        BY <3>3, <4>4, <4>5, ZenonT(60) DEF Once
    <3> QED
      BY <3>2, <3>3, ZenonT(60)
  <2>9. ASSUME NEW e \in SetEvents PROVE Traced(e)'
    <3>1. Traced(e)
      BY SMTT(60) DEF SignalInv
    <3>2. Died(e) => Died(e)'
      BY <1>3, ZenonT(60) DEF Died
    <3>3. CASE e # d
      <4>1. \A at : ~ Has(w, at, e)
        BY <1>2, <3>3, ZenonT(60) DEF Has
      <4>2. ~ e \in v.task.events
        BY <1>2, <2>2, <3>3, ZenonT(60)
      <4> QED
        BY <1>1, <1>3, <2>1, <2>2, <2>4, <3>1, <3>2, <3>3, <4>1, <4>2, TurnTraced, ZenonT(60)
    <3>4. CASE e = d
      <4>1. Has(w, "push", d)'
        BY <1>2, <2>2, <2>7, ZenonT(60) DEF Has
      <4>2. Sending(d)'
        BY <4>1, ZenonT(60) DEF Sending
      <4>3. Answered(d)' => Answered(d)
        BY <2>2, <2>7, ZenonT(60) DEF Answered, Has
      <4>4. Answered(d)' => pushed'[d] # 0
        BY <1>3, <3>1, <3>4, <4>3, ZenonT(60) DEF Traced
      <4>5. stream'[StreamOf(d)] # "none"
        BY <1>3, <1>6, ZenonT(60) DEF StreamThere
      <4> QED
        BY <2>3, <3>4, <4>2, <4>4, <4>5, ZenonT(60) DEF Traced
    <3> QED
      BY <3>3, <3>4, ZenonT(60)
  <2> QED
    BY <2>5, <2>8, <2>9, ZenonT(60) DEF SignalInv
<1> QED
  BY <1>5, <1>6, ZenonT(60)

\* The POST: the only worker at the push of the event leaves it.
LEMMA PushStep ==
    ASSUME SignalInv, NEW w \in SignalWorkers, Push(w)
    PROVE  SignalInv'
<1>1. SignalTyped /\ Queued(queue) /\ work[w].at = "push" /\ Sends(w)
  BY SMTT(60) DEF SignalInv, SignalTyped, Push, Sends
<1>2. PICK d \in SetEvents : d = AtHand(w) /\ work[w].task.events = {d}
  BY <1>1, Hand, ZenonT(60)
<1>3. UNCHANGED <<stream, requests, refused, signals, stored, recreated, deaths>>
  BY ZenonT(60) DEF Push
<1>4. stored \in [SetEvents -> Row] /\ pushed \in [SetEvents -> Nat] /\ deaths \in Seq(SUBSET SetEvents)
  BY <1>1, ZenonT(60) DEF SignalTyped
<1>5. CASE ~ StreamThere(StreamOf(d))
  <2>1. Raised(w) /\ UNCHANGED pushed
    BY <1>2, <1>5, ZenonT(60) DEF Push
  <2> QED
    BY <1>1, <1>2, <1>3, <1>5, <2>1, RaisedStep, ZenonT(60)
<1>6. CASE StreamThere(StreamOf(d))
  <2>1. /\ queue' = queue
        /\ \/ pushed' = [pushed EXCEPT ![d] = @ + 1] /\ Continue(w, "answered")
           \/ /\ pushed' = [pushed EXCEPT ![d] = @ + 1] \/ pushed' = pushed
              /\ Continue(w, "failed")
    BY <1>2, <1>6, ZenonT(60) DEF Push
  <2>2. PICK v \in Job : /\ Turns(w, v) /\ Fits(v) /\ v.at \in {"answered", "failed"}
                         /\ v.task = work[w].task
                         /\ v.at = "answered" => pushed' = [pushed EXCEPT ![d] = @ + 1]
    <3>1. ASSUME NEW at \in {"answered", "failed"}, Continue(w, at)
          PROVE  \E v \in Job : Turns(w, v) /\ Fits(v) /\ v.at = at /\ v.task = work[w].task
      BY <1>1, <1>3, <3>1, NextJob, ZenonT(60)
    <3> QED
      BY <2>1, <3>1, ZenonT(60)
  <2>3. pushed' = [pushed EXCEPT ![d] = @ + 1] \/ pushed' = pushed
    BY <2>1, ZenonT(60)
  <2>4. /\ pushed' \in [SetEvents -> Nat] /\ pushed'[d] \in {pushed[d], pushed[d] + 1}
        /\ v.at = "answered" => pushed'[d] = pushed[d] + 1
    BY ONLY <1>2, <1>4, <2>2, <2>3, SMTT(60)
  <2>5. \A e \in SetEvents : e # d => pushed'[e] = pushed[e]
    BY <1>4, <2>3, ZenonT(60)
  <2>6. SignalTyped'
    BY <1>1, <1>3, <1>4, <2>1, <2>2, <2>4, TurnTyped, ZenonT(60)
  <2>7. /\ work'[w] = v
        /\ \A x \in SignalWorkers : x # w => work'[x] = work[x]
    BY <1>1, <2>2, OneJob, ZenonT(60) DEF SignalTyped, Turns
  <2>8. pushed[d] \in Nat
    BY <1>2, <1>4, ZenonT(60)
  <2>9. ASSUME NEW e \in SetEvents \ recreated' PROVE Once(e)'
    <3>1. e \in SetEvents /\ Once(e)
      BY <1>3, ZenonT(60) DEF SignalInv
    <3>2. CASE e # d
      BY <1>1, <1>2, <1>3, <2>2, <2>5, <3>1, <3>2, TurnOnce, ZenonT(60)
    <3>3. CASE e = d
      <4>1. Pushing(w, d)
        BY <1>1, <1>2, ZenonT(60) DEF Pushing, Has
      <4>2. pushed[d] = 0 /\ \A x \in SignalWorkers : Pushing(x, d) => x = w
        BY <3>1, <3>3, <4>1, ZenonT(60) DEF Once
      <4>3. stored[d] # "none" \/ stream[StreamOf(d)] = "gone"
        BY <3>1, <3>3, <4>1, ZenonT(60) DEF Once
      <4>4. \A x \in SignalWorkers : ~ Pushing(x, d)'
        <5> TAKE x \in SignalWorkers
        <5>1. CASE x = w
          BY <2>2, <2>7, <5>1, ZenonT(60) DEF Pushing, Has
        <5>2. CASE x # w
          BY <2>7, <4>2, <5>2, ZenonT(60) DEF Pushing, Has
        <5> QED
          BY <5>1, <5>2, ZenonT(60)
      <4>5. pushed'[d] <= 1
        BY ONLY <2>4, <4>2, SMTT(60)
      <4>6. stored'[d] # "none" \/ stream'[StreamOf(d)] = "gone"
        BY <1>3, <4>3, ZenonT(60)
      <4> QED
        BY <3>3, <4>4, <4>5, <4>6, ZenonT(60) DEF Once
    <3> QED
      BY <3>2, <3>3
  <2>10. ASSUME NEW e \in SetEvents PROVE Traced(e)'
    <3>1. Traced(e)
      BY DEF SignalInv
    <3>2. Died(e) => Died(e)'
      BY <1>3, ZenonT(60) DEF Died
    <3>3. CASE e # d
      <4>1. \A at : ~ Has(w, at, e)
        BY <1>2, <3>3 DEF Has
      <4>2. ~ e \in v.task.events
        BY <1>2, <2>2, <3>3, ZenonT(60)
      <4> QED
        BY <1>1, <1>3, <2>1, <2>2, <2>5, <3>1, <3>2, <3>3, <4>1, <4>2, TurnTraced, ZenonT(60)
    <3>4. CASE e = d
      <4>1. Has(w, v.at, d)'
        BY <1>2, <2>2, <2>7, ZenonT(60) DEF Has
      <4>2. Sending(d)'
        BY <2>2, <4>1, ZenonT(60) DEF Sending
      <4>3. Answered(d)' => Answered(d) \/ v.at = "answered"
        BY <2>7, ZenonT(60) DEF Answered, Has
      <4>4. stored[d] \in {"sent", "cleaned"} \/ Answered(d) => pushed[d] # 0
        BY <3>1, <3>4, ZenonT(60) DEF Traced
      <4>5. stored'[d] \in {"sent", "cleaned"} \/ Answered(d)' => pushed'[d] # 0
        BY ONLY <1>3, <2>4, <2>8, <4>3, <4>4, SMTT(60)
      <4>6. (Meant(d)' <=> Meant(d)) /\ (StreamThere(StreamOf(d))' <=> StreamThere(StreamOf(d)))
        BY <1>3, ZenonT(60) DEF Meant, StreamThere
      <4>7. Coming(d) => Coming(d)'
        <5>1. \A x \in SignalWorkers :
                Has(x, "dispatch", d) \/ Has(x, "create", d) => x # w
          BY <1>1, ZenonT(60) DEF Has
        <5> QED
          BY <2>1, <2>7, <5>1, ZenonT(60) DEF Coming, Has, InQueue
      <4> QED
        BY <1>3, <3>1, <3>4, <4>2, <4>5, <4>6, <4>7, ZenonT(60) DEF Traced
    <3> QED
      BY <3>3, <3>4
  <2> QED
    BY <2>6, <2>9, <2>10, ZenonT(60) DEF SignalInv
<1> QED
  BY <1>5, <1>6, ZenonT(60)

\* event.save: an event is stored as sent only after it was pushed.
LEMMA SaveStep ==
    ASSUME SignalInv, NEW w \in SignalWorkers, SaveOutcome(w)
    PROVE  SignalInv'
<1>1. SignalTyped /\ Queued(queue) /\ work[w].at \in {"answered", "failed"} /\ Sends(w)
  BY SMTT(60) DEF SignalInv, SignalTyped, SaveOutcome, Sends
<1>2. PICK d \in SetEvents : d = AtHand(w) /\ work[w].task.events = {d}
  BY <1>1, Hand, ZenonT(60)
<1>3. UNCHANGED <<stream, requests, refused, signals, pushed, recreated, deaths>>
  BY SMTT(60) DEF SaveOutcome
<1>4. stored \in [SetEvents -> Row] /\ pushed \in [SetEvents -> Nat] /\ deaths \in Seq(SUBSET SetEvents)
  BY <1>1, SMTT(60) DEF SignalTyped
<1>5. CASE ~ StreamThere(StreamOf(d))
  <2>1. Raised(w) /\ UNCHANGED stored
    BY <1>2, <1>5, ZenonT(60) DEF SaveOutcome
  <2> QED
    BY <1>1, <1>2, <1>3, <1>5, <2>1, RaisedStep, ZenonT(60)
<1>6. CASE StreamThere(StreamOf(d))
  <2> DEFINE o == IF work[w].at = "answered" THEN "sent" ELSE "pending_failed"
  <2>1. stored' = [stored EXCEPT ![d] = o] /\ Ended(w) /\ queue' = queue
    BY <1>2, <1>6, ZenonT(60) DEF SaveOutcome
  <2>2. Turns(w, NoWork)
    BY <1>3, <2>1, ZenonT(60) DEF Turns, Ended
  <2>3. stored' \in [SetEvents -> Row] /\ stored'[d] = o
    BY <1>2, <1>4, <2>1, ZenonT(60) DEF Row
  <2>4. stored'[d] \in {"sent", "pending_failed"} /\ (stored'[d] = "sent" => work[w].at = "answered")
    BY <2>3, ZenonT(60)
  <2>5. \A e \in SetEvents : e # d => stored'[e] = stored[e]
    BY <1>4, <2>1, ZenonT(60)
  <2> HIDE DEF o
  <2>6. SignalTyped'
    BY <1>1, <1>3, <1>4, <2>1, <2>2, <2>3, NoJob, TurnTyped, ZenonT(60)
  <2>7. ASSUME NEW e \in SetEvents \ recreated' PROVE Once(e)'
    <3>1. e \in SetEvents /\ Once(e)
      BY <1>3, ZenonT(60) DEF SignalInv
    <3>2. stored[e] # "none" => stored'[e] # "none"
      BY <2>4, <2>5, ZenonT(60)
    <3> QED
      BY <1>1, <1>3, <2>2, <3>1, <3>2, NoJob, TurnOnce, ZenonT(60)
  <2>8. ASSUME NEW e \in SetEvents PROVE Traced(e)'
    <3>1. Traced(e)
      BY SMTT(60) DEF SignalInv
    <3>2. Died(e) => Died(e)'
      BY <1>3, ZenonT(60) DEF Died
    <3>3. CASE e # d
      <4>1. \A at : ~ Has(w, at, e)
        BY <1>2, <3>3, ZenonT(60) DEF Has
      <4> QED
        BY <1>1, <1>3, <2>1, <2>2, <2>5, <3>1, <3>2, <3>3, <4>1, NoJob, TurnTraced, ZenonT(60)
    <3>4. CASE e = d
      <4>1. work'[w] = NoWork /\ \A x \in SignalWorkers : x # w => work'[x] = work[x]
        BY <1>1, <2>2, NoJob, OneJob, ZenonT(60) DEF SignalTyped, Turns
      <4>2. Answered(d)' => Answered(d)
        BY <4>1, NoJob, ZenonT(60) DEF Answered, Has
      <4>3. work[w].at = "answered" => Answered(d)
        BY <1>2, ZenonT(60) DEF Answered, Has
      <4>4. stored'[d] \in {"sent", "cleaned"} => Answered(d)
        BY <2>4, <4>3, ZenonT(60)
      <4>5. Answered(d) => pushed[d] # 0
        BY <3>1, <3>4, ZenonT(60) DEF Traced
      <4>6. stream'[StreamOf(d)] # "none"
        BY <1>3, <1>6, ZenonT(60) DEF StreamThere
      <4>7. stored'[d] # "none" /\ stored'[d] # "pending_new"
        BY <2>4, SMTT(60)
      <4> QED
        BY <1>3, <3>4, <4>2, <4>4, <4>5, <4>6, <4>7, ZenonT(60) DEF Traced
    <3> QED
      BY <3>3, <3>4, ZenonT(60)
  <2> QED
    BY <2>6, <2>7, <2>8, ZenonT(60) DEF SignalInv
<1> QED
  BY <1>5, <1>6, ZenonT(60)

\* A worker dies: its task is queued again, and its events are noted.
LEMMA DiesStep ==
    ASSUME SignalInv, NEW w \in SignalWorkers, WorkerDies(w)
    PROVE  SignalInv'
<1>1. /\ SignalTyped /\ Queued(queue) /\ work[w] \in Job /\ Single(work[w].task)
      /\ deaths \in Seq(SUBSET SetEvents)
  BY ZenonT(60) DEF SignalInv, SignalTyped
<1>2. PICK t \in Task : t = work[w].task
  BY <1>1, SMTT(60) DEF Job
<1>3. PICK S \in SUBSET DispatchSends(w) : queue' = (queue (+) SetToBag(S)) (+) SetToBag({t})
  BY <1>2, ZenonT(60) DEF WorkerDies
<1>4. UNCHANGED <<refused, stored, pushed, recreated>> /\ deaths' = Append(deaths, t.events)
  BY <1>2, ZenonT(60) DEF WorkerDies
<1>5. Turns(w, NoWork)
  BY SMTT(60) DEF WorkerDies, Ended, Turns
<1> DEFINE q == queue (+) SetToBag(S)
<1>6. Queued(q) /\ DOMAIN q = DOMAIN queue \cup S
  <2>1. S \in SUBSET Task /\ \A x \in S : Single(x)
    BY <1>1, SendsFit, Zenon
  <2> QED
    BY <1>1, <2>1, QueueAdd, BagAdd, ZenonT(60) DEF Queued
<1>7. queue' = q (+) SetToBag({t})
  BY <1>3
<1> HIDE DEF q
<1>8. Queued(queue')
  BY <1>1, <1>2, <1>6, <1>7, QueueAdd, ZenonT(60)
<1>9. DOMAIN queue' = DOMAIN q \cup {t}
  BY <1>6, <1>7, BagAdd, ZenonT(60) DEF Queued
<1>10. t.events \in SUBSET SetEvents
  BY <1>2, ZenonT(60) DEF Task
<1>11. /\ deaths' \in Seq(SUBSET SetEvents)
       /\ \A i \in DOMAIN deaths : i \in DOMAIN deaths' /\ deaths'[i] = deaths[i]
       /\ Len(deaths) + 1 \in DOMAIN deaths' /\ deaths'[Len(deaths) + 1] = t.events
  BY ONLY <1>1, <1>4, <1>10, SMTT(60)
<1>12. SignalTyped'
  <2>1. stored' \in [SetEvents -> Row] /\ pushed' \in [SetEvents -> Nat]
    BY <1>1, <1>4, ZenonT(60) DEF SignalTyped
  <2> QED
    BY <1>1, <1>5, <1>8, <1>11, <2>1, NoJob, TurnTyped, ZenonT(60)
<1>13. ASSUME NEW e \in SetEvents \ recreated PROVE Once(e)'
  <2>1. e \in SetEvents /\ Once(e)
    BY ZenonT(60) DEF SignalInv
  <2> QED
    BY <1>1, <1>4, <1>5, <2>1, NoJob, TurnOnce, ZenonT(60)
<1>14. ASSUME NEW e \in SetEvents PROVE Traced(e)'
  <2>1. Traced(e)
    BY SMTT(60) DEF SignalInv
  <2>2. Died(e) => Died(e)'
    BY <1>11, ZenonT(60) DEF Died
  <2>3. InQueue(queue, e) \/ e \in t.events => InQueue(queue', e)
    BY <1>6, <1>9, ZenonT(60) DEF InQueue
  <2>4. e \in t.events => Died(e)'
    BY <1>11, ZenonT(60) DEF Died
  <2>5. \A at : Has(w, at, e) => e \in t.events
    BY <1>2, ZenonT(60) DEF Has
  <2> QED
    BY <1>1, <1>4, <1>5, <2>1, <2>2, <2>3, <2>4, <2>5, NoJob, TurnTraced, ZenonT(60)
<1> QED
  BY <1>4, <1>12, <1>13, <1>14, ZenonT(60) DEF SignalInv

\* send_ssf_events: the new events are in the queue; a stream that is new has no others.
LEMMA SendStep ==
    ASSUME SignalInv, NEW type \in {"verification", "user"}, NEW to \in SUBSET Streams,
           SendEvents(type, to), stream' \in [Streams -> {"none", "there", "gone"}],
           \A s \in Streams : stream'[s] = stream[s] \/ (stream[s] = "none" /\ stream'[s] = "there"),
           \A s \in to : stream'[s] = "there",
           UNCHANGED <<requests, refused, work, stored, pushed, recreated, deaths>>
    PROVE  SignalInv'
<1> DEFINE n == Len(signals) + 1
           m == [type |-> type, to |-> to]
           es == {<<n, s>> : s \in to}
           t == DispatchTask(es)
<1>1. SignalTyped /\ Queued(queue) /\ signals \in Seq(Signal)
  BY ZenonT(60) DEF SignalInv, SignalTyped
<1>2. /\ Len(signals) < MaxSignals /\ signals' = Append(signals, m)
      /\ queue' = queue (+) SetToBag({t})
  BY SMTT(60) DEF SendEvents
<1>3. m \in Signal /\ m.to = to
  BY ZenonT(60) DEF Signal
<1> HIDE DEF m
<1>4. n \in 1 .. MaxSignals
  BY ONLY <1>1, <1>2, SignalAssumption, SMTT(60)
<1>5. es \subseteq SetEvents
  BY <1>4, SMTT(60) DEF SetEvents
<1>6. t \in Task /\ t.send = FALSE /\ t.events = es
  BY <1>5, ZenonT(60) DEF DispatchTask, Task
<1>7. Single(t)
  BY <1>6, ZenonT(60) DEF Single
<1>8. /\ signals' \in Seq(Signal) /\ Len(signals') <= MaxSignals
      /\ DOMAIN signals' = DOMAIN signals \cup {n} /\ n \notin DOMAIN signals
      /\ \A i \in DOMAIN signals : signals'[i] = signals[i]
      /\ signals'[n] = m
  BY ONLY <1>1, <1>2, <1>3, SignalAssumption, SMTT(60)
<1> HIDE DEF t
<1>9. Queued(queue')
  BY <1>1, <1>2, <1>6, <1>7, QueueAdd, ZenonT(60)
<1>10. DOMAIN queue' = DOMAIN queue \cup {t}
  BY <1>1, <1>2, BagAdd, ZenonT(60) DEF Queued
<1>11. SignalTyped'
  <2>1. \A w \in SignalWorkers : Sends(w)' <=> Sends(w)
    BY SMTT(60) DEF Sends
  <2> QED
    BY <1>1, <1>8, <1>9, <2>1, ZenonT(60) DEF SignalTyped
<1>12. \A e \in SetEvents : StreamOf(e) \in Streams
  BY SMTT(60) DEF SetEvents, StreamOf
<1>13. ASSUME NEW e \in SetEvents \ recreated PROVE Once(e)'
  <2>1. e \in SetEvents /\ Once(e)
    BY SMTT(60) DEF SignalInv
  <2>2. stream[StreamOf(e)] = "gone" => stream'[StreamOf(e)] = "gone"
    BY <1>12, <2>1, ZenonT(60)
  <2>3. \A w \in SignalWorkers : Pushing(w, e)' => Pushing(w, e)
    BY SMTT(60) DEF Pushing, Has
  <2> QED
    BY <2>1, <2>2, <2>3, OnceKept, ZenonT(60)
<1>14. ASSUME NEW e \in SetEvents PROVE Traced(e)'
  <2>1. Traced(e)
    BY DEF SignalInv
  <2>2. (Answered(e)' <=> Answered(e)) /\ (Died(e)' <=> Died(e)) /\ (Sending(e)' <=> Sending(e))
    BY ZenonT(60) DEF Answered, Died, Sending, Has
  <2>3. Coming(e) => Coming(e)'
    BY <1>10, ZenonT(60) DEF Coming, InQueue, Has
  <2>4. e \in es => Coming(e)'
    BY <1>6, <1>10, ZenonT(60) DEF Coming, InQueue
  <2>5. e = <<e[1], e[2]>> /\ StreamOf(e) = e[2]
    BY SMTT(60) DEF SetEvents, StreamOf
  <2>6. Meant(e)' => Meant(e) \/ e \in es
    <3>1. CASE e[1] = n
      BY ONLY <1>3, <1>8, <2>5, <3>1, ZenonT(60) DEF Meant
    <3>2. CASE e[1] # n
      BY <1>8, <3>2, ZenonT(60) DEF Meant
    <3> QED
      BY <3>1, <3>2, ZenonT(60)
  <2>7. e \in es => stream'[StreamOf(e)] # "none"
    BY <2>5, SMTT(60)
  <2>8. stream[StreamOf(e)] # "none" => stream'[StreamOf(e)] = stream[StreamOf(e)]
    BY <1>12, ZenonT(60)
  <2>9. stored[e] # "none" \/ Meant(e) => stream[StreamOf(e)] # "none"
    BY <2>1, ZenonT(60) DEF Traced
  <2>10. stored[e] # "none" \/ Meant(e) =>
           (StreamThere(StreamOf(e))' <=> StreamThere(StreamOf(e)))
    BY <2>8, <2>9, ZenonT(60) DEF StreamThere
  <2>11. stored'[e] = stored[e] /\ pushed'[e] = pushed[e] /\ refused' = refused
    BY SMTT(60)
  <2>12. stored'[e] \in {"sent", "cleaned"} \/ Answered(e)' => pushed'[e] # 0
    BY <2>1, <2>2, <2>11, ZenonT(60) DEF Traced
  <2>13. stored'[e] # "none" \/ Meant(e)' => stream'[StreamOf(e)] # "none"
    BY <2>6, <2>7, <2>8, <2>9, <2>11, ZenonT(60)
  <2>14. stored'[e] = "pending_new" /\ StreamThere(StreamOf(e))' => Died(e)' \/ Sending(e)'
    <3>1. stored[e] = "pending_new" => stored[e] # "none"
      BY SMTT(60)
    <3> QED
      BY <2>1, <2>2, <2>10, <2>11, <3>1, ZenonT(60) DEF Traced
  <2>15. Meant(e)' /\ StreamThere(StreamOf(e))' /\ e \notin refused' =>
           stored'[e] # "none" \/ Coming(e)'
    BY <2>1, <2>3, <2>4, <2>6, <2>10, <2>11, ZenonT(60) DEF Traced
  <2> QED
    BY <2>12, <2>13, <2>14, <2>15, ZenonT(60) DEF Traced
<1> QED
  BY <1>11, <1>13, <1>14, ZenonT(60) DEF SignalInv

\* StreamView.post.
LEMMA SubscribeStep ==
    ASSUME SignalInv, NEW s \in Streams, Subscribe(s)
    PROVE  SignalInv'
<1>1. stream \in [Streams -> {"none", "there", "gone"}]
  BY SMTT(60) DEF SignalInv, SignalTyped
<1>2. stream' = [stream EXCEPT ![s] = "there"] /\ stream[s] = "none"
  BY ZenonT(60) DEF Subscribe
<1>3. stream' \in [Streams -> {"none", "there", "gone"}] /\ stream'[s] = "there"
  BY <1>1, <1>2, ZenonT(60)
<1>4. \A x \in Streams : stream'[x] = stream[x] \/ (stream[x] = "none" /\ stream'[x] = "there")
  BY <1>1, <1>2, ZenonT(60)
<1>5. /\ SendEvents("verification", {s})
      /\ UNCHANGED <<requests, refused, work, stored, pushed, recreated, deaths>>
  BY SMTT(60) DEF Subscribe
<1>6. "verification" \in {"verification", "user"} /\ {s} \in SUBSET Streams
  BY <1>1, ZenonT(60)
<1>7. \A x \in {s} : stream'[x] = "there"
  BY <1>3, ZenonT(60)
<1> QED
  BY <1>3, <1>4, <1>5, <1>6, <1>7, SendStep, ZenonT(60)

\* The signal handlers.
LEMMA UserSignalStep ==
    ASSUME SignalInv, UserSignal
    PROVE  SignalInv'
<1>1. stream \in [Streams -> {"none", "there", "gone"}] /\ requests \subseteq Streams
  BY ZenonT(60) DEF SignalInv, SignalTyped
<1> DEFINE to == {s \in requests : StreamThere(s)}
<1>2. /\ SendEvents("user", to)
      /\ UNCHANGED <<stream, requests, refused, work, stored, pushed, recreated, deaths>>
  BY SMTT(60) DEF UserSignal
<1>3. to \in SUBSET Streams
  BY <1>1, ZenonT(60)
<1>4. \A s \in to : stream'[s] = "there"
  BY <1>2, ZenonT(60) DEF StreamThere
<1> HIDE DEF to
<1> QED
  BY <1>1, <1>2, <1>3, <1>4, SendStep, ZenonT(60)

\* StreamView.delete: a stream that is gone asks nothing of its events.
LEMMA UnsubscribeStep ==
    ASSUME SignalInv, Unsubscribe
    PROVE  SignalInv'
<1>1. /\ SignalTyped /\ stream \in [Streams -> {"none", "there", "gone"}]
      /\ stored \in [SetEvents -> Row]
  BY ZenonT(60) DEF SignalInv, SignalTyped
<1>2. /\ stream' = [s \in Streams |-> IF StreamThere(s) THEN "gone" ELSE stream[s]]
      /\ stored' = [e \in SetEvents |-> IF StreamThere(StreamOf(e)) THEN "none" ELSE stored[e]]
      /\ UNCHANGED <<requests, refused, signals, queue, work, pushed, recreated, deaths>>
  BY ZenonT(60) DEF Unsubscribe
<1>3. /\ stream' \in [Streams -> {"none", "there", "gone"}]
      /\ \A s \in Streams : /\ stream'[s] # "there" /\ (stream[s] = "gone" => stream'[s] = "gone")
                            /\ stream[s] # "none" => stream'[s] # "none"
                            /\ stream[s] = "there" => stream'[s] = "gone"
  BY <1>1, <1>2, ZenonT(60) DEF StreamThere
<1>4. stored' \in [SetEvents -> Row]
  BY <1>1, <1>2, ZenonT(60) DEF Row
<1>5. \A e \in SetEvents : /\ StreamOf(e) \in Streams
                           /\ stored'[e] = stored[e] \/ (stored'[e] = "none" /\ StreamThere(StreamOf(e)))
  BY <1>2, ZenonT(60) DEF SetEvents, StreamOf
<1>6. SignalTyped'
  <2>1. \A w \in SignalWorkers : Sends(w)' <=> Sends(w)
    BY <1>2, ZenonT(60) DEF Sends
  <2> QED
    BY <1>1, <1>2, <1>3, <1>4, <2>1, ZenonT(60) DEF SignalTyped
<1>7. ASSUME NEW e \in SetEvents \ recreated PROVE Once(e)'
  <2>1. e \in SetEvents /\ Once(e)
    BY SMTT(60) DEF SignalInv
  <2>2. stored[e] # "none" => stored'[e] # "none" \/ stream'[StreamOf(e)] = "gone"
    BY <1>3, <1>5, <2>1, ZenonT(60) DEF StreamThere
  <2>3. \A w \in SignalWorkers : Pushing(w, e)' => Pushing(w, e)
    BY <1>2, ZenonT(60) DEF Pushing, Has
  <2> QED
    BY <1>2, <1>3, <1>5, <2>1, <2>2, <2>3, OnceKept, ZenonT(60)
<1>8. ASSUME NEW e \in SetEvents PROVE Traced(e)'
  <2>1. Traced(e)
    BY SMTT(60) DEF SignalInv
  <2>2. (Answered(e)' <=> Answered(e)) /\ (Meant(e)' <=> Meant(e)) /\ pushed'[e] = pushed[e]
    BY <1>2, ZenonT(60) DEF Answered, Has, Meant
  <2>3. ~ StreamThere(StreamOf(e))'
    BY <1>3, <1>5, ZenonT(60) DEF StreamThere
  <2>4. stored'[e] \in {"sent", "cleaned"} \/ Answered(e)' => pushed'[e] # 0
    <3>1. stored[e] \in {"sent", "cleaned"} \/ Answered(e) => pushed[e] # 0
      BY <2>1, ZenonT(60) DEF Traced
    <3> QED
      BY <1>5, <2>2, <3>1, ZenonT(60)
  <2>5. stored'[e] # "none" \/ Meant(e)' => stream'[StreamOf(e)] # "none"
    <3>1. stored[e] # "none" \/ Meant(e) => stream[StreamOf(e)] # "none"
      BY <2>1, ZenonT(60) DEF Traced
    <3> QED
      BY <1>3, <1>5, <2>2, <3>1, ZenonT(60)
  <2> QED
    BY <2>3, <2>4, <2>5, ZenonT(60) DEF Traced
<1> QED
  BY <1>2, <1>6, <1>7, <1>8, ZenonT(60) DEF SignalInv

\* clean_expired_models: a row that is deleted was stored as sent.
LEMMA CleanStep ==
    ASSUME SignalInv, CleanExpired
    PROVE  SignalInv'
<1>1. SignalTyped /\ stored \in [SetEvents -> Row]
  BY SMTT(60) DEF SignalInv, SignalTyped
<1>2. UNCHANGED <<stream, requests, refused, signals, queue, work, pushed, recreated, deaths>>
  BY SMTT(60) DEF CleanExpired
<1>3. \A e \in SetEvents : stored'[e] = stored[e] \/ (stored[e] = "sent" /\ stored'[e] = "cleaned")
  BY ZenonT(60) DEF CleanExpired, ExpireAction
<1>4. stored' \in [SetEvents -> Row]
  BY <1>1, ZenonT(60) DEF CleanExpired, Row
<1>5. SignalTyped'
  <2>1. \A w \in SignalWorkers : Sends(w)' <=> Sends(w)
    BY <1>2, ZenonT(60) DEF Sends
  <2> QED
    BY <1>1, <1>2, <1>4, <2>1, ZenonT(60) DEF SignalTyped
<1>6. ASSUME NEW e \in SetEvents \ recreated PROVE Once(e)'
  <2>1. e \in SetEvents /\ Once(e)
    BY DEF SignalInv
  <2>2. stored[e] # "none" => stored'[e] # "none"
    BY <1>3, <2>1, ZenonT(60)
  <2>3. \A w \in SignalWorkers : Pushing(w, e)' => Pushing(w, e)
    BY <1>2, ZenonT(60) DEF Pushing, Has
  <2> QED
    BY <1>2, <2>1, <2>2, <2>3, OnceKept, ZenonT(60)
<1>7. ASSUME NEW e \in SetEvents PROVE Traced(e)'
  <2>1. Traced(e)
    BY DEF SignalInv
  <2>2. (Answered(e)' <=> Answered(e)) /\ (Meant(e)' <=> Meant(e)) /\ (Died(e)' <=> Died(e))
    BY <1>2, ZenonT(60) DEF Answered, Has, Meant, Died
  <2>3. (Sending(e)' <=> Sending(e)) /\ (Coming(e)' <=> Coming(e))
    BY <1>2, ZenonT(60) DEF Sending, Coming, InQueue, Has
  <2>4. StreamThere(StreamOf(e))' <=> StreamThere(StreamOf(e))
    BY <1>2, ZenonT(60) DEF StreamThere
  <2>5. CASE stored'[e] = stored[e]
    BY <1>2, <2>1, <2>2, <2>3, <2>4, <2>5, TracedKept, ZenonT(60)
  <2>6. CASE stored[e] = "sent" /\ stored'[e] = "cleaned"
    <3>1. pushed[e] # 0 /\ stream[StreamOf(e)] # "none"
      BY <2>1, <2>6, ZenonT(60) DEF Traced
    <3> QED
      BY <1>2, <2>6, <3>1, ZenonT(60) DEF Traced
  <2> QED
    BY <1>3, <2>5, <2>6, ZenonT(60)
<1> QED
  BY <1>2, <1>5, <1>6, <1>7, ZenonT(60) DEF SignalInv

\* Steps that touch neither events nor tasks.
LEMMA RestStep ==
    ASSUME SignalInv,
           UNCHANGED <<stream, requests, refused, signals, queue, work, stored, pushed, recreated,
                       deaths>>
    PROVE  SignalInv'
<1>1. SignalTyped'
  BY ZenonT(60) DEF SignalInv, SignalTyped, Sends
<1>2. ASSUME NEW e \in SetEvents PROVE (Once(e)' <=> Once(e)) /\ (Traced(e)' <=> Traced(e))
  BY ZenonT(60) DEF Once, Traced, Pushing, Has, Answered, Sending, Coming, InQueue, Died, Meant,
               StreamThere
<1> QED
  BY <1>1, <1>2, ZenonT(60) DEF SignalInv

\* No stream, no signal and no task at the start.
LEMMA SignalInitInv == SignalInit => SignalInv
<1> SUFFICES ASSUME SignalInit PROVE SignalInv
  BY ZenonT(60)
<1>1. /\ stream = [s \in Streams |-> "none"] /\ requests \in SUBSET Streams
      /\ refused = {} /\ signals = <<>> /\ queue = EmptyBag
      /\ work = [w \in SignalWorkers |-> NoWork]
      /\ stored = [e \in SetEvents |-> "none"]
      /\ pushed = [e \in SetEvents |-> 0] /\ recreated = {} /\ deaths = <<>>
  BY ZenonT(60) DEF SignalInit
<1>2. IsABag(queue) /\ DOMAIN queue = {}
  BY <1>1, ZenonT(60) DEF EmptyBag, SetToBag, IsABag
<1>3. Queued(queue)
  BY <1>2, ZenonT(60) DEF Queued
<1>4. work \in [SignalWorkers -> Job] /\ \A w \in SignalWorkers : work[w] = NoWork
  BY <1>1, NoJob, ZenonT(60)
<1>5. \A w \in SignalWorkers : Single(work[w].task) /\ (Sends(w) => work[w].task.send)
  BY <1>4, NoJob, ZenonT(60) DEF Fits, Sends
<1>6. SignalTyped
  BY ONLY <1>1, <1>3, <1>4, <1>5, SignalAssumption, SMTT(60) DEF SignalTyped, Row
<1>7. ASSUME NEW e \in SetEvents PROVE Once(e) /\ Traced(e)
  <2>1. pushed[e] = 0 /\ stored[e] = "none" /\ pushed[e] <= 1
    BY ONLY <1>1, SMTT(60)
  <2>2. \A w \in SignalWorkers : \A at \in {"push", "answered"} : ~ Has(w, at, e)
    BY <1>4, NoJob, ZenonT(60) DEF Has
  <2>3. ~ Meant(e)
    BY <1>1, SMTT(60) DEF Meant
  <2>4. ~ Answered(e) /\ \A w \in SignalWorkers : ~ Pushing(w, e)
    BY <2>2, ZenonT(60) DEF Answered, Pushing
  <2>5. stored[e] # "pending_new" /\ stored[e] \notin {"sent", "cleaned"}
    BY <2>1, ZenonT(60)
  <2>6. Once(e)
    <3>1. ~ (pushed[e] # 0 \/ \E w \in SignalWorkers : Pushing(w, e))
      BY <2>1, <2>4, ZenonT(60)
    <3> QED
      BY <2>1, <2>4, <3>1, ZenonT(60) DEF Once
  <2>7. Traced(e)
    BY <2>1, <2>3, <2>4, <2>5, ZenonT(60) DEF Traced
  <2> QED
    BY <2>6, <2>7, ZenonT(60)
<1> QED
  BY <1>6, <1>7, ZenonT(60) DEF SignalInv

\* The invariant is inductive.
LEMMA SignalNextInv == SignalInv /\ [SignalNext]_signalVars => SignalInv'
<1> SUFFICES ASSUME SignalInv, [SignalNext]_signalVars PROVE SignalInv'
  BY SMTT(60)
<1>1. ASSUME NEW s \in Streams, Subscribe(s) PROVE SignalInv'
  BY <1>1, SubscribeStep, ZenonT(60)
<1>2. CASE Unsubscribe
  BY <1>2, UnsubscribeStep, ZenonT(60)
<1>3. CASE UserSignal
  BY <1>3, UserSignalStep, ZenonT(60)
<1>4. CASE Forbid
  BY <1>4, RestStep, ZenonT(60) DEF Forbid
<1>5. CASE CleanExpired
  BY <1>5, CleanStep, ZenonT(60)
<1>6. ASSUME NEW e \in SetEvents, Expire(e) PROVE SignalInv'
  BY <1>6, RestStep, ZenonT(60) DEF Expire
<1>7. ASSUME NEW w \in SignalWorkers, DispatchEvents(w) PROVE SignalInv'
  BY <1>7, DispatchStep, ZenonT(60)
<1>8. ASSUME NEW w \in SignalWorkers, DispatchDone(w) PROVE SignalInv'
  BY <1>8, DispatchDoneStep, ZenonT(60)
<1>9. ASSUME NEW w \in SignalWorkers, BeginSend(w) PROVE SignalInv'
  BY <1>9, BeginStep, ZenonT(60)
<1>10. ASSUME NEW w \in SignalWorkers, CreateEvent(w) PROVE SignalInv'
  BY <1>10, CreateStep, ZenonT(60)
<1>11. ASSUME NEW w \in SignalWorkers, Push(w) PROVE SignalInv'
  BY <1>11, PushStep, ZenonT(60)
<1>12. ASSUME NEW w \in SignalWorkers, SaveOutcome(w) PROVE SignalInv'
  BY <1>12, SaveStep, ZenonT(60)
<1>13. ASSUME NEW w \in SignalWorkers, WorkerDies(w) PROVE SignalInv'
  BY <1>13, DiesStep, ZenonT(60)
<1>14. CASE UNCHANGED signalVars
  BY <1>14, RestStep, ZenonT(60) DEF signalVars
<1> QED
  BY <1>1, <1>2, <1>3, <1>4, <1>5, <1>6, <1>7, <1>8, <1>9, <1>10, <1>11, <1>12, <1>13, <1>14,
     ZenonT(60) DEF SignalNext

\* Once all tasks have ended no event is on its way, so that the traces account for all.
LEMMA TracesAccount == SignalInv => Accounted
<1> SUFFICES ASSUME SignalInv, Resting, NEW n \in DOMAIN signals, NEW s \in signals[n].to
             PROVE  LET e == <<n, s>> IN
                    /\ stored[e] \in {"sent", "cleaned"} => pushed[e] > 0
                    /\ StreamThere(s) /\ e \notin refused =>
                         stored[e] \in {"pending_failed", "sent", "cleaned"} \/
                            (stored[e] = "pending_new" /\ \E i \in DOMAIN deaths : e \in deaths[i])
  BY ZenonT(60) DEF Accounted
<1> DEFINE e == <<n, s>>
<1>1. SignalTyped /\ signals \in Seq(Signal) /\ Len(signals) <= MaxSignals
  BY SMTT(60) DEF SignalInv, SignalTyped
<1>2. n \in 1 .. MaxSignals
  BY <1>1, SignalAssumption, SMTT(60)
<1>3. signals[n] \in Signal
  BY <1>1, SMTT(60)
<1>4. s \in Streams
  BY <1>3, SMTT(60) DEF Signal
<1>5. e \in SetEvents /\ StreamOf(e) = s /\ e[1] = n /\ e[2] = s
  BY <1>2, <1>4, ZenonT(60) DEF SetEvents, StreamOf
<1> HIDE DEF e
<1>6. Traced(e) /\ stored[e] \in Row /\ pushed[e] \in Nat
  BY <1>1, <1>5, ZenonT(60) DEF SignalInv, SignalTyped
<1>7. Meant(e)
  BY <1>5, ZenonT(60) DEF Meant
<1>8. \A w \in SignalWorkers : work[w].at = "idle"
  BY SMTT(60) DEF Resting
<1>9. \A w \in SignalWorkers : \A at \in {"dispatch", "create", "push", "answered", "failed"} :
        ~ Has(w, at, e)
  BY <1>8, ZenonT(60) DEF Has
<1>10. DOMAIN queue = {}
  BY SMTT(60) DEF Resting, EmptyBag, SetToBag
<1>11. ~ Coming(e) /\ ~ Sending(e)
  BY <1>9, <1>10, ZenonT(60) DEF Coming, Sending, InQueue
<1>12. stored[e] \in {"sent", "cleaned"} => pushed[e] # 0
  BY <1>6, ZenonT(60) DEF Traced
<1>13. StreamThere(s) /\ e \notin refused =>
         stored[e] # "none" /\ (stored[e] = "pending_new" => Died(e))
  BY <1>5, <1>6, <1>7, <1>11, ZenonT(60) DEF Traced
<1>14. stored[e] \in {"sent", "cleaned"} => pushed[e] > 0
  BY ONLY <1>6, <1>12, SMTT(60)
<1>15. StreamThere(s) /\ e \notin refused =>
         stored[e] \in {"pending_failed", "sent", "cleaned"} \/
            (stored[e] = "pending_new" /\ \E i \in DOMAIN deaths : e \in deaths[i])
  BY <1>6, <1>13, ZenonT(60) DEF Row, Died
<1> QED
  BY <1>14, <1>15, ZenonT(60) DEF e

\* The invariant of the shared signals holds in every state.
THEOREM SignalInvariance == SignalSpec => []SignalInv
BY SignalInitInv, SignalNextInv, PTL DEF SignalSpec

\* send_ssf_event: whatever dies, is delivered twice or is retried, an event is pushed to its
\* receiver once, unless its row was cleaned up before a second run.
THEOREM PushedOnceTheorem == SignalSpec => []PushedOnce
<1>1. SignalInv => PushedOnce
  BY ZenonT(60) DEF SignalInv, Once, PushedOnce
<1> QED
  BY <1>1, SignalInvariance, PTL

\* send_ssf_events to expire_action: once all tasks have ended, every event is accounted for.
THEOREM AccountedTheorem == SignalSpec => []Accounted
BY TracesAccount, SignalInvariance, PTL
=============================================================================
