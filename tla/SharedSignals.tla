---------------------------- MODULE SharedSignals ----------------------------
(***************************************************************************)
(* The shared signals provider (authentik/enterprise/providers/ssf): a      *)
(* receiver registers a stream and is sent a verification event; sessions   *)
(* that end and credentials that change are signals, prepared as one event  *)
(* per stream that requested them; a dispatch task queues a task per event, *)
(* which checks access, stores the event under the identifier it was        *)
(* prepared with, pushes it to the receiver and stores how that went.       *)
(*                                                                          *)
(* The tasks are those of the task broker: one whose worker died runs       *)
(* again, one that raised is tried again until it is given up.              *)
(***************************************************************************)
EXTENDS Naturals, Sequences, Bags

CONSTANTS
    Streams,
    SignalWorkers,
    MaxSignals,     \* bound on the signals, verifications included
    MaxAgain,       \* retries of a task that raises
    MaxDeaths       \* bound on workers that die

ASSUME SignalAssumption == MaxSignals \in Nat

VARIABLES
    stream,     \* Streams -> "none", "there", "gone"
    requests,   \* streams that requested the signals of users
    allowed,    \* the user of the signals may access the application
    refused,    \* events whose task found the user without access
    signals,    \* the signals so far: their type and the streams to send them to
    queue,      \* bag of queued tasks
    work,       \* worker -> what it runs
    stored,     \* event -> the StreamEvent row
    lapsed,     \* events whose row has expired
    pushed,     \* event -> how often the receiver was sent it
    recreated,  \* events stored again after the cleanup of their row
    deaths      \* the events of the tasks whose worker died

signalVars == <<stream, requests, allowed, refused, signals, queue, work, stored, lapsed,
                pushed, recreated, deaths>>

\* The event that prepare_event_payload makes of the n-th signal for a stream.
SetEvents == (1 .. MaxSignals) \X Streams
StreamOf(e) == e[2]
StreamThere(s) == stream[s] = "there"

DispatchTask(es) == [events |-> es, tries |-> 0, send |-> FALSE]
SendTask(e) == [events |-> {e}, tries |-> 0, send |-> TRUE]
NoWork == [at |-> "idle", task |-> DispatchTask({})]

SignalInit ==
    /\ stream = [s \in Streams |-> "none"] /\ requests \in SUBSET Streams
    /\ allowed = TRUE /\ refused = {} /\ signals = <<>> /\ queue = EmptyBag
    /\ work = [w \in SignalWorkers |-> NoWork]
    /\ stored = [e \in SetEvents |-> "none"] /\ lapsed = {}
    /\ pushed = [e \in SetEvents |-> 0] /\ recreated = {} /\ deaths = <<>>

\* send_ssf_events: one event per stream of the filter.
SendEvents(type, to) ==
    /\ Len(signals) < MaxSignals
    /\ signals' = Append(signals, [type |-> type, to |-> to])
    /\ queue' = queue (+) SetToBag({DispatchTask({<<Len(signals) + 1, s>> : s \in to})})

\* StreamView.post: the stream is stored and verified.
Subscribe(s) ==
    /\ stream[s] = "none"
    /\ stream' = [stream EXCEPT ![s] = "there"]
    /\ SendEvents("verification", {s})
    /\ UNCHANGED <<requests, allowed, refused, work, stored, lapsed, pushed, recreated, deaths>>

\* StreamView.delete: all streams of the provider, and their events with them.
Unsubscribe ==
    /\ \E s \in Streams : StreamThere(s)
    /\ stream' = [s \in Streams |-> IF StreamThere(s) THEN "gone" ELSE stream[s]]
    /\ stored' = [e \in SetEvents |-> IF StreamThere(StreamOf(e)) THEN "none" ELSE stored[e]]
    /\ UNCHANGED <<requests, allowed, refused, signals, queue, work, lapsed, pushed, recreated,
                   deaths>>

\* The signal handlers: a session of the user ends, or a password or device changes.
UserSignal ==
    /\ \E s \in requests : StreamThere(s)
    /\ SendEvents("user", {s \in requests : StreamThere(s)})
    /\ UNCHANGED <<stream, requests, allowed, refused, work, stored, lapsed, pushed, recreated,
                   deaths>>

\* The policies of the application no longer let the user in.
Forbid ==
    /\ allowed /\ allowed' = FALSE
    /\ UNCHANGED <<stream, requests, refused, signals, queue, work, stored, lapsed, pushed,
                   recreated, deaths>>

------------------------------------------------------------------------------
(* Tasks *)

Waiting(w, send) == {t \in BagToSet(queue) : work[w].at = "idle" /\ t.send = send}
AtHand(w) == CHOOSE e \in work[w].task.events : TRUE
Continue(w, at) == work' = [work EXCEPT ![w].at = at]
Ended(w) == work' = [work EXCEPT ![w] = NoWork]

\* The task raised: it is queued again, or given up.
Raised(w) ==
    LET t == work[w].task
    IN  /\ queue' = IF t.tries < MaxAgain
                      THEN queue (+) SetToBag({[t EXCEPT !.tries = @ + 1]}) ELSE queue
        /\ Ended(w)

\* ssf_events_dispatch: a task for each event whose stream is still there.
DispatchEvents(w) ==
    \E t \in Waiting(w, FALSE) :
        /\ queue' = queue (-) SetToBag({t})
        /\ work' = [work EXCEPT ![w] = [at |-> "dispatch", task |-> t]]
        /\ UNCHANGED <<stream, requests, allowed, refused, signals, stored, lapsed, pushed,
                       recreated, deaths>>

DispatchSends(w) ==
    {SendTask(e) : e \in {x \in work[w].task.events : StreamThere(StreamOf(x))}}

DispatchDone(w) ==
    /\ work[w].at = "dispatch"
    /\ queue' = queue (+) SetToBag(DispatchSends(w))
    /\ Ended(w)
    /\ UNCHANGED <<stream, requests, allowed, refused, signals, stored, lapsed, pushed,
                   recreated, deaths>>

\* send_ssf_event: the stream and the access of the user, whom a verification does not name,
BeginSend(w) ==
    \E t \in Waiting(w, TRUE) :
        LET e == CHOOSE x \in t.events : TRUE
            there == StreamThere(StreamOf(e))
            access == allowed \/ signals[e[1]].type = "verification"
        IN
        /\ queue' = queue (-) SetToBag({t})
        /\ IF there /\ access
             THEN work' = [work EXCEPT ![w] = [at |-> "create", task |-> t]]
             ELSE UNCHANGED work
        /\ refused' = IF access THEN refused ELSE refused \cup {e}
        /\ UNCHANGED <<stream, requests, allowed, signals, stored, lapsed, pushed, recreated,
                       deaths>>

\* Variant: an event that is already stored is taken as it is.
CreateOrTake(w) ==
    LET e == AtHand(w) IN
    /\ work[w].at = "create"
    /\ IF StreamThere(StreamOf(e))
         THEN /\ stored' = [stored EXCEPT ![e] = IF @ = "none" THEN "pending_new" ELSE @]
              /\ IF stored[e] = "sent" THEN Ended(w) ELSE Continue(w, "push")
              /\ UNCHANGED queue
         ELSE Raised(w) /\ UNCHANGED stored
    /\ UNCHANGED <<stream, requests, allowed, refused, signals, lapsed, pushed, recreated, deaths>>

\* StreamEvent.objects.create, which the database refuses for an identifier that is already
\* stored and for a stream that is gone;
CreateEvent(w) ==
    LET e == AtHand(w) IN
    /\ work[w].at = "create"
    /\ IF stored[e] \in {"none", "cleaned"} /\ StreamThere(StreamOf(e))
         THEN /\ stored' = [stored EXCEPT ![e] = "pending_new"]
              /\ recreated' = IF stored[e] = "cleaned" THEN recreated \cup {e} ELSE recreated
              /\ Continue(w, "push") /\ UNCHANGED queue
         ELSE Raised(w) /\ UNCHANGED <<stored, recreated>>
    /\ UNCHANGED <<stream, requests, allowed, refused, signals, lapsed, pushed, deaths>>

\* the POST, which needs the row of the stream: answered, or failed, perhaps after it arrived;
Push(w) ==
    LET e == AtHand(w)
        arrives == pushed' = [pushed EXCEPT ![e] = @ + 1]
    IN
    /\ work[w].at = "push"
    /\ \/ ~ StreamThere(StreamOf(e)) /\ Raised(w) /\ UNCHANGED pushed
       \/ /\ StreamThere(StreamOf(e)) /\ UNCHANGED queue
          /\ \/ arrives /\ Continue(w, "answered")
             \/ (arrives \/ UNCHANGED pushed) /\ Continue(w, "failed")
    /\ UNCHANGED <<stream, requests, allowed, refused, signals, stored, lapsed, recreated, deaths>>

\* and event.save with the outcome; after a failure the event expires later.  Without its stream
\* the row cannot be stored.
SaveOutcome(w) ==
    LET e == AtHand(w) IN
    /\ work[w].at \in {"answered", "failed"}
    /\ IF StreamThere(StreamOf(e))
         THEN /\ stored' = [stored EXCEPT ![e] = IF work[w].at = "answered" THEN "sent"
                                                 ELSE "pending_failed"]
              /\ lapsed' = IF work[w].at = "failed" THEN lapsed \ {e} ELSE lapsed
              /\ Ended(w) /\ UNCHANGED queue
         ELSE Raised(w) /\ UNCHANGED <<stored, lapsed>>
    /\ UNCHANGED <<stream, requests, allowed, refused, signals, pushed, recreated, deaths>>

\* A worker dies; of a dispatch some tasks may have been sent.
WorkerDies(w) ==
    LET t == work[w].task IN
    /\ work[w].at # "idle" /\ Len(deaths) < MaxDeaths
    /\ \E sent \in IF t.send THEN {{}} ELSE SUBSET DispatchSends(w) :
         queue' = (queue (+) SetToBag(sent)) (+) SetToBag({t})
    /\ deaths' = Append(deaths, t.events)
    /\ Ended(w)
    /\ UNCHANGED <<stream, requests, allowed, refused, signals, stored, lapsed, pushed, recreated>>

------------------------------------------------------------------------------
(* Expiry *)

Expire(e) ==
    /\ stored[e] \notin {"none", "cleaned"} /\ e \notin lapsed
    /\ lapsed' = lapsed \cup {e}
    /\ UNCHANGED <<stream, requests, allowed, refused, signals, queue, work, stored, pushed,
                   recreated, deaths>>

\* Variant: the ExpiringModel's own expire_action.
ExpireAll(e) == TRUE

\* StreamEvent.expire_action: only events that were sent are deleted,
ExpireAction(e) == stored[e] = "sent"

\* by clean_expired_models.
CleanExpired ==
    LET gone == {e \in lapsed : ExpireAction(e)} IN
    /\ gone # {}
    /\ stored' = [e \in SetEvents |-> IF e \in gone THEN "cleaned" ELSE stored[e]]
    /\ lapsed' = lapsed \ gone
    /\ UNCHANGED <<stream, requests, allowed, refused, signals, queue, work, pushed, recreated,
                   deaths>>

------------------------------------------------------------------------------
SignalNext ==
    \/ \E s \in Streams : Subscribe(s)
    \/ Unsubscribe \/ UserSignal \/ Forbid \/ CleanExpired
    \/ \E e \in SetEvents : Expire(e)
    \/ \E w \in SignalWorkers :
         \/ DispatchEvents(w) \/ DispatchDone(w) \/ BeginSend(w) \/ CreateEvent(w)
         \/ Push(w) \/ SaveOutcome(w) \/ WorkerDies(w)

SignalSpec == SignalInit /\ [][SignalNext]_signalVars

------------------------------------------------------------------------------
\* The rows, tasks and counters are of the shapes above.
SignalTypeOK ==
    /\ stream \in [Streams -> {"none", "there", "gone"}] /\ requests \subseteq Streams
    /\ signals \in Seq([type : {"verification", "user"}, to : SUBSET Streams]) /\ IsABag(queue)
    /\ stored \in [SetEvents -> {"none", "pending_new", "pending_failed", "sent", "cleaned"}]
    /\ lapsed \subseteq SetEvents /\ pushed \in [SetEvents -> Nat]

\* send_ssf_event: although dispatch and send tasks may run twice, an event is pushed to its
\* receiver once, unless its row was cleaned up before the second run.
PushedOnce == \A e \in SetEvents \ recreated : pushed[e] <= 1

Resting == queue = EmptyBag /\ \A w \in SignalWorkers : work[w].at = "idle"

\* send_ssf_events to expire_action: once all tasks have ended, every event of a stream still
\* there is stored as sent or as failed, or was pushed and cleaned up, unless the user had no
\* access; one that was never tried is stored as new and its worker had died.
Accounted ==
    Resting =>
        \A n \in DOMAIN signals : \A s \in signals[n].to :
            LET e == <<n, s>> IN
            /\ stored[e] \in {"sent", "cleaned"} => pushed[e] > 0
            /\ StreamThere(s) /\ e \notin refused =>
                 stored[e] \in {"pending_failed", "sent", "cleaned"} \/
                    (stored[e] = "pending_new" /\ \E i \in DOMAIN deaths : e \in deaths[i])
=============================================================================
