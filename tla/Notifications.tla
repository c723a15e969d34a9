---------------------------- MODULE Notifications ----------------------------
(***************************************************************************)
(* What a saved event sets off (authentik/events): the signal queues a      *)
(* dispatch task, which queues a handler task per notification rule; the    *)
(* handler runs the policies of its rule on the event and queues a task per *)
(* transport and destination user; a transport saves a notification, posts  *)
(* to a webhook, or queues a mail, and a mail sent is an event again, as is *)
(* a policy that raised.  Deleting a user may queue the removal of the      *)
(* user's events.                                                           *)
(*                                                                          *)
(* The tasks are those of the task broker: any worker takes any of them, a  *)
(* task whose worker died runs again, one that raised is tried again until  *)
(* it is given up.  A rule has one policy, named like the rule; every rule  *)
(* has all the transports.                                                  *)
(***************************************************************************)
EXTENDS Naturals, Sequences, Bags

CONSTANTS
    Recipients,     \* users, numbered from 1
    Rules,          \* notification rules, numbered from 1
    Transports,     \* transports of the rules, numbered from 1
    NotifyWorkers,
    Setups,         \* the configurations, see `notifySetup'
    MaxEvents,      \* bound on the events ever saved
    MaxOccurring,   \* bound on those of them that requests save
    MaxRemovals,    \* bound on what administrators delete
    MaxFaults       \* bound on workers that die and deliveries that fail

VARIABLES
    notifySetup,    \* rules: what the policy does and whom to notify; mode, once of transports
    users,      \* User rows
    rules,      \* NotificationRule rows
    bound,      \* rules whose policy is still bound
    transports, \* NotificationTransport rows
    events,     \* the events ever saved
    todo,       \* bag of queued tasks
    job,        \* worker -> what it runs
    delivered,  \* <<event, transport, user>> delivered
    givenUp,    \* tasks given up
    removals, faults

notifyVars == <<notifySetup, users, rules, bound, transports, events, todo, job, delivered,
                givenUp, removals, faults>>

Kinds == {"request", "policy", "mail"}

Idle == [at |-> "idle", task |-> <<>>, user |-> 0, out |-> EmptyBag]

\* The tasks: a kind and its arguments.
Dispatch(e) == [kind |-> "dispatch", event |-> e, rule |-> 0, transport |-> 0, user |-> 0]
Handler(e, r) == [Dispatch(e) EXCEPT !.kind = "handler", !.rule = r]
Transport(e, r, t, u) ==
    [kind |-> "transport", event |-> e, rule |-> r, transport |-> t, user |-> u]
MailTask(e, t, u) == [Transport(e, 0, t, u) EXCEPT !.kind = "mail"]
Cleanup(u) == [Dispatch(0) EXCEPT !.kind = "cleanup", !.user = u]

One(task) == SetToBag({task})

NotifyInit ==
    /\ notifySetup \in Setups
    /\ users = Recipients /\ rules = Rules /\ bound = Rules /\ transports = Transports
    /\ events = <<>> /\ todo = EmptyBag
    /\ job = [w \in NotifyWorkers |-> Idle]
    /\ delivered = {} /\ givenUp = {} /\ removals = 0 /\ faults = 0

Objects == <<notifySetup, users, rules, bound, transports>>

\* Event.save and its signal: `user' is the user the event names (0 for none), `policy' the
\* policy_uuid of its context (0 for none), `cause' the event whose tasks saved it.
Save(kind, user, policy, cause, queue) ==
    /\ Len(events) < MaxEvents
    /\ events' = Append(events, [kind |-> kind, user |-> user, policy |-> policy,
                                 cause |-> cause, there |-> TRUE])
    /\ todo' = queue (+) One(Dispatch(Len(events) + 1))

\* A request is logged, of a user or of nobody.
Occur(u) ==
    /\ Len(SelectSeq(events, LAMBDA e : e.kind = "request")) < MaxOccurring
    /\ Save("request", u, 0, 0, todo)
    /\ UNCHANGED <<Objects, job, delivered, givenUp, removals, faults>>

------------------------------------------------------------------------------
(* Workers *)

Queued(w, kind) == {t \in BagToSet(todo) : job[w].at = "idle" /\ t.kind = kind}

TakeTask(w, t, at, user, out) ==
    /\ todo' = todo (-) One(t)
    /\ job' = [job EXCEPT ![w] = [at |-> at, task |-> t, user |-> user, out |-> out]]

Return(w, t) == todo' = todo (-) One(t) /\ UNCHANGED job
Free(w) == job' = [job EXCEPT ![w] = Idle]

\* event_trigger_dispatch: the rules there are; a handler task is sent for each of them.
RunDispatch(w) ==
    \E t \in Queued(w, "dispatch") :
        /\ TakeTask(w, t, "sending", 0, SetToBag({Handler(t.event, r) : r \in rules}))
        /\ UNCHANGED <<Objects, events, delivered, givenUp, removals, faults>>

\* Variant: only the rule's own policy is looked for.
OwnPolicy(e, r) == events[e].policy # 0 /\ events[e].policy = r /\ r \in bound

\* The event was saved by a policy bound to some rule.
FromRule(e, r) == events[e].policy # 0 /\ events[e].policy \in bound

\* event_trigger_handler up to the policy engine: the user of the event, or the anonymous one.
RunHandler(w) ==
    \E t \in Queued(w, "handler") :
        LET e == t.event IN
        /\ IF ~ events[e].there \/ t.rule \notin rules \/ FromRule(e, t.rule)
             THEN Return(w, t)
             ELSE TakeTask(w, t, "evaluate", IF events[e].user \in users THEN events[e].user ELSE 0,
                        EmptyBag)
        /\ UNCHANGED <<Objects, events, delivered, givenUp, removals, faults>>

\* destination_users: the user of the event, whether or not there still is one, then the group.
Destinations(e, r) ==
    LET rule == notifySetup.rule[r]
    IN  (IF rule.eventUser /\ events[e].user # 0 THEN <<events[e].user>> ELSE <<>>) \o
        SelectSeq(rule.group, LAMBDA u : u \in users)

\* Variant: the loop over the users is always left after the first.
FirstOnly(e, r, t) ==
    LET d == Destinations(e, r)
    IN  IF d = <<>> THEN EmptyBag ELSE One(Transport(e, r, t, d[1]))

\* The tasks for one transport: for the first user only if it is to send once.
ForTransport(e, r, t) ==
    LET d == Destinations(e, r)
        tasks == {Transport(e, r, t, d[i]) : i \in DOMAIN d}
    IN  IF d = <<>> THEN EmptyBag
        ELSE IF notifySetup.once[t] THEN One(Transport(e, r, t, d[1]))
        ELSE [x \in tasks |-> Len(SelectSeq(d, LAMBDA u : u = x.user))]

ForTransports(e, r) == BagUnion({ForTransport(e, r, t) : t \in transports})

\* The policy engine: a policy that raises saves an event and counts as the failure_result of
\* its binding; without a binding the result is False.
Evaluate(w) ==
    LET t == job[w].task
        rule == notifySetup.rule[t.rule]
        asked == t.rule \in bound
        passing == asked /\ IF rule.raises THEN rule.failure
                            ELSE events[t.event].kind \in rule.matches
    IN
    /\ job[w].at = "evaluate"
    /\ job' = [job EXCEPT ![w] = IF passing
                                   THEN [@ EXCEPT !.at = "sending",
                                                  !.out = ForTransports(t.event, t.rule)]
                                   ELSE Idle]
    /\ IF asked /\ rule.raises
         THEN Save("policy", job[w].user, t.rule, t.event, todo)
         ELSE UNCHANGED <<events, todo>>
    /\ UNCHANGED <<Objects, delivered, givenUp, removals, faults>>

\* The tasks are sent, one after the other,
Send(w) ==
    /\ job[w].at = "sending"
    /\ todo' = todo (+) job[w].out
    /\ Free(w)
    /\ UNCHANGED <<Objects, events, delivered, givenUp, removals, faults>>

\* or the worker dies, after some of them were, and the task runs again.
Die(w) ==
    /\ job[w].at # "idle" /\ faults < MaxFaults
    /\ \E sent \in SubBag(job[w].out) : todo' = (todo (+) sent) (+) One(job[w].task)
    /\ Free(w)
    /\ faults' = faults + 1
    /\ UNCHANGED <<Objects, events, delivered, givenUp, removals>>

\* notification_transport: nothing is done unless all it is about is still there.
RunTransport(w) ==
    \E t \in Queued(w, "transport") :
        /\ IF events[t.event].there /\ t.user \in users /\ t.rule \in rules
              /\ t.transport \in transports
             THEN TakeTask(w, t, "deliver", 0, EmptyBag)
             ELSE Return(w, t)
        /\ UNCHANGED <<Objects, events, delivered, givenUp, removals, faults>>

Deliver(t) == delivered' = delivered \cup {<<t.event, t.transport, t.user>>}

\* NotificationTransport.send: the row of a local notification needs the event and the user,
\* and a mail is discarded for a user without an address.
SendNotification(w) ==
    LET t == job[w].task
        mode == notifySetup.mode[t.transport]
    IN
    /\ job[w].at = "deliver"
    /\ CASE mode = "local" ->
              IF events[t.event].there /\ t.user \in users
                THEN Deliver(t) /\ UNCHANGED todo
                ELSE todo' = todo (+) One(t) /\ UNCHANGED delivered
         [] mode = "webhook" -> Deliver(t) /\ UNCHANGED todo
         [] mode = "email" ->
              IF t.user \in notifySetup.addresses
                THEN /\ todo' = todo (+) One(MailTask(t.event, t.transport, t.user))
                     /\ UNCHANGED delivered
                ELSE UNCHANGED <<todo, delivered>>
    /\ Free(w)
    /\ UNCHANGED <<Objects, events, givenUp, removals, faults>>

\* send_mail: once the mail is sent, an event without a user says so.
RunMail(w) ==
    \E t \in Queued(w, "mail") :
        /\ Save("mail", 0, 0, t.event, todo (-) One(t))
        /\ Deliver(t)
        /\ UNCHANGED <<Objects, job, givenUp, removals, faults>>

\* The webhook or the mail server fails: the task is tried again, or given up in the end.
Fail(w) ==
    /\ faults < MaxFaults
    /\ faults' = faults + 1
    /\ \/ /\ job[w].at = "deliver" /\ notifySetup.mode[job[w].task.transport] = "webhook"
          /\ Free(w)
          /\ \/ todo' = todo (+) One(job[w].task) /\ UNCHANGED givenUp
             \/ givenUp' = givenUp \cup {job[w].task} /\ UNCHANGED todo
       \/ \E t \in Queued(w, "mail") :
            todo' = todo (-) One(t) /\ givenUp' = givenUp \cup {t} /\ UNCHANGED job
    /\ UNCHANGED <<Objects, events, delivered, removals>>

\* gdpr_cleanup
RunCleanup(w) ==
    \E t \in Queued(w, "cleanup") :
        /\ Return(w, t)
        /\ events' = [e \in DOMAIN events |->
                        IF events[e].user = t.user THEN [events[e] EXCEPT !.there = FALSE]
                                                   ELSE events[e]]
        /\ UNCHANGED <<Objects, delivered, givenUp, removals, faults>>

------------------------------------------------------------------------------
(* Administrators *)

Removal ==
    /\ removals < MaxRemovals
    /\ removals' = removals + 1
    /\ UNCHANGED <<notifySetup, events, job, delivered, givenUp, faults>>

\* The removal of the user's events is queued in the transaction that deletes the user.
DeleteUser(u) ==
    /\ u \in users /\ users' = users \ {u}
    /\ todo' = IF notifySetup.gdpr THEN todo (+) One(Cleanup(u)) ELSE todo
    /\ Removal /\ UNCHANGED <<rules, bound, transports>>

\* A rule is deleted with its bindings,
DeleteRule(r) ==
    /\ r \in rules /\ rules' = rules \ {r} /\ bound' = bound \ {r}
    /\ Removal /\ UNCHANGED <<users, transports, todo>>

\* or loses its policy.
Unbind(r) ==
    /\ r \in bound /\ bound' = bound \ {r}
    /\ Removal /\ UNCHANGED <<users, rules, transports, todo>>

DeleteTransport(t) ==
    /\ t \in transports /\ transports' = transports \ {t}
    /\ Removal /\ UNCHANGED <<users, rules, bound, todo>>

------------------------------------------------------------------------------
NotifyNext ==
    \/ \E u \in users \cup {0} : Occur(u)
    \/ \E w \in NotifyWorkers :
         \/ RunDispatch(w) \/ RunHandler(w) \/ Evaluate(w) \/ Send(w)
         \/ RunTransport(w) \/ SendNotification(w) \/ RunMail(w) \/ RunCleanup(w)
         \/ Die(w) \/ Fail(w)
    \/ \E u \in Recipients : DeleteUser(u)
    \/ \E r \in Rules : DeleteRule(r) \/ Unbind(r)
    \/ \E t \in Transports : DeleteTransport(t)

NotifySpec == NotifyInit /\ [][NotifyNext]_notifyVars

------------------------------------------------------------------------------
\* The rows, the events and what the workers run are of the shapes above.
NotifyTypeOK ==
    /\ notifySetup \in Setups /\ users \subseteq Recipients /\ bound \subseteq rules
    /\ rules \subseteq Rules /\ transports \subseteq Transports
    /\ events \in Seq([kind : Kinds, user : Recipients \cup {0}, policy : Rules \cup {0},
                       cause : 0 .. MaxEvents, there : BOOLEAN])
    /\ IsABag(todo)
    /\ \A w \in NotifyWorkers : job[w].at \in {"idle", "evaluate", "sending", "deliver"}

\* The loop prevention of event_trigger_handler: while the policies of rules that saved events
\* are bound, handling those events makes no policy save another one, whichever rule handles
\* them, however often the tasks are repeated.
LoopStopped ==
    \A e \in DOMAIN events :
        LET cause == events[e].cause IN
        events[e].kind = "policy" /\ events[cause].kind = "policy"
            => events[cause].policy \notin bound

Quiet == todo = EmptyBag /\ \A w \in NotifyWorkers : job[w].at = "idle"

Matching(e, r) ==
    /\ events[e].there /\ events[e].policy = 0 /\ r \in bound
    /\ IF notifySetup.rule[r].raises THEN notifySetup.rule[r].failure
       ELSE events[e].kind \in notifySetup.rule[r].matches

\* A delivery that is not owed: the user is gone, has no address, or the task was given up.
Excused(e, t, u) ==
    \/ u \notin users
    \/ notifySetup.mode[t] = "email" /\ u \notin notifySetup.addresses
    \/ \E x \in givenUp : x.event = e /\ x.transport = t /\ x.user = u

\* event_trigger_dispatch to NotificationTransport.send: once all tasks have ended, every event,
\* other than of a policy, that a rule still matches has reached all the users the rule names
\* on every transport still there, or one of them where the transport sends once and no user
\* was deleted.
AllNotified ==
    Quiet =>
        \A e \in DOMAIN events, r \in rules, t \in transports :
            LET owed == DOMAIN Destinations(e, r)
                ok(i) == LET u == Destinations(e, r)[i]
                         IN  <<e, t, u>> \in delivered \/ Excused(e, t, u)
            IN  Matching(e, r) =>
                    IF notifySetup.once[t]
                      THEN owed # {} /\ users = Recipients => \E i \in owed : ok(i)
                      ELSE \A i \in owed : ok(i)
=============================================================================
