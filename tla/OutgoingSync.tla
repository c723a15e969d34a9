------------------------------ MODULE OutgoingSync ------------------------------
(* Outgoing synchronisation (authentik/lib/sync/outgoing) with the SCIM client
   (authentik/providers/scim/clients): local users and the members of one group
   are pushed to a remote system.

   A save, a deletion or a change of membership queues a dispatch task, which
   queues a task for the provider; the schedule queues full synchronisations,
   whose pages are tasks as well.  Worker threads run the tasks.  A step of a
   thread is one database statement or one request to the remote system, so
   everything a task has read may be out of date when it is used.

   The remote system gives out ids, never twice; it refuses a second user with
   the same userName (409) and answers 404 for a user id it does not know. *)
EXTENDS Integers, FiniteSets, Sequences, SequencesExt, TLC

CONSTANTS
    Users,       \* the primary keys of users, an interval 1..n
    Workers,     \* worker threads
    Configs,     \* what /ServiceProviderConfig may answer: [patch, filter]
    PageSize,    \* objects in one page of a full synchronisation
    None,
    MaxChanges,  \* bound on local changes
    MaxFaults,   \* bound on failed requests, timeouts, dead threads, remote losses
    MaxEvents,   \* bound on local changes and faults together
    MaxIds,      \* bound on the ids the remote gives out
    Keys,        \* primary keys of connections: random, so in no order of time
    MaxSyncs     \* bound on full synchronisations waiting in the queue

ASSUME SyncConstants ==
    /\ Users = 1 .. Cardinality(Users)
    /\ PageSize \in Nat \ {0}
    /\ Configs \subseteq [patch : BOOLEAN, filter : BOOLEAN]

VARIABLES
    config,     \* the remote's capabilities
    user,       \* user -> 0 before it is created, its version, None once deleted
    members,    \* the users of the group
    conns,      \* SCIMProviderUser rows
    gconns,     \* SCIMProviderGroup rows
    remote,     \* remote id -> the user and the version it holds
    rgroups,    \* remote id -> the remote ids of its members
    lastId,     \* the last id the remote gave out
    queue,      \* task -> how many such tasks wait
    job,        \* worker -> the task it runs and what the task has read
    lock,       \* the worker holding the provider's sync_lock, or None
    changes, faults,
    overlapped, \* history: users two tasks wrote at the same time
    lost        \* history: the remote lost an object on its own

local == <<user, members>>
rows == <<conns, gconns>>
there == <<remote, rgroups, lastId>>
history == <<overlapped, lost>>
vars == <<config, local, rows, there, queue, job, lock, changes, faults, history>>

Group == 0                      \* the group, where a task names an object
Objects == Users \cup {Group}
Ids == 1 .. MaxIds

Task(kind, obj, op, run) == [kind |-> kind, obj |-> obj, op |-> op, run |-> run]

Tasks ==
    {Task(k, o, op, None) : k \in {"dispatch", "direct"}, o \in Objects, op \in {"add", "remove"}}
    \cup {Task(k, u, op, None) : k \in {"dispatch_m2m", "m2m"}, u \in Users, op \in {"add", "remove"}}
    \cup {Task("sync", 0, None, None)}
    \cup {Task(k, p, None, run) : k \in {"users", "groups"}, p \in Users, run \in Workers \cup {None}}

Idle == [pc |-> "idle", task |-> None, rest |-> << >>, conn |-> None, ids |-> {}, gone |-> {}]

Exists(o) == IF o = Group THEN TRUE ELSE user[o] \notin {None, 0}

Init ==
    /\ config \in Configs
    /\ user = [u \in Users |-> 0] /\ members = {}
    /\ conns = {} /\ gconns = {}
    /\ remote = << >> /\ rgroups = << >> /\ lastId = 0
    /\ queue = [t \in Tasks |-> 0]
    /\ job = [w \in Workers |-> Idle]
    /\ lock = None /\ changes = 0 /\ faults = 0
    /\ overlapped = {} /\ lost = FALSE

-----------------------------------------------------------------------------
(* Local changes and the signals they send. *)

Send(t) == queue' = [queue EXCEPT ![t] = @ + 1]

Change ==
    /\ changes < MaxChanges /\ changes + faults < MaxEvents
    /\ changes' = changes + 1
    /\ UNCHANGED <<config, gconns, there, job, lock, faults, history>>

\* A user is created or changed: post_save.
SaveUser(u) ==
    /\ user[u] # None
    /\ Change
    /\ user' = [user EXCEPT ![u] = @ + 1]
    /\ Send(Task("dispatch", u, "add", None))
    /\ UNCHANGED <<members, conns>>

\* The group is saved: post_save.
SaveGroup ==
    /\ Change
    /\ Send(Task("dispatch", Group, "add", None))
    /\ UNCHANGED <<local, conns>>

(* A user is deleted.  pre_delete queues its task inside the transaction of the
   deletion, so the task becomes visible when the user, its memberships and its
   connections are gone. *)
DeleteUser(u) ==
    /\ Exists(u)
    /\ Change
    /\ user' = [user EXCEPT ![u] = None]
    /\ members' = members \ {u}
    /\ conns' = {c \in conns : c.user # u}
    /\ Send(Task("dispatch", u, "remove", None))

\* A user enters or leaves the group: m2m_changed with post_add or post_remove.
ChangeMember(u) ==
    /\ Exists(u)
    /\ Change
    /\ members' = IF u \in members THEN members \ {u} ELSE members \cup {u}
    /\ Send(Task("dispatch_m2m", u, IF u \in members THEN "remove" ELSE "add", None))
    /\ UNCHANGED <<user, conns>>

-----------------------------------------------------------------------------
(* Tasks begin and fail. *)

Set(w, j) == job' = [job EXCEPT ![w] = j]

Take(w, t) == job[w].pc = "idle" /\ queue[t] > 0

At(w, pc) == job[w].pc = pc

\* Frame of a step that sends no request.
Here == UNCHANGED <<config, local, there, changes>>

\* The next object of the page, or the end of the task.
Next1(j) ==
    IF Len(j.rest) <= 1 THEN Idle
    ELSE [Idle EXCEPT !.pc = "lookup", !.task = j.task, !.rest = Tail(j.rest)]

IsPage(t) == t.kind \in {"users", "groups"}

Untag(t, run) == IF t # None /\ t.run = run THEN [t EXCEPT !.run = None] ELSE t

(* The wait of the full synchronisation on worker v raises: it lets go of the
   lock, and nobody waits for its pages any more.  q and js are the queue and
   the jobs that the rest of the step leaves. *)
EndSync(v, q, js) ==
    /\ queue' = [t \in Tasks |->
                   IF ~ IsPage(t) THEN q[t]
                   ELSE IF t.run = v THEN 0
                   ELSE IF t.run = None THEN q[t] + q[[t EXCEPT !.run = v]]
                   ELSE q[t]]
    /\ job' = [x \in Workers |-> IF x = v THEN Idle
                                  ELSE [js[x] EXCEPT !.task = Untag(@, v)]]
    /\ lock' = None

\* A task is given up; for a page, so is the synchronisation that waits for it.
GiveUp(t, q, js) ==
    IF t.run = None THEN queue' = q /\ job' = js /\ UNCHANGED lock
    ELSE EndSync(t.run, q, js)

(* The task of worker w raises.  A page goes on with its next object when the
   error is transient; otherwise the task is retried or given up. *)
Raise(w, transient) ==
    LET t == job[w].task
        idle == [job EXCEPT ![w] = Idle]
    IN \/ /\ transient /\ IsPage(t)
          /\ Set(w, Next1(job[w])) /\ UNCHANGED <<queue, lock>>
       \/ /\ ~ (transient /\ IsPage(t))
          /\ Send(t) /\ job' = idle /\ UNCHANGED lock
       \/ /\ ~ (transient /\ IsPage(t))
          /\ GiveUp(t, queue, idle)

\* sync_signal_direct_dispatch and sync_signal_m2m_dispatch: one task a provider.
Dispatch(w) == \E t \in Tasks :
    /\ Take(w, t)
    /\ t.kind \in {"dispatch", "dispatch_m2m"}
    /\ LET next == [t EXCEPT !.kind = IF @ = "dispatch" THEN "direct" ELSE "m2m"]
       IN queue' = [queue EXCEPT ![t] = @ - 1, ![next] = @ + 1]
    /\ Here /\ UNCHANGED <<rows, job, lock, faults, history>>

Instance(o) == [obj |-> o, ver |-> IF o = Group THEN 0 ELSE user[o]]

\* Another thread is writing the same user: what either has read may be stale.
Overlap(w, js) ==
    overlapped \cup {u \in Users : \E v \in Workers \ {w} :
        /\ \E i \in DOMAIN js[w].rest : js[w].rest[i].obj = u
        /\ \E i \in DOMAIN js[v].rest : js[v].rest[i].obj = u}

Start(w, t, objs) ==
    /\ queue' = [queue EXCEPT ![t] = @ - 1]
    /\ Set(w, IF objs = << >> THEN Idle
              ELSE [Idle EXCEPT !.pc = "lookup", !.task = t, !.rest = objs])
    /\ overlapped' = Overlap(w, job')
    /\ Here /\ UNCHANGED <<rows, lock, faults, lost>>

(* sync_signal_direct: the task ends when the instance is gone, which it always
   is when the operation is a removal. *)
RunDirect(w) == \E t \in Tasks :
    /\ Take(w, t) /\ t.kind = "direct"
    /\ Start(w, t, IF Exists(t.obj) THEN <<Instance(t.obj)>> ELSE << >>)

\* get_object_qs(User), ordered by primary key.
Queryset == SetToSortSeq({u \in Users : Exists(u)}, <)

NumPages == (Len(Queryset) + PageSize - 1) \div PageSize

\* The objects of a page as the queryset is now; a page past its end raises.
Page(p) ==
    LET from == (p - 1) * PageSize + 1
    IN SubSeq(Queryset, from, IF from + PageSize - 1 < Len(Queryset)
                              THEN from + PageSize - 1 ELSE Len(Queryset))

RunPage(w) == \E t \in Tasks :
    /\ Take(w, t) /\ IsPage(t)
    /\ IF t.kind = "users" /\ t.obj > 1 /\ t.obj > NumPages
       THEN /\ GiveUp(t, [queue EXCEPT ![t] = @ - 1], job)
            /\ Here /\ UNCHANGED <<rows, faults, history>>
       ELSE Start(w, t, IF t.kind = "groups" THEN <<Instance(Group)>>
                        ELSE [i \in DOMAIN Page(t.obj) |-> Instance(Page(t.obj)[i])])

First(cs) == CHOOSE c \in cs : \A d \in cs : c.pk <= d.pk

\* The remote ids the connections give for some users.
IdsOf(us) == {c.id : c \in {d \in conns : d.user \in us}}

(* sync_signal_m2m: with PATCH only the change is sent, otherwise the group is
   written; nothing is done for a group that is not connected yet. *)
RunM2M(w) == \E t \in Tasks :
    /\ Take(w, t) /\ t.kind = "m2m"
    /\ IF config.patch /\ gconns # {} /\ IdsOf({t.obj}) # {}
       THEN /\ queue' = [queue EXCEPT ![t] = @ - 1]
            /\ Set(w, [Idle EXCEPT !.pc = "patch", !.task = t, !.conn = First(gconns),
                         !.ids = IF t.op = "add" THEN IdsOf({t.obj}) ELSE {},
                         !.gone = IF t.op = "add" THEN {} ELSE IdsOf({t.obj})])
            /\ Here /\ UNCHANGED <<rows, lock, faults, history>>
       ELSE Start(w, t, IF config.patch \/ gconns = {} THEN << >> ELSE <<Instance(Group)>>)

-----------------------------------------------------------------------------
(* BaseOutgoingSyncClient.write of the first object of job[w].rest. *)

obj(w) == job[w].rest[1]

ConnsOf(o) == IF o = Group THEN gconns ELSE {c \in conns : c.user = o}

SetConns(o, cs) ==
    IF o = Group THEN gconns' = cs /\ UNCHANGED conns
    ELSE conns' = (conns \ ConnsOf(o)) \cup cs /\ UNCHANGED gconns

\* The connection is looked up.
Lookup(w) ==
    /\ At(w, "lookup")
    /\ LET cs == ConnsOf(obj(w).obj)
       IN Set(w, IF cs = {} THEN [job[w] EXCEPT !.pc = "post"]
                 ELSE [job[w] EXCEPT !.pc = "put", !.conn = First(cs)])
    /\ Here /\ UNCHANGED <<rows, queue, lock, faults, history>>

\* Mutant: an id the remote does not know is an error like any other.
PutNeverRecreates(w) ==
    /\ At(w, "put")
    /\ LET o == obj(w).obj
           id == job[w].conn.id
       IN \/ /\ o = Group
             /\ rgroups' = IF config.patch THEN rgroups
                           ELSE [rgroups EXCEPT ![id] = IdsOf(members)]
             /\ Set(w, [job[w] EXCEPT !.pc = "compare"])
             /\ UNCHANGED <<remote, queue, lock>>
          \/ /\ o # Group /\ id \in DOMAIN remote
             /\ remote' = [remote EXCEPT ![id].ver = obj(w).ver]
             /\ Set(w, [job[w] EXCEPT !.pc = "save"])
             /\ UNCHANGED <<rgroups, queue, lock>>
          \/ /\ o # Group /\ id \notin DOMAIN remote
             /\ Raise(w, TRUE)
             /\ UNCHANGED <<remote, rgroups>>
    /\ UNCHANGED <<config, local, rows, lastId, changes, faults, history>>

(* update: the whole object is sent.  The remote does not know the id: the
   connection is deleted and the object is created again.  The group is patched,
   or replaced with its members, and then its members are compared. *)
Put(w) ==
    /\ At(w, "put")
    /\ LET o == obj(w).obj
           id == job[w].conn.id
       IN \/ /\ o = Group
             /\ rgroups' = IF config.patch THEN rgroups
                           ELSE [rgroups EXCEPT ![id] = IdsOf(members)]
             /\ Set(w, [job[w] EXCEPT !.pc = "compare"])
             /\ UNCHANGED <<rows, remote>>
          \/ /\ o # Group /\ id \in DOMAIN remote
             /\ remote' = [remote EXCEPT ![id].ver = obj(w).ver]
             /\ Set(w, [job[w] EXCEPT !.pc = "save"])
             /\ UNCHANGED <<rows, rgroups>>
          \/ /\ o # Group /\ id \notin DOMAIN remote
             /\ conns' = {c \in conns : c.user # o \/ c.pk # job[w].conn.pk}
             /\ Set(w, [job[w] EXCEPT !.pc = "post"])
             /\ UNCHANGED <<gconns, remote, rgroups>>
    /\ UNCHANGED <<config, local, lastId, queue, lock, changes, faults, history>>

(* connection.save() after an update.  A row another task deleted is inserted
   again; when the user is gone or the id is connected anew that fails, and
   write drops the connection it holds. *)
SaveConnection(w) ==
    /\ At(w, "save")
    /\ LET o == obj(w).obj
           ok == Exists(o) /\ \A c \in ConnsOf(o) : c.id = job[w].conn.id => c = job[w].conn
       IN conns' = IF ok THEN conns \cup {job[w].conn} ELSE conns
    /\ Set(w, Next1(job[w]))
    /\ Here /\ UNCHANGED <<gconns, queue, lock, faults, history>>

Taken(o) == {i \in DOMAIN remote : remote[i].owner = o}

(* create.  A user the remote already has is found by its userName, if the
   remote can search, and connected as it is. *)
Post(w) ==
    /\ At(w, "post")
    /\ LET o == obj(w).obj
       IN IF o # Group /\ Taken(o) # {}
          THEN /\ UNCHANGED there
               /\ IF config.filter
                  THEN /\ Set(w, [job[w] EXCEPT !.pc = "link",
                                    !.ids = {CHOOSE i \in Taken(o) : TRUE}])
                       /\ UNCHANGED <<queue, lock>>
                  ELSE Raise(w, FALSE)
          ELSE /\ lastId < MaxIds
               /\ lastId' = lastId + 1
               /\ IF o # Group
                  THEN remote' = (lastId + 1 :> [owner |-> o, ver |-> obj(w).ver]) @@ remote
                       /\ UNCHANGED rgroups
                  ELSE rgroups' = (lastId + 1 :> IF config.patch THEN {} ELSE IdsOf(members)) @@ rgroups
                       /\ UNCHANGED remote
               /\ Set(w, [job[w] EXCEPT !.pc = "link", !.ids = {lastId + 1}])
               /\ UNCHANGED <<queue, lock>>
    /\ UNCHANGED <<config, local, rows, changes, faults, history>>

\* Mutant: connections are not unique in user and id.
LinkAgain(w) ==
    /\ At(w, "link")
    /\ LET o == obj(w).obj
           id == CHOOSE i \in job[w].ids : TRUE
           cs == ConnsOf(o)
           ok == Exists(o)
       IN \/ /\ ok
             /\ \E pk \in Keys \ {c.pk : c \in cs} :
                  /\ SetConns(o, cs \cup {[pk |-> pk, user |-> o, id |-> id]})
                  /\ Set(w, IF o # Group THEN Next1(job[w])
                            ELSE [job[w] EXCEPT !.pc = "fill",
                                    !.conn = [pk |-> pk, user |-> o, id |-> id]])
             /\ UNCHANGED <<queue, lock>>
          \/ /\ ~ ok /\ UNCHANGED rows
             /\ IF job[w].conn = None THEN Set(w, Next1(job[w])) /\ UNCHANGED <<queue, lock>>
                ELSE Raise(w, FALSE)
    /\ Here /\ UNCHANGED <<faults, history>>

(* The connection row is created, its random key anywhere among the others.
   It is unique in id and user; the user may be gone.  write swallows the error,
   unless it has already deleted a connection: deleting that one again raises. *)
Link(w) ==
    /\ At(w, "link")
    /\ LET o == obj(w).obj
           id == CHOOSE i \in job[w].ids : TRUE
           cs == ConnsOf(o)
           ok == Exists(o) /\ \A c \in cs : c.id # id
       IN \/ /\ ok
             /\ \E pk \in Keys \ {c.pk : c \in cs} :
                  /\ SetConns(o, cs \cup {[pk |-> pk, user |-> o, id |-> id]})
                  /\ Set(w, IF o # Group THEN Next1(job[w])
                            ELSE [job[w] EXCEPT !.pc = "fill",
                                    !.conn = [pk |-> pk, user |-> o, id |-> id]])
             /\ UNCHANGED <<queue, lock>>
          \/ /\ ~ ok /\ UNCHANGED rows
             /\ IF job[w].conn = None THEN Set(w, Next1(job[w])) /\ UNCHANGED <<queue, lock>>
                ELSE Raise(w, FALSE)
    /\ Here /\ UNCHANGED <<faults, history>>

-----------------------------------------------------------------------------
(* The members of the remote group. *)

\* After the group is created its members are read and added.
Fill(w) ==
    /\ At(w, "fill")
    /\ Set(w, IF IdsOf(members) = {} THEN Next1(job[w])
              ELSE [job[w] EXCEPT !.pc = "patch", !.ids = IdsOf(members)])
    /\ Here /\ UNCHANGED <<rows, queue, lock, faults, history>>

\* patch_compare_users: the members there should be ...
Compare(w) ==
    /\ At(w, "compare")
    /\ Set(w, [job[w] EXCEPT !.pc = "get", !.conn = First(gconns), !.ids = IdsOf(members)])
    /\ Here /\ UNCHANGED <<rows, queue, lock, faults, history>>

\* ... and the ones the remote has.
Get(w) ==
    /\ At(w, "get")
    /\ LET has == rgroups[job[w].conn.id]
           add == job[w].ids \ has
           gone == has \ job[w].ids
       IN Set(w, IF add \cup gone = {} THEN Next1(job[w])
                 ELSE [job[w] EXCEPT !.pc = "patch", !.ids = add, !.gone = gone])
    /\ Here /\ UNCHANGED <<rows, queue, lock, faults, history>>

\* The PATCH that adds and removes members.
Patch(w) ==
    /\ At(w, "patch")
    /\ rgroups' = [rgroups EXCEPT ![job[w].conn.id] = (@ \cup job[w].ids) \ job[w].gone]
    /\ Set(w, Next1(job[w]))
    /\ UNCHANGED <<config, local, rows, remote, lastId, queue, lock, changes, faults, history>>

-----------------------------------------------------------------------------
(* Full synchronisation. *)

\* The schedule of the provider is due.
Schedule ==
    /\ queue[Task("sync", 0, None, None)] < MaxSyncs
    /\ Send(Task("sync", 0, None, None))
    /\ Here /\ UNCHANGED <<rows, job, lock, faults, history>>

\* SyncTasks.sync: skipped while another one runs; otherwise it sends the pages of users ...
RunSync(w) ==
    LET t == Task("sync", 0, None, None)
        pages == {Task("users", p, None, w) : p \in {1} \cup 1 .. NumPages}
    IN /\ Take(w, t)
       /\ IF lock # None
          THEN queue' = [queue EXCEPT ![t] = @ - 1] /\ UNCHANGED <<job, lock>>
          ELSE /\ queue' = [x \in Tasks |-> IF x = t THEN queue[x] - 1
                                            ELSE IF x \in pages THEN queue[x] + 1 ELSE queue[x]]
               /\ Set(w, [Idle EXCEPT !.pc = "wait_users", !.task = t])
               /\ lock' = w
       /\ Here /\ UNCHANGED <<rows, faults, history>>

Pending(w) ==
    \/ \E t \in Tasks : IsPage(t) /\ t.run = w /\ queue[t] > 0
    \/ \E v \in Workers : job[v].task # None /\ IsPage(job[v].task) /\ job[v].task.run = w

\* ... waits for them, sends the page of groups ...
UsersDone(w) ==
    /\ At(w, "wait_users") /\ ~ Pending(w)
    /\ Send(Task("groups", 1, None, w))
    /\ Set(w, [job[w] EXCEPT !.pc = "wait_groups"])
    /\ Here /\ UNCHANGED <<rows, lock, faults, history>>

\* ... and waits for it.
GroupsDone(w) ==
    /\ At(w, "wait_groups") /\ ~ Pending(w)
    /\ Set(w, Idle)
    /\ lock' = None
    /\ Here /\ UNCHANGED <<rows, queue, faults, history>>

-----------------------------------------------------------------------------
(* Faults. *)

Fault == faults < MaxFaults /\ changes + faults < MaxEvents /\ faults' = faults + 1

\* The wait for the pages times out.
WaitTimeout(w) ==
    /\ job[w].pc \in {"wait_users", "wait_groups"}
    /\ Fault
    /\ EndSync(w, queue, job)
    /\ Here /\ UNCHANGED <<rows, history>>

(* A request fails with a transient error; in "save" and "link" the remote has
   served it and the answer is lost. *)
RequestFails(w) ==
    /\ job[w].pc \in {"put", "post", "get", "patch", "save", "link"}
    /\ Fault
    /\ Raise(w, TRUE)
    /\ Here /\ UNCHANGED <<rows, history>>

\* The worker process dies; the broker gives the task to another one.
WorkerDies(w) ==
    /\ job[w].pc # "idle"
    /\ Fault
    /\ LET q == [queue EXCEPT ![job[w].task] = @ + 1]
           js == [job EXCEPT ![w] = Idle]
       IN IF lock = w THEN EndSync(w, q, js) ELSE queue' = q /\ job' = js /\ UNCHANGED lock
    /\ Here /\ UNCHANGED <<rows, history>>

\* An administrator of the remote deletes a user there.
RemoteLoses(id) ==
    /\ id \in DOMAIN remote
    /\ Fault
    /\ remote' = [i \in DOMAIN remote \ {id} |-> remote[i]]
    /\ rgroups' = [g \in DOMAIN rgroups |-> rgroups[g] \ {id}]
    /\ lost' = TRUE
    /\ UNCHANGED <<config, local, rows, lastId, queue, job, lock, changes, overlapped>>

-----------------------------------------------------------------------------
LocalChange ==
    \/ \E u \in Users : SaveUser(u) \/ DeleteUser(u) \/ ChangeMember(u)
    \/ SaveGroup

Begin(w) == Dispatch(w) \/ RunDirect(w) \/ RunM2M(w) \/ RunPage(w)

Go(w) ==
    \/ Lookup(w) \/ Put(w) \/ SaveConnection(w) \/ Post(w) \/ Link(w)
    \/ Fill(w) \/ Compare(w) \/ Get(w) \/ Patch(w)
    \/ UsersDone(w) \/ GroupsDone(w)

Faulty ==
    \/ \E w \in Workers : WaitTimeout(w) \/ RequestFails(w) \/ WorkerDies(w)
    \/ \E id \in Ids : RemoteLoses(id)

Next ==
    \/ LocalChange \/ Schedule \/ Faulty
    \/ \E w \in Workers : Begin(w) \/ RunSync(w) \/ Go(w)

(* The schedule is always due again.  A thread goes on with its task.  The broker
   hands out the oldest waiting task first, so that no task is passed over for
   ever while threads become free. *)
Fairness ==
    /\ WF_vars(Schedule)
    /\ \A w \in Workers : WF_vars(Go(w))
    /\ SF_vars(\E w \in Workers : Begin(w))
    /\ SF_vars(\E w \in Workers : RunSync(w))

Spec == Init /\ [][Next]_vars /\ Fairness

-----------------------------------------------------------------------------
(* Properties. *)

\* Every variable has its type.
TypeOK ==
    /\ config \in Configs
    /\ user \in [Users -> (0 .. MaxChanges) \cup {None}]
    /\ members \subseteq {u \in Users : Exists(u)}
    /\ conns \subseteq [pk : Keys, user : {u \in Users : Exists(u)}, id : 1 .. lastId]
    /\ gconns \subseteq [pk : Keys, user : {Group}, id : DOMAIN rgroups]
    /\ \A i \in DOMAIN remote : remote[i] \in [owner : Users, ver : 1 .. MaxChanges]
    /\ lastId \in 0 .. MaxIds
    /\ DOMAIN remote \cap DOMAIN rgroups = {}
    /\ \A t \in Tasks : queue[t] \in Nat
    /\ lock \in Workers \cup {None}
    /\ \A w \in Workers : job[w].pc \in {"wait_users", "wait_groups"} <=> lock = w

(* write, with the unique constraint of SCIMProviderUser and the search after a
   409, keeps one connection per user whatever tasks overlap, fail or are run
   twice, as long as the remote loses nothing on its own. *)
OneConnection ==
    ~ lost => \A c, d \in conns : c.user = d.user => c = d

Current(u) ==
    \E c \in ConnsOf(u) : c.id \in DOMAIN remote /\ remote[c.id].ver = user[u]

Quiet ==
    /\ \A t \in Tasks : queue[t] = 0
    /\ \A w \in Workers : At(w, "idle")

(* The tasks of the signals alone keep a user current: when nothing is left to
   do, the remote holds the last version of every user that no two tasks wrote
   at the same time. *)
QuietCurrent ==
    Quiet /\ faults = 0 =>
        \A u \in Users : Exists(u) /\ u \notin overlapped => Current(u)

GroupCurrent ==
    /\ gconns # {}
    /\ LET there1 == {remote[i].owner : i \in rgroups[First(gconns).id] \cap DOMAIN remote}
       IN {u \in there1 : Exists(u)} = members

(* Full synchronisation repairs: once local changes and faults have stopped, the
   remote comes to hold the last version of every user and the members of the
   group, and keeps them, even after writes out of order, lost answers, dead
   workers and remote losses.  The remote must be able to search by userName. *)
Converges ==
    config.filter => <>[](GroupCurrent /\ \A u \in Users : Exists(u) => Current(u))

(* "Delete object from destination" (BaseOutgoingSyncClient.delete): when nothing
   is left to do, the remote has no user that was deleted here. *)
DeletedThere ==
    Quiet /\ faults = 0 => \A i \in DOMAIN remote : user[remote[i].owner] # None
=============================================================================
