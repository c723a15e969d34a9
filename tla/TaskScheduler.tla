---------------------------- MODULE TaskScheduler ----------------------------
(***************************************************************************)
(* Schedules: rows that send a task at the times of a crontab.             *)
(*                                                                         *)
(* Every worker's consumers call Scheduler.run, which visits the tenants,  *)
(* takes the tenant's advisory lock and fires what is due in one           *)
(* transaction.  Rows are written by three others at the same time: the    *)
(* API (read, then save), the start of a process, which reconciles the     *)
(* rows with the specs of the apps and of the scheduled objects, and the   *)
(* post_save handler of those objects.                                     *)
(*                                                                         *)
(* Time is counted in fractions of a minute.  A crontab is a period: it    *)
(* matches every so many minutes.                                          *)
(***************************************************************************)
EXTENDS Naturals, FiniteSets

CONSTANTS
    Workers,        \* processes that run the scheduler
    NTenants,       \* tenants are 1..NTenants, visited in this order
    Static,         \* schedules of the apps' specs: actors without identifier
    Objects,        \* objects of a scheduled model: one actor, one spec each
    NoId,           \* the key of a schedule of that actor without identifier
    TenantOf,       \* the tenant of a static schedule or an object
    SpecPaused,     \* static schedules whose spec is paused by configuration
    Minute,         \* clock ticks of a minute
    Periods, DefaultPeriod,     \* crontabs, in minutes
    MaxNow, MaxPatches, MaxStarts, MaxCrashes   \* bounds

Keys == Static \cup Objects \cup {NoId}
Tenant(k) == IF k = NoId THEN 1 ELSE TenantOf[k]

ASSUME SchedulerAssumption ==
    /\ NTenants \in Nat /\ MaxNow \in Nat
    /\ MaxPatches \in Nat /\ MaxStarts \in Nat /\ MaxCrashes \in Nat
    /\ Minute \in Nat \ {0}
    /\ Periods \subseteq Nat \ {0} /\ DefaultPeriod \in Periods
    /\ TenantOf \in [Static \cup Objects -> 1..NTenants]
    /\ NoId \notin Static \cup Objects /\ SpecPaused \subseteq Static
    \* the key without identifier is one row of one tenant
    /\ \A o \in Objects : TenantOf[o] = 1

VARIABLES
    now,        \* the clock
    row,        \* the schedule table
    objects,    \* scheduled objects that exist
    lock,       \* lock[t]: workers that hold the tenant's scheduler lock
    stage,      \* where a worker is in Scheduler.run
    at,         \* the tenant it is at
    selected,   \* rows its transaction has selected for update
    patch,      \* API requests that have read their schedule and not saved it
    start,      \* reconciliations that have read their specs and not applied them
    fired,      \* history: <<key, next_run>> pairs that were fired
    wanted,     \* history: schedules whose last API write asked for a pause
    edited,     \* history: paused schedules whose crontab was edited since
    stale,      \* history: an API request saved a row that had changed since it read it
    patches, starts, crashes

table == <<row, objects>>
run == <<lock, stage, at, selected>>
history == <<fired, wanted, edited, stale>>
bounds == <<patches, starts, crashes>>
vars == <<now, table, run, patch, start, history, bounds>>

-----------------------------------------------------------------------------
(* Values *)

Row == [exists : BOOLEAN, paused : BOOLEAN, period : Periods, next_run : Nat,
        args : Objects \cup {NoId}, rel : Objects \cup {NoId}]
NoRow == [exists |-> FALSE, paused |-> FALSE, period |-> DefaultPeriod, next_run |-> 0,
          args |-> NoId, rel |-> NoId]
Patch == [k : Keys, read : Row, paused : BOOLEAN, period : Periods]
Start == [t : 1..NTenants, objs : SUBSET Objects]

\* Rows of a transaction that selected them for update: other writers wait.
Locked(k) == \E w \in Workers : k \in selected[w]

Due(k) == row[k].exists /\ ~row[k].paused /\ row[k].next_run < now

\* Cron(crontab).schedule(t).next(): the first time from t on that matches.
NextMatch(period, t) ==
    LET step == period * Minute IN step * ((t + step - 1) \div step)

\* Mutant: the minute after the match is passed over too.
ComputeNextRunLate(period, from) ==
    LET next[t \in Nat] == LET n == NextMatch(period, t)
                           IN  IF n > now THEN n ELSE next[n + 2 * Minute]
    IN  next[from]

\* ScheduleBase.compute_next_run
ComputeNextRun(period, from) ==
    LET next[t \in Nat] == LET n == NextMatch(period, t)
                           IN  IF n > now THEN n ELSE next[n + Minute]
    IN  next[from]

-----------------------------------------------------------------------------
(* Scheduler.run *)

\* _scheduler: the interval has elapsed.
Begin(w) ==
    /\ stage[w] = "idle"
    /\ stage' = [stage EXCEPT ![w] = "try"] /\ at' = [at EXCEPT ![w] = 1]
    /\ UNCHANGED <<now, table, lock, selected, patch, start, history, bounds>>

\* The tenant's lock, without waiting; the whole run is over when it is taken.
TryLock(w) ==
    /\ stage[w] = "try" /\ at[w] <= NTenants
    /\ IF lock[at[w]] = {}
       THEN lock' = [lock EXCEPT ![at[w]] = {w}] /\ stage' = [stage EXCEPT ![w] = "select"]
       ELSE stage' = [stage EXCEPT ![w] = "idle"] /\ UNCHANGED lock
    /\ UNCHANGED <<now, table, at, selected, patch, start, history, bounds>>

\* _run: the rows that are due, for update.
Select(w) ==
    /\ stage[w] = "select"
    /\ selected' = [selected EXCEPT ![w] = {k \in Keys : Tenant(k) = at[w] /\ Due(k)}]
    /\ stage' = [stage EXCEPT ![w] = "commit"]
    /\ UNCHANGED <<now, table, lock, at, patch, start, history, bounds>>

\* Mutant: the rows are not saved.
FireUnsaved(w) ==
    /\ UNCHANGED row
    /\ fired' = fired \cup {<<k, row[k].next_run>> : k \in selected[w]}

\* process_schedule for each of them.
Fire(w) ==
    /\ row' = [k \in Keys |->
                 IF k \in selected[w]
                 THEN [row[k] EXCEPT !.next_run = ComputeNextRun(row[k].period, @)]
                 ELSE row[k]]
    /\ fired' = fired \cup {<<k, row[k].next_run>> : k \in selected[w]}

\* Mutant: the lock is kept.
ReleaseForgotten(w) == UNCHANGED lock

\* The lock is released at the end of its with block.
Release(w) == lock' = [lock EXCEPT ![at[w]] = @ \ {w}]

NextTenant(w) == at' = [at EXCEPT ![w] = @ + 1]

\* The transaction is committed and the run goes on to the next tenant.
Commit(w) ==
    /\ stage[w] = "commit"
    /\ Fire(w) /\ Release(w) /\ NextTenant(w)
    /\ selected' = [selected EXCEPT ![w] = {}]
    /\ stage' = [stage EXCEPT ![w] = "try"]
    /\ UNCHANGED <<now, objects, patch, start, wanted, edited, stale, bounds>>

\* There is no further tenant.
End(w) ==
    /\ stage[w] = "try" /\ at[w] > NTenants
    /\ stage' = [stage EXCEPT ![w] = "idle"]
    /\ UNCHANGED <<now, table, lock, at, selected, patch, start, history, bounds>>

\* The process is killed, or sending one of the tasks raises: the transaction of the
\* tenant is rolled back, its lock released, and the run is over.
Crash(w) ==
    /\ crashes < MaxCrashes /\ crashes' = crashes + 1
    /\ stage' = [stage EXCEPT ![w] = "idle"]
    /\ lock' = [t \in 1..NTenants |-> lock[t] \ {w}]
    /\ selected' = [selected EXCEPT ![w] = {}]
    /\ UNCHANGED <<now, table, at, patch, start, history, patches, starts>>

-----------------------------------------------------------------------------
(* The API: UpdateModelMixin of ScheduleViewSet *)

PatchRead(k) ==
    /\ patches < MaxPatches /\ patches' = patches + 1
    /\ row[k].exists
    /\ \E p \in BOOLEAN, n \in Periods :
          patch' = patch \cup {[k |-> k, read |-> row[k], paused |-> p, period |-> n]}
    /\ UNCHANGED <<now, table, run, start, history, starts, crashes>>

\* The trigger set_next_run_on_paused, on every update of a row.
OnUpdate(old, new) ==
    IF new.paused /\ ~old.paused THEN [new EXCEPT !.next_run = 0] ELSE new

\* What a request writes: every field that it read, the arguments excepted, with
\* its own paused and crontab.
PatchedRow(r) ==
    [r.read EXCEPT !.paused = r.paused, !.period = r.period, !.args = row[r.k].args,
                   !.next_run = IF r.period # r.read.period
                                THEN ComputeNextRun(r.period, now) ELSE @]

\* What the histories record of a request that is saved.
PatchHistory(r) ==
    /\ wanted' = IF r.paused THEN wanted \cup {r.k} ELSE wanted \ {r.k}
    /\ edited' = IF ~(r.paused /\ row[r.k].paused) THEN edited \ {r.k}
                 ELSE IF r.period # r.read.period THEN edited \cup {r.k} ELSE edited
    /\ stale' = (stale \/ row[r.k] # r.read)
    /\ UNCHANGED fired

\* ScheduleBase.save
PatchSave(r) ==
    /\ ~Locked(r.k)
    /\ patch' = patch \ {r}
    /\ row' = [row EXCEPT ![r.k] = OnUpdate(@, PatchedRow(r))]
    /\ PatchHistory(r)
    /\ UNCHANGED <<now, objects, run, start, bounds>>

\* Rows are deleted: a request that has read one of them ends in an error.
DropPatches(gone) == patch' = {r \in patch : r.k \notin gone}

-----------------------------------------------------------------------------
(* Specs *)

\* ScheduleSpec.update_or_create: an existing row keeps its crontab, next_run and
\* related object, and takes the rest from the spec.
UpdateOrCreate(old, paused, obj) ==
    IF old.exists
    THEN OnUpdate(old, [old EXCEPT !.paused = paused, !.args = obj])
    ELSE [exists |-> TRUE, paused |-> paused, period |-> DefaultPeriod, next_run |-> now,
          args |-> obj, rel |-> obj]

\* post_save_scheduled_model: the identifier is left out.
SaveObject(o) ==
    /\ ~Locked(NoId)
    /\ objects' = objects \cup {o}
    /\ row' = [row EXCEPT ![NoId] = UpdateOrCreate(@, FALSE, o)]
    /\ UNCHANGED <<now, run, patch, start, history, bounds>>

\* The object's schedules are deleted through the generic relation.
DeleteObject(o) ==
    LET gone == {k \in Keys : row[k].exists /\ row[k].rel = o}
    IN  /\ o \in objects /\ \A k \in gone : ~Locked(k)
        /\ objects' = objects \ {o}
        /\ row' = [k \in Keys |-> IF k \in gone THEN NoRow ELSE row[k]]
        /\ DropPatches(gone)
        /\ UNCHANGED <<now, run, start, history, bounds>>

\* reconcile_tenant_schedules at the start of a process: the objects are read ...
ReconcileRead(t) ==
    /\ starts < MaxStarts /\ starts' = starts + 1
    /\ start' = start \cup {[t |-> t, objs |-> {o \in objects : TenantOf[o] = t}]}
    /\ UNCHANGED <<now, table, run, patch, history, patches, crashes>>

Specs(r) == r.objs \cup {k \in Static : TenantOf[k] = r.t}
RowFromSpec(k) ==
    UpdateOrCreate(row[k], k \in SpecPaused, IF k \in Objects THEN k ELSE NoId)

\* ... and the rows of the tenant brought in line, those without a spec deleted.
Reconcile(r) ==
    LET mine == {k \in Keys : Tenant(k) = r.t}
        gone == mine \ Specs(r)
    IN  /\ start' = start \ {r}
        /\ \A k \in mine : ~Locked(k)
        /\ row' = [k \in Keys |-> IF k \in Specs(r) THEN RowFromSpec(k)
                                  ELSE IF k \in gone THEN NoRow ELSE row[k]]
        /\ DropPatches(gone)
        /\ UNCHANGED <<now, objects, run, history, bounds>>

-----------------------------------------------------------------------------
Tick ==
    /\ now < MaxNow /\ now' = now + 1
    /\ UNCHANGED <<table, run, patch, start, history, bounds>>

\* A tenant whose static schedules were created at some earlier start.
Init ==
    /\ now = 1
    /\ row = [k \in Keys |-> IF k \in Static
                             THEN [NoRow EXCEPT !.exists = TRUE, !.next_run = 1,
                                                !.paused = k \in SpecPaused]
                             ELSE NoRow]
    /\ objects = {}
    /\ lock = [t \in 1..NTenants |-> {}]
    /\ stage = [w \in Workers |-> "idle"] /\ at = [w \in Workers |-> 1]
    /\ selected = [w \in Workers |-> {}]
    /\ patch = {} /\ start = {}
    /\ fired = {} /\ wanted = {} /\ edited = {} /\ stale = FALSE
    /\ patches = 0 /\ starts = 0 /\ crashes = 0

SchedulerStep(w) == TryLock(w) \/ Select(w) \/ Commit(w) \/ End(w)

Next ==
    \/ Tick
    \/ \E w \in Workers : Begin(w) \/ SchedulerStep(w) \/ Crash(w)
    \/ \E k \in Keys : PatchRead(k)
    \/ \E r \in patch : PatchSave(r)
    \/ \E o \in Objects : SaveObject(o) \/ DeleteObject(o)
    \/ \E t \in 1..NTenants : ReconcileRead(t)
    \/ \E r \in start : Reconcile(r)

Spec == Init /\ [][Next]_vars

\* Consumers call the scheduler again and again and a run goes on until it ends.
FairSpec == Spec /\ \A w \in Workers : WF_vars(Begin(w)) /\ WF_vars(SchedulerStep(w))

-----------------------------------------------------------------------------
(* Properties *)

\* Every variable stays in its domain.
TypeOK ==
    /\ now \in 1..MaxNow
    /\ row \in [Keys -> Row] /\ objects \subseteq Objects
    /\ lock \in [1..NTenants -> SUBSET Workers]
    /\ stage \in [Workers -> {"idle", "try", "select", "commit"}]
    /\ at \in [Workers -> 1..NTenants + 1]
    /\ selected \in [Workers -> SUBSET Keys]
    /\ patch \subseteq Patch /\ start \subseteq Start
    /\ wanted \subseteq Keys /\ edited \subseteq Keys /\ stale \in BOOLEAN

\* No two schedulers hold a tenant's lock or have selected the same row.
OneScheduler ==
    /\ \A t \in 1..NTenants : Cardinality(lock[t]) <= 1
    /\ \A v, w \in Workers : v # w => selected[v] \cap selected[w] = {}

\* An occurrence of a schedule is fired once, whichever workers run the scheduler and
\* wherever one is killed, unless an API request wrote back the next_run it had read
\* before.  The next_run of 0 that pausing leaves behind may be fired again.
FiringNew ==
    \A w \in Workers : Commit(w) /\ ~stale =>
        \A k \in selected[w] : row[k].next_run > 0 => <<k, row[k].next_run>> \notin fired
FiresOnce == [][FiringNew]_vars

\* After a firing the next run is the first match still to come: those that passed
\* are dropped, none that is to come is.
FiringAdvances ==
    \A w \in Workers : Commit(w) =>
        \A k \in selected[w] :
            LET n == row'[k].next_run
                step == row[k].period * Minute
            IN  n > now /\ n % step = 0 /\ \A t \in now + 1..n - 1 : t % step # 0
NextRunLeast == [][FiringAdvances]_vars

\* A schedule that is due is fired, paused or deleted, in every tenant, although a
\* run ends at the first tenant whose lock another worker holds.
DueFires == \A k \in Keys : Due(k) ~> ~Due(k)

\* A schedule that was paused through the API is not fired, even when the pause comes
\* while the scheduler is at work.
FiringWanted == \A w \in Workers : Commit(w) => selected[w] \cap wanted = {}
PausedSilent == [][FiringWanted]_vars

\* A paused schedule stays due, so that it runs as soon as it is un-paused, unless its
\* crontab is edited meanwhile or a request writes back what it had read before.
PausedStaysDue ==
    \A k \in Keys \ edited : row[k].exists /\ row[k].paused /\ ~stale => row[k].next_run <= now

\* Every scheduled object has a schedule that runs for it.
EveryObjectScheduled ==
    \A o \in objects : \E k \in Keys : row[k].exists /\ row[k].args = o

\* The start of a process leaves every scheduled object with exactly one schedule,
\* whatever saves and deletions have left behind, if no object was saved or deleted
\* while it was reading them.
ReconcilingRepairs ==
    \A r \in start : Reconcile(r) /\ r.objs = {o \in objects : TenantOf[o] = r.t} =>
        \A o \in r.objs : {k \in Keys : row'[k].exists /\ row'[k].args = o} = {o}
StartRepairs == [][ReconcilingRepairs]_vars

=============================================================================
