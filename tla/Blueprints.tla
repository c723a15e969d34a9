------------------------------- MODULE Blueprints -------------------------------
(* Blueprints (authentik/blueprints): files that are discovered, made into
   instances and applied by tasks.

   A file is a version of a blueprint with one entry, whose desired state is
   given by Desired; a path may need another one, whose blueprint it applies
   first, in its own transaction (MetaApplyBlueprint).  A task reads an instance
   once and writes all of it back at its end, so what others wrote meanwhile is
   overwritten, and an instance deleted meanwhile is inserted again. *)
EXTENDS Integers, FiniteSets

CONSTANTS
    Paths,      \* blueprint files
    Needs,      \* pairs <<path, path it applies first>>
    Desired,    \* version -> state of its entry: present, created, must_created, absent, broken
    BWorkers,   \* worker threads
    Keys,       \* primary keys of the instances of a path (one is used again once forgotten)
    MaxHappens  \* bound on changes of files and instances, lost events and crashes

VARIABLES
    file,       \* path -> the version of the file, or Gone
    inst,       \* path -> its BlueprintInstance, or NoInst
    obj,        \* path -> the version that wrote the object of the entry, or Gone
    apply,      \* path and key -> apply_blueprint tasks in the queue
    discover,   \* a blueprints_discovery task is in the queue
    job,        \* worker -> the task it runs
    happened,
    overlapped, \* history: paths two tasks were applying at the same time
    wanted,     \* history: path -> enabled, as the administrator last set it
    touched,    \* history: paths whose instance was changed while a task held a copy
    torn        \* history: paths whose worker died after the commit, before it saved the hash

blueprintVars == <<file, inst, obj, apply, discover, job, happened, overlapped, wanted, touched, torn>>
history == <<overlapped, wanted, touched, torn>>

Gone == 0
Versions == DOMAIN Desired

ASSUME BlueprintAssumption ==
    /\ "" \notin Paths /\ 0 \notin Keys
    /\ Gone \notin Versions /\ 1 \in Versions
    /\ \A v \in Versions :
         Desired[v] \in {"present", "created", "must_created", "absent", "broken"}
    /\ \A p, q \in Paths : <<p, q>> \in Needs =>
         p # q /\ \A x \in Paths : <<p, x>> \in Needs => x = q

NoInst == [pk |-> 0, enabled |-> FALSE, hash |-> Gone, status |-> "none"]
NoFiles == [p \in Paths |-> Gone]
Idle == [pc |-> "idle", path |-> "", copy |-> NoInst, v |-> Gone,
         needed |-> NoInst, nv |-> Gone, found |-> NoFiles]

Applying(p) == {w \in BWorkers : \/ job[w].path = p
                                 \/ job[w].pc = "commit" /\ <<job[w].path, p>> \in Needs}
Holds(w, p, k) == \/ job[w].path = p /\ job[w].copy.pk = k
                  \/ <<job[w].path, p>> \in Needs /\ job[w].needed.pk = k
KnownKeys(p) == {k \in Keys : inst[p].pk = k \/ apply[p][k] > 0 \/ \E w \in BWorkers : Holds(w, p, k)}
NewKeys(p) == {k \in Keys \ KnownKeys(p) : \A l \in Keys \ KnownKeys(p) : k <= l}
Needed(p) == {q \in Paths : <<p, q>> \in Needs}

-----------------------------------------------------------------------------
(* What an entry does. *)

\* Importer._validate_single: an object that must be created must not exist.
Valid(v, old) == Desired[v] # "broken" /\ (Desired[v] = "must_created" => old = Gone)

\* Importer._apply_models, for a valid entry.
Applied(v, old) ==
    CASE Desired[v] = "present" -> v
      [] Desired[v] \in {"created", "must_created"} -> IF old = Gone THEN v ELSE old
      [] Desired[v] = "absent" -> Gone

\* The object is as the entry of v wants it.
Reflects(v, o) ==
    CASE Desired[v] = "present" -> o = v
      [] Desired[v] \in {"created", "must_created"} -> o # Gone
      [] Desired[v] = "absent" -> o = Gone
      [] OTHER -> TRUE

-----------------------------------------------------------------------------
(* Files and the administrator. *)

Happens == happened < MaxHappens /\ happened' = happened + 1

SendApply(p, k) == apply' = [apply EXCEPT ![p][k] = @ + 1]

(* A file is written, and a watcher notices: a modification applies the enabled
   instance, a creation starts the discovery.  A watcher that is not running, or
   a deletion, notices nothing. *)
WriteFile(p, v) ==
    /\ Happens
    /\ v # file[p]
    /\ file' = [file EXCEPT ![p] = v]
    /\ \/ UNCHANGED <<apply, discover>>
       \/ /\ v # Gone /\ file[p] # Gone /\ inst[p] # NoInst /\ inst[p].enabled
          /\ SendApply(p, inst[p].pk) /\ UNCHANGED discover
       \/ v # Gone /\ file[p] = Gone /\ discover' = TRUE /\ UNCHANGED apply
    /\ UNCHANGED <<inst, obj, job, history>>

Touch(p) == touched' = IF Applying(p) = {} THEN touched \ {p} ELSE touched \cup {p}

Toggle(p) ==
    /\ Happens
    /\ inst[p] # NoInst
    /\ inst' = [inst EXCEPT ![p] = [inst[p] EXCEPT !.enabled = ~ inst[p].enabled]]
    /\ wanted' = [wanted EXCEPT ![p] = ~ inst[p].enabled]
    /\ Touch(p)
    /\ UNCHANGED <<file, obj, apply, discover, job, overlapped, torn>>

\* BlueprintInstanceViewSet.apply.
ApplyByHand(p) ==
    /\ Happens
    /\ inst[p] # NoInst
    /\ SendApply(p, inst[p].pk)
    /\ UNCHANGED <<file, inst, obj, discover, job, history>>

\* clear_failed_blueprints, of one instance.
ClearFailed(p) ==
    /\ inst[p] # NoInst /\ file[p] = Gone
    /\ inst' = [inst EXCEPT ![p] = NoInst]
    /\ wanted' = [wanted EXCEPT ![p] = TRUE]
    /\ Touch(p)
    /\ UNCHANGED <<file, obj, apply, discover, job, happened, overlapped, torn>>

-----------------------------------------------------------------------------
(* blueprints_discovery. *)

(* The schedule sends it every hour: by then no task waits in the queue, though
   some may still run. *)
Schedule ==
    /\ ~ discover /\ \A w \in BWorkers : job[w].pc # "check"
    /\ \A p \in Paths, k \in Keys : apply[p][k] = 0
    /\ discover' = TRUE
    /\ UNCHANGED <<file, inst, obj, apply, job, happened, history>>

\* blueprints_find: every file is read and hashed ...
Find(w) ==
    /\ job[w] = Idle /\ discover
    /\ discover' = FALSE
    /\ job' = [job EXCEPT ![w] = [Idle EXCEPT !.pc = "check", !.found = file]]
    /\ UNCHANGED <<file, inst, obj, apply, happened, history>>

\* The job, once it has looked at the file of p.
Checked(j, p) == [j EXCEPT !.found = [j.found EXCEPT ![p] = Gone]]
NewInst(k) == [pk |-> k, enabled |-> TRUE, hash |-> Gone, status |-> "unknown"]

\* Mutant: the instance is compared with the file as it is now applied, not with its hash.
CheckStatusOnly(w, p) ==
    /\ job[w].pc = "check" /\ job[w].found[p] # Gone
    /\ \/ /\ inst[p] = NoInst
          /\ \E k \in NewKeys(p) : inst' = [inst EXCEPT ![p] = NewInst(k)] /\ SendApply(p, k)
       \/ /\ inst[p] # NoInst /\ UNCHANGED inst
          /\ IF inst[p].status # "successful" THEN SendApply(p, inst[p].pk) ELSE UNCHANGED apply
    /\ job' = [job EXCEPT ![w] = Checked(job[w], p)]
    /\ UNCHANGED <<file, obj, discover, happened, history>>

\* ... then check_blueprint_v1_file makes its instance, and applies it if the hash differs.
Check(w, p) ==
    /\ job[w].pc = "check" /\ job[w].found[p] # Gone
    /\ \/ /\ inst[p] = NoInst
          /\ \E k \in NewKeys(p) : inst' = [inst EXCEPT ![p] = NewInst(k)] /\ SendApply(p, k)
       \/ /\ inst[p] # NoInst /\ UNCHANGED inst
          /\ IF inst[p].hash # job[w].found[p] THEN SendApply(p, inst[p].pk) ELSE UNCHANGED apply
    /\ job' = [job EXCEPT ![w] = Checked(job[w], p)]
    /\ UNCHANGED <<file, obj, discover, happened, history>>

Found(w) ==
    /\ job[w].pc = "check" /\ job[w].found = NoFiles
    /\ job' = [job EXCEPT ![w] = Idle]
    /\ UNCHANGED <<file, inst, obj, apply, discover, happened, history>>

-----------------------------------------------------------------------------
(* apply_blueprint. *)

Take(w, p, k) == job[w] = Idle /\ apply[p][k] > 0 /\ apply' = [apply EXCEPT ![p][k] = @ - 1]

\* The instance is gone.
ApplyNothing(w, p, k) ==
    /\ inst[p].pk # k
    /\ Take(w, p, k)
    /\ UNCHANGED <<file, inst, obj, discover, job, happened, history>>

Done(copy, v) == [copy EXCEPT !.status = "successful", !.hash = v]
Failed(copy) == [copy EXCEPT !.status = "error"]

\* What is left for the finally clause.
ToSave(j, copy) == [j EXCEPT !.pc = "save", !.copy = copy]

\* The instance and the file are read; one that is disabled, or cannot be retrieved, is saved.
BeginApply(w, p, k) ==
    /\ inst[p].pk = k
    /\ Take(w, p, k)
    /\ LET j == [Idle EXCEPT !.pc = "validate", !.path = p, !.copy = inst[p], !.v = file[p]] IN
       job' = [job EXCEPT ![w] =
                 IF ~ inst[p].enabled THEN ToSave(j, inst[p])
                 ELSE IF file[p] = Gone THEN ToSave(j, Failed(inst[p])) ELSE j]
    /\ overlapped' = IF Applying(p) = {} THEN overlapped ELSE overlapped \cup {p}
    /\ UNCHANGED <<file, inst, obj, discover, happened, wanted, touched, torn>>

\* ApplyBlueprintMetaSerializer.validate: what is needed must have an instance.
NeedsMet(p) == \A q \in Needed(p) : inst[q] # NoInst

(* Importer.validate: everything is applied and rolled back.  Then the transaction
   of Importer.apply begins, and reads what the needed blueprint is made from. *)
Validate(w) ==
    LET p == job[w].path  q == CHOOSE x \in Needed(p) : TRUE IN
    /\ job[w].pc = "validate"
    /\ job' = [job EXCEPT ![w] =
                 IF ~ NeedsMet(p) \/ ~ Valid(job[w].v, obj[p])
                 THEN ToSave(job[w], Failed(job[w].copy))
                 ELSE IF Needed(p) = {} THEN [job[w] EXCEPT !.pc = "commit"]
                 ELSE [job[w] EXCEPT !.pc = "commit", !.needed = inst[q], !.nv = file[q]]]
    /\ overlapped' = overlapped \cup {x \in Needed(p) : Applying(x) # {}}
    /\ UNCHANGED <<file, inst, obj, apply, discover, happened, wanted, touched, torn>>

\* Model.save of a copy: an update, or an insert that the unique name may refuse.
CanSave(p, copy) == inst[p].pk \in {NoInst.pk, copy.pk}

\* apply_blueprint, called by MetaApplyBlueprint for what is needed.
NestedWorks(w, q) == job[w].needed.enabled /\ job[w].nv # Gone /\ Valid(job[w].nv, obj[q])
NestedCopy(w, q) ==
    IF ~ job[w].needed.enabled THEN job[w].needed
    ELSE IF NestedWorks(w, q) THEN Done(job[w].needed, job[w].nv) ELSE Failed(job[w].needed)

(* The transaction of Importer.apply: the entry and what is needed are written,
   and the instance that is needed is saved with them. *)
Write(w, p) ==
    /\ obj' = [x \in Paths |->
                 IF x = p THEN Applied(job[w].v, obj[p])
                 ELSE IF x \in Needed(p) /\ NestedWorks(w, x) THEN Applied(job[w].nv, obj[x])
                 ELSE obj[x]]
    /\ inst' = [x \in Paths |-> IF x \in Needed(p) THEN NestedCopy(w, x) ELSE inst[x]]
    /\ torn' = torn \ ({p} \cup {x \in Needed(p) : NestedWorks(w, x)})

CanCommit(w, p) ==
    /\ NeedsMet(p) /\ Valid(job[w].v, obj[p])
    /\ \A q \in Needed(p) : CanSave(q, job[w].needed)

\* Mutant: the hash is recorded of what the file holds at the end.
CommitHashesLate(w) ==
    LET p == job[w].path IN
    /\ job[w].pc = "commit"
    /\ \/ /\ CanCommit(w, p) /\ Write(w, p)
          /\ job' = [job EXCEPT ![w] = ToSave(job[w], Done(job[w].copy, file[p]))]
       \/ /\ ~ CanCommit(w, p) /\ UNCHANGED <<obj, inst, torn>>
          /\ job' = [job EXCEPT ![w] = ToSave(job[w], Failed(job[w].copy))]
    /\ UNCHANGED <<file, apply, discover, happened, overlapped, wanted, touched>>

\* Importer.apply: every entry is validated again; all are written, or none.
Commit(w) ==
    LET p == job[w].path IN
    /\ job[w].pc = "commit"
    /\ \/ /\ CanCommit(w, p) /\ Write(w, p)
          /\ job' = [job EXCEPT ![w] = ToSave(job[w], Done(job[w].copy, job[w].v))]
       \/ /\ ~ CanCommit(w, p) /\ UNCHANGED <<obj, inst, torn>>
          /\ job' = [job EXCEPT ![w] = ToSave(job[w], Failed(job[w].copy))]
    /\ UNCHANGED <<file, apply, discover, happened, overlapped, wanted, touched>>

\* The finally clause: the whole copy is written.
Save(w) ==
    LET p == job[w].path IN
    /\ job[w].pc = "save"
    /\ inst' = IF CanSave(p, job[w].copy) THEN [inst EXCEPT ![p] = job[w].copy] ELSE inst
    /\ job' = [job EXCEPT ![w] = Idle]
    /\ UNCHANGED <<file, obj, apply, discover, happened, history>>

\* The transaction of the task has been committed, and its hash is still to be saved.
Committed(w) ==
    job[w].pc = "save" /\ job[w].copy.enabled /\ job[w].copy.status = "successful"

\* A worker dies; its task is delivered again.
Crash(w) ==
    /\ Happens
    /\ job[w] # Idle
    /\ job' = [job EXCEPT ![w] = Idle]
    /\ IF job[w].pc = "check"
       THEN discover' = TRUE /\ UNCHANGED apply
       ELSE SendApply(job[w].path, job[w].copy.pk) /\ UNCHANGED discover
    /\ torn' = IF Committed(w) THEN torn \cup {job[w].path} ELSE torn
    /\ UNCHANGED <<file, inst, obj, overlapped, wanted, touched>>

-----------------------------------------------------------------------------
BlueprintInit ==
    /\ file \in [Paths -> {1, Gone}]
    /\ inst = [p \in Paths |-> NoInst]
    /\ obj = [p \in Paths |-> Gone]
    /\ apply = [p \in Paths |-> [k \in Keys |-> 0]]
    /\ discover = FALSE
    /\ job = [w \in BWorkers |-> Idle]
    /\ happened = 0
    /\ overlapped = {}
    /\ wanted = [p \in Paths |-> TRUE]
    /\ touched = {}
    /\ torn = {}

StepApply(w) == Validate(w) \/ Commit(w) \/ Save(w)
TakeApply(w) == \E p \in Paths, k \in Keys : ApplyNothing(w, p, k) \/ BeginApply(w, p, k)
StepDiscovery(w) == Found(w) \/ \E p \in Paths : Check(w, p)

BlueprintNext ==
    \/ Schedule
    \/ \E p \in Paths : \/ Toggle(p)
                        \/ ApplyByHand(p)
                        \/ ClearFailed(p)
                        \/ \E v \in Versions \cup {Gone} : WriteFile(p, v)
    \/ \E w \in BWorkers : Find(w) \/ StepDiscovery(w) \/ TakeApply(w) \/ StepApply(w) \/ Crash(w)

BlueprintFairness ==
    /\ WF_blueprintVars(Schedule)
    /\ WF_blueprintVars(\E w \in BWorkers : Find(w))
    /\ WF_blueprintVars(\E w \in BWorkers : TakeApply(w))
    /\ \A w \in BWorkers : WF_blueprintVars(StepDiscovery(w) \/ StepApply(w))

BlueprintSpec == BlueprintInit /\ [][BlueprintNext]_blueprintVars /\ BlueprintFairness

-----------------------------------------------------------------------------
(* The type invariant: a task in apply_blueprint holds a copy of an instance,
   and a file unless it only saves. *)
BlueprintTypeOK ==
    /\ \A p \in Paths : inst[p] = NoInst \/ inst[p].pk \in Keys
    /\ \A w \in BWorkers :
         /\ job[w].pc \in {"validate", "commit", "save"} <=> job[w].path \in Paths
         /\ job[w].path \in Paths => job[w].copy.pk \in Keys
         /\ job[w].pc \in {"validate", "commit"} => job[w].v \in Versions /\ job[w].copy.enabled

Quiet(p) == Applying(p) = {} /\ \A k \in Keys : apply[p][k] = 0

(* last_applied_hash can be trusted: once no task of the instance is queued or
   running, an instance whose hash is that of its file, which the discovery will
   not apply again, has objects as the file wants them.  Excepted are instances
   two tasks applied at the same time, since apply_blueprint takes no lock, and
   one whose worker died after the transaction and before the hash was saved,
   until it is applied again: the new attempt may find it disabled or invalid. *)
HashTrue ==
    \A p \in Paths \ (overlapped \cup torn) :
        Quiet(p) /\ file[p] # Gone /\ inst[p].hash = file[p] => Reflects(file[p], obj[p])

(* An administrator's change of an instance lasts, unless it was made while a
   task held a copy of the instance, which it writes back at its end. *)
ChangeKept == \A p \in Paths \ touched : inst[p] # NoInst => inst[p].enabled = wanted[p]

(* Files that stay as they are are applied in the end: by the event, or by the
   discovery, which runs every hour.  A blueprint that is invalid is not, nor
   one whose object must not exist yet, nor one that needs a missing one. *)
InSync(p) ==
    \/ file[p] = Gone \/ p \in overlapped \/ (inst[p] # NoInst /\ ~ inst[p].enabled)
    \/ Desired[file[p]] \in {"broken", "must_created"} \/ \E q \in Needed(p) : file[q] = Gone
    \/ Reflects(file[p], obj[p]) /\ inst[p].hash = file[p]
FilesApplied == <>[](\A p \in Paths : InSync(p))

(* The documentation of the blueprints: "This file is read and applied regularly
   (every 60 minutes)" (website/docs/customize/blueprints/index.mdx:11). *)
AppliedRegularly ==
    <>[](\A p \in Paths :
            file[p] = Gone \/ ~ inst[p].enabled \/ Desired[file[p]] \in {"broken", "must_created"}
                \/ Reflects(file[p], obj[p]))
====
