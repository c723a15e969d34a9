----------------------------- MODULE OutpostDeploy -----------------------------
(* Managed deployments of an outpost (authentik/outposts: signals.py, tasks.py,
   controllers).  Saving the outpost queues an outpost_controller task that
   brings the deployment up; renaming or deleting it leaves the old instance in
   one slot of the cache and queues a task that tears down what is in the slot.
   Tasks run on several workers.  The platform is Docker, one container per
   outpost, or Kubernetes, several objects reconciled in a fixed order. *)
EXTENDS Integers, FiniteSets

CONSTANTS
    Platforms,   \* of "docker" and "kubernetes": what the service connection may be
    KObjects,    \* Kubernetes objects of a deployment, in the order they are reconciled
    Names,       \* names the outpost may have
    DWorkers,    \* threads that run tasks
    MaxEvents    \* bound on saves, deletions, failures of the platform and crashes of workers

ASSUME DeployAssumption ==
    /\ Platforms \subseteq {"docker", "kubernetes"} /\ "" \notin Names /\ Names # {}
    /\ KObjects \subseteq Nat /\ \E k \in KObjects : KObjects = 1..k

VARIABLES
    platform,
    exists,      \* the outpost's row is there
    oname, oconf,\* its name and the version of its configuration
    saving,      \* the name a save is about to write, after pre_save and before post_save
    account,     \* the service account and its token are there
    slot,        \* the cache entry CACHE_KEY_OUTPOST_DOWN: an instance, or NoInstance
    ups, downs,  \* queued tasks with action "up", and with "down" from the cache
    deployed,    \* name -> object -> version it was made from, or Absent
    doing,       \* worker -> the task it runs
    events,
    reading,     \* history: workers that read what is in the slot now
    excused      \* history: names whose deployment may be left behind, see TornDown

deployVars == <<platform, exists, oname, oconf, saving, account, slot, ups, downs,
                deployed, doing, events, reading, excused>>

Absent == -1
NoInstance == [name |-> "", conf |-> 0]
NoJob == [act |-> "none", inst |-> NoInstance, at |-> 0, looked |-> FALSE, seen |-> Absent]

Objects == IF platform = "docker" THEN {1} ELSE KObjects
Last == CHOOSE o \in Objects : \A p \in Objects : p <= o
Instance == [name |-> oname, conf |-> oconf]

-----------------------------------------------------------------------------
(* Saves and deletions. *)

Event == events < MaxEvents /\ events' = events + 1

\* What is in the slot is lost unless a task is already working on it.
Overwritten == IF slot = NoInstance \/ reading # {} THEN {} ELSE {slot.name}

\* A save that changes neither name nor namespace: outpost_post_save.
SaveConfig ==
    /\ Event
    /\ exists /\ saving = ""
    /\ oconf' = oconf + 1
    /\ ups' = ups + 1
    /\ UNCHANGED <<platform, exists, oname, saving, account, slot, downs, deployed, doing,
                   reading, excused>>

\* Mutant: the instance that is being saved goes to the slot.
PreSaveNew(n) ==
    /\ Event
    /\ exists /\ saving = "" /\ n # oname
    /\ saving' = n
    /\ slot' = [Instance EXCEPT !.name = n]
    /\ excused' = excused \cup Overwritten /\ reading' = {}
    /\ downs' = downs + 1
    /\ UNCHANGED <<platform, exists, oname, oconf, account, ups, deployed, doing>>

\* outpost_pre_save of a save with another name: the old instance goes to the slot.
PreSave(n) ==
    /\ Event
    /\ exists /\ saving = "" /\ n # oname
    /\ saving' = n
    /\ slot' = Instance
    /\ excused' = excused \cup Overwritten /\ reading' = {}
    /\ downs' = downs + 1
    /\ UNCHANGED <<platform, exists, oname, oconf, account, ups, deployed, doing>>

\* The row is written; outpost_post_save.
PostSave ==
    /\ saving # ""
    /\ oname' = saving /\ saving' = ""
    /\ ups' = ups + 1
    /\ UNCHANGED <<platform, exists, oconf, account, slot, downs, deployed, doing, events,
                   reading, excused>>

(* outpost_pre_delete_cleanup, in the transaction that deletes the row: the
   service account goes, and its token with it. *)
Delete ==
    /\ Event
    /\ exists /\ saving = ""
    /\ exists' = FALSE /\ account' = FALSE
    /\ slot' = Instance
    /\ excused' = excused \cup Overwritten /\ reading' = {}
    /\ downs' = downs + 1
    /\ UNCHANGED <<platform, oname, oconf, saving, ups, deployed, doing>>

\* The schedule of the outpost, every four hours: one "up" at a time.
ScheduleUp ==
    /\ exists /\ ups = 0
    /\ \A w \in DWorkers : doing[w].act # "up"
    /\ ups' = 1
    /\ UNCHANGED <<platform, exists, oname, oconf, saving, account, slot, downs, deployed, doing,
                   events, reading, excused>>

-----------------------------------------------------------------------------
(* outpost_controller. *)

Taken(act, inst) == [NoJob EXCEPT !.act = act, !.inst = inst, !.at = 1]

\* action="up": the outpost is read from the database; without one the task ends.
BeginUp(w) ==
    /\ doing[w] = NoJob /\ ups > 0
    /\ ups' = ups - 1
    /\ doing' = [doing EXCEPT ![w] = IF exists THEN Taken("up", Instance) ELSE NoJob]
    /\ UNCHANGED <<platform, exists, oname, oconf, saving, account, slot, downs, deployed,
                   events, reading, excused>>

\* action="down", from_cache=True: the outpost is read from the slot.
BeginDown(w) ==
    /\ doing[w] = NoJob /\ downs > 0
    /\ downs' = downs - 1
    /\ doing' = [doing EXCEPT ![w] = IF slot = NoInstance THEN NoJob ELSE Taken("down", slot)]
    /\ reading' = IF slot = NoInstance THEN reading ELSE reading \cup {w}
    /\ UNCHANGED <<platform, exists, oname, oconf, saving, account, slot, ups, deployed,
                   events, excused>>

There(w) == deployed[doing[w].inst.name][doing[w].at]
Put(w, v) == deployed' = [deployed EXCEPT ![doing[w].inst.name][doing[w].at] = v]

(* The object is retrieved: containers.get, or the reconciler's retrieve().  The
   reference of the first Kubernetes object, the Secret, has been built before,
   and that needs the token. *)
Retrieve(w) ==
    /\ doing[w] # NoJob /\ ~ doing[w].looked
    /\ doing' = [doing EXCEPT ![w].looked = TRUE, ![w].seen = There(w)]
    /\ account' = (account \/ (platform = "kubernetes" /\ doing[w].act = "up" /\ doing[w].at = 1))
    /\ UNCHANGED <<platform, exists, oname, oconf, saving, slot, ups, downs, deployed,
                   events, reading, excused>>

Looked(w, act) == doing[w].act = act /\ doing[w].looked

Onward(j) == [j EXCEPT !.at = j.at + 1, !.looked = FALSE, !.seen = Absent]

\* On to the next object, or to the end of the task, which clears the slot after a "down".
Advance(w) ==
    LET ends == doing[w].at = Last  clears == ends /\ doing[w].act = "down" IN
    /\ doing' = [doing EXCEPT ![w] = IF ends THEN NoJob ELSE Onward(doing[w])]
    /\ slot' = IF clears THEN NoInstance ELSE slot
    /\ reading' = IF clears THEN {} ELSE reading

\* What the end of a "down" throws away if the slot was filled again meanwhile.
Dropped(w) ==
    IF doing[w].at = Last /\ slot # NoInstance /\ reading = {} THEN {slot.name} ELSE {}

\* A ControllerException: the task logs it and ends; the slot stays, and nobody comes back.
Error(w) ==
    /\ doing' = [doing EXCEPT ![w] = NoJob] /\ reading' = reading \ {w}
    /\ excused' = excused \cup (IF doing[w].act = "down" THEN {doing[w].inst.name} ELSE {})
    /\ UNCHANGED <<slot, deployed>>

\* An "up" that read the outpost before it was renamed or deleted.
Stale(w) ==
    IF exists /\ saving = "" /\ doing[w].inst.name = oname THEN {} ELSE {doing[w].inst.name}

\* The environment of a container holds the token, which is made when it is missing.
NeedsToken(w) == account' = (account \/ platform = "docker")

Create(w) ==
    /\ Looked(w, "up") /\ doing[w].seen = Absent
    /\ \/ There(w) = Absent /\ Put(w, doing[w].inst.conf) /\ Advance(w) /\ excused' = excused \cup Stale(w)
       \/ There(w) # Absent /\ Error(w)
    /\ NeedsToken(w)
    /\ UNCHANGED <<platform, exists, oname, oconf, saving, ups, downs, events>>

\* reconcile() or the comparisons of DockerController.up find the object current.
Keep(w) ==
    /\ Looked(w, "up") /\ doing[w].seen = doing[w].inst.conf
    /\ Advance(w)
    /\ NeedsToken(w)
    /\ UNCHANGED <<platform, exists, oname, oconf, saving, ups, downs, deployed, events,
                   excused>>

\* Mutant: an outdated object is kept.
ChangeNothing(w) ==
    /\ Looked(w, "up") /\ doing[w].seen \notin {Absent, doing[w].inst.conf}
    /\ Advance(w)
    /\ NeedsToken(w)
    /\ UNCHANGED <<platform, exists, oname, oconf, saving, ups, downs, deployed, events,
                   excused>>

(* An outdated object: Kubernetes patches it; DockerController.up removes the
   container with down(), which makes one if there is none, and starts again. *)
Change(w) ==
    /\ Looked(w, "up") /\ doing[w].seen \notin {Absent, doing[w].inst.conf}
    /\ \/ /\ platform = "kubernetes" /\ There(w) # Absent
          /\ Put(w, doing[w].inst.conf) /\ Advance(w)
          /\ excused' = excused \cup Stale(w)
       \/ /\ platform = "kubernetes" /\ There(w) = Absent
          /\ Error(w)
       \/ /\ platform = "docker"
          /\ Put(w, Absent)
          /\ doing' = [doing EXCEPT ![w].looked = FALSE, ![w].seen = Absent]
          /\ UNCHANGED <<slot, reading, excused>>
    /\ NeedsToken(w)
    /\ UNCHANGED <<platform, exists, oname, oconf, saving, ups, downs, events>>

\* down() of an object that was found: Kubernetes takes its absence for success, Docker does not.
Remove(w) ==
    /\ Looked(w, "down") /\ doing[w].seen # Absent
    /\ IF platform = "docker" /\ There(w) = Absent
         THEN Error(w)
         ELSE Put(w, Absent) /\ Advance(w) /\ excused' = excused \cup Dropped(w)
    /\ UNCHANGED <<platform, exists, oname, oconf, saving, account, ups, downs, events>>

(* down() of an object that is not there: nothing for Kubernetes; _get_container
   makes the container, to be removed next. *)
Missing(w) ==
    /\ Looked(w, "down") /\ doing[w].seen = Absent
    /\ \/ /\ platform = "kubernetes"
          /\ Advance(w) /\ excused' = excused \cup Dropped(w)
          /\ UNCHANGED deployed
       \/ /\ platform = "docker" /\ There(w) = Absent
          /\ Put(w, doing[w].inst.conf)
          /\ doing' = [doing EXCEPT ![w].seen = doing[w].inst.conf]
          /\ UNCHANGED <<slot, reading, excused>>
       \/ /\ platform = "docker" /\ There(w) # Absent
          /\ Error(w)
    /\ NeedsToken(w)
    /\ UNCHANGED <<platform, exists, oname, oconf, saving, ups, downs, events>>

\* The platform does not answer.
PlatformFails(w) ==
    /\ Event
    /\ doing[w] # NoJob
    /\ Error(w)
    /\ UNCHANGED <<platform, exists, oname, oconf, saving, account, ups, downs>>

\* The worker dies: the broker hands the task out again.
WorkerDies(w) ==
    /\ Event
    /\ doing[w] # NoJob
    /\ IF doing[w].act = "up" THEN ups' = ups + 1 /\ UNCHANGED downs
                            ELSE downs' = downs + 1 /\ UNCHANGED ups
    /\ doing' = [doing EXCEPT ![w] = NoJob] /\ reading' = reading \ {w}
    /\ excused' = excused \cup (IF doing[w].act = "down" /\ slot # doing[w].inst
                                 THEN {doing[w].inst.name} ELSE {})
    /\ UNCHANGED <<platform, exists, oname, oconf, saving, account, slot, deployed>>

-----------------------------------------------------------------------------
\* An outpost that has just been created: its account is there, its first task is queued.
DeployInit ==
    /\ platform \in Platforms
    /\ exists = TRUE /\ oname = (CHOOSE n \in Names : TRUE) /\ oconf = 0 /\ saving = ""
    /\ account = TRUE
    /\ slot = NoInstance
    /\ ups = 1 /\ downs = 0
    /\ deployed = [n \in Names |-> [o \in KObjects |-> Absent]]
    /\ doing = [w \in DWorkers |-> NoJob]
    /\ events = 0
    /\ reading = {} /\ excused = {}

DeployNext ==
    \/ SaveConfig \/ PostSave \/ Delete \/ ScheduleUp
    \/ \E n \in Names : PreSave(n)
    \/ \E w \in DWorkers :
         \/ BeginUp(w) \/ BeginDown(w) \/ Retrieve(w)
         \/ Create(w) \/ Keep(w) \/ Change(w) \/ Remove(w) \/ Missing(w)
         \/ PlatformFails(w) \/ WorkerDies(w)

Work(w) == Retrieve(w) \/ Create(w) \/ Keep(w) \/ Change(w) \/ Remove(w) \/ Missing(w)

(* The schedule fires, a save that has begun ends, the broker hands out every
   task in its turn, and a task that runs goes on. *)
DeployFairness ==
    /\ WF_deployVars(ScheduleUp) /\ WF_deployVars(PostSave)
    /\ SF_deployVars(\E w \in DWorkers : BeginUp(w))
    /\ SF_deployVars(\E w \in DWorkers : BeginDown(w))
    /\ \A w \in DWorkers : WF_deployVars(Work(w))

DeploySpec == DeployInit /\ [][DeployNext]_deployVars /\ DeployFairness

-----------------------------------------------------------------------------
(* Properties. *)

ConfVersions == 0..MaxEvents
Instances == {NoInstance} \cup [name : Names, conf : ConfVersions]

(* Type invariant: what is deployed, and what a task works on, is a version the
   outpost has had. *)
DeployTypeOK ==
    /\ platform \in Platforms /\ exists \in BOOLEAN /\ account \in BOOLEAN
    /\ oname \in Names /\ oconf \in ConfVersions /\ saving \in Names \cup {""}
    /\ slot \in Instances
    /\ ups \in Nat /\ downs \in Nat
    /\ deployed \in [Names -> [KObjects -> {Absent} \cup 0..oconf]]
    /\ \A w \in DWorkers :
         /\ doing[w].act \in {"none", "up", "down"} /\ doing[w].inst \in Instances
         /\ doing[w] # NoJob => doing[w].at \in Objects /\ doing[w].inst # NoInstance
    /\ reading \subseteq DWorkers /\ excused \subseteq Names

NothingToDo == saving = "" /\ ups = 0 /\ downs = 0 /\ \A w \in DWorkers : doing[w] = NoJob

Up(n) == \E o \in Objects : deployed[n][o] # Absent

(* Once all tasks have run, nothing is deployed under a name the outpost no
   longer has (outpost_pre_save, outpost_pre_delete_cleanup, outpost_controller),
   except in four ways, which the history records: the slot was filled again
   before anybody read it; a task that ended cleared a slot filled meanwhile; the
   teardown failed, or died when another had cleared the slot; or an "up" that
   had read the old instance wrote it again. *)
TornDown ==
    NothingToDo => \A n \in Names \ excused : Up(n) => exists /\ n = oname

(* As long as the outpost exists, the schedule brings its deployment to the
   saved configuration in the end, whatever teardowns raced or failed. *)
Deployed == exists => saving = "" /\ \A o \in Objects : deployed[oname][o] = oconf
DeployConverges == <>[]Deployed

(* Once the outpost is deleted and all tasks have run, its service account is
   gone: outpost_pre_delete_cleanup, "Ensure that Outpost's user is deleted". *)
AccountGone == NothingToDo /\ ~ exists => ~ account
=============================================================================
