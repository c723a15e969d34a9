------------------------------- MODULE MCSchedules -------------------------------
(* Two instances of TaskScheduler in one run, chosen at the start: two workers
   over two tenants, with a crash and an API request; and one worker beside the
   starts of a process, with a scheduled object that is saved and deleted and a
   static schedule that its spec pauses. *)
EXTENDS MCTaskScheduler

VARIABLE instance

Starts == INSTANCE TaskScheduler WITH
    Workers <- {"w"}, NTenants <- 1, Static <- {"clean"}, Objects <- {"o1"},
    TenantOf <- [k \in {"clean", "o1"} |-> 1], SpecPaused <- {"clean"},
    MaxStarts <- 2, MaxCrashes <- 0

TwoWorkers == instance = "two workers"

MCInit ==
    /\ instance \in {"two workers", "starts"}
    /\ IF TwoWorkers THEN Init ELSE Starts!Init

MCNext ==
    /\ UNCHANGED instance
    /\ \/ TwoWorkers /\ Next
       \/ ~ TwoWorkers /\ Starts!Next

(* The fairness of TaskScheduler, asked of the two workers. *)
MCSpec ==
    /\ MCInit /\ [][MCNext]_<<vars, instance>>
    /\ \A w \in Workers : /\ WF_vars(TwoWorkers /\ Begin(w))
                          /\ WF_vars(TwoWorkers /\ SchedulerStep(w))

-----------------------------------------------------------------------------
(* The properties of TaskScheduler in the two instances. *)

\* An occurrence of a schedule is fired once, whichever workers run the scheduler and
\* wherever one is killed, unless an API request wrote back the next_run it had read.
FiredOnce == [][IF TwoWorkers THEN FiringNew ELSE Starts!FiringNew]_vars

\* After a firing the next run is the first match of the crontab still to come.
NextIsLeast == [][IF TwoWorkers THEN FiringAdvances ELSE Starts!FiringAdvances]_vars

\* A schedule that is due is fired, paused or deleted, in every tenant, although a
\* run ends at the first tenant whose lock another worker holds.
DueEnds == \A k \in Keys : (TwoWorkers /\ Due(k)) ~> ~ (TwoWorkers /\ Due(k))
=============================================================================
