------------------------------ MODULE TaskQueue ------------------------------
(***************************************************************************)
(* What the task broker promises to those who send tasks, without rows,    *)
(* sessions, locks, notifications or processes: a task is run by one       *)
(* thread at a time and only while it is open, it is done only after a run *)
(* that succeeded, it is rejected only when every attempt it is entitled   *)
(* to has failed, and its result stays until it is purged or the task is   *)
(* opened again.                                                           *)
(*                                                                         *)
(* The promise is made for as long as the system is orderly: no session is *)
(* lost under a running task and no message is claimed on another queue    *)
(* than its own.                                                           *)
(***************************************************************************)
EXTENDS Naturals

CONSTANTS Msgs, MaxRetries

VARIABLES
    status,     \* status[m]: unsent, open, done, rejected or deleted
    running,    \* tasks a thread is running
    failures,   \* failures[m]: runs of m that failed
    succeeded,  \* tasks with a successful run since they were last opened
    orderly     \* the promise holds

vars == <<status, running, failures, succeeded, orderly>>

Ended == {"done", "rejected"}

Init ==
    /\ status = [m \in Msgs |-> "unsent"]
    /\ running = {} /\ failures = [m \in Msgs |-> 0] /\ succeeded = {}
    /\ orderly = TRUE

Become(m, s) == status' = [status EXCEPT ![m] = s]

Submit(m) ==
    /\ status[m] = "unsent" /\ Become(m, "open")
    /\ UNCHANGED <<running, failures, succeeded, orderly>>

Start(m) ==
    /\ status[m] = "open" /\ m \notin running
    /\ running' = running \cup {m}
    /\ UNCHANGED <<status, failures, succeeded, orderly>>

Pass(m) ==
    /\ m \in running /\ running' = running \ {m}
    /\ succeeded' = succeeded \cup {m}
    /\ UNCHANGED <<status, failures, orderly>>

\* The task stays open, to be tried again or to be rejected.
Fail(m) ==
    /\ m \in running /\ running' = running \ {m}
    /\ failures' = [failures EXCEPT ![m] = @ + 1]
    /\ succeeded' \in {succeeded, succeeded \ {m}}
    /\ UNCHANGED <<status, orderly>>

Complete(m) ==
    /\ status[m] = "open" /\ m \in succeeded /\ Become(m, "done")
    /\ UNCHANGED <<running, failures, succeeded, orderly>>

Reject(m) ==
    /\ status[m] = "open" /\ failures[m] > MaxRetries /\ Become(m, "rejected")
    /\ UNCHANGED <<running, failures, succeeded, orderly>>

\* A restart through the API, or the next attempt after a delay: what ran before does
\* not count.
Reopen(m) ==
    /\ status[m] # "unsent" /\ Become(m, "open")
    /\ succeeded' = succeeded \ {m}
    /\ UNCHANGED <<running, failures, orderly>>

\* A process ends with what it runs.
Interrupt ==
    /\ running' \in SUBSET running
    /\ UNCHANGED <<status, failures, succeeded, orderly>>

\* A process that shuts down gives back what it had claimed and not started.
Requeue(ms) ==
    /\ \A m \in ms : status[m] \in Ended \cup {"open"}
    /\ status' = [m \in Msgs |-> IF m \in ms THEN "open" ELSE status[m]]
    /\ UNCHANGED <<running, failures, succeeded, orderly>>

Purge(ms) ==
    /\ \A m \in ms : status[m] \in Ended
    /\ status' = [m \in Msgs |-> IF m \in ms THEN "deleted" ELSE status[m]]
    /\ UNCHANGED <<running, failures, succeeded, orderly>>

TaskStep(m) ==
    \/ Submit(m) \/ Start(m) \/ Pass(m) \/ Fail(m)
    \/ Complete(m) \/ Reject(m) \/ Reopen(m)

Next ==
    \/ \E m \in Msgs : TaskStep(m)
    \/ Interrupt
    \/ \E ms \in SUBSET Msgs : Requeue(ms) \/ Purge(ms)
    \/ orderly' = FALSE

Spec == Init /\ [][Next]_vars
=============================================================================
