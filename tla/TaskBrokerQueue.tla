---------------------------- MODULE TaskBrokerQueue ----------------------------
(* TaskBroker implements TaskQueue: the refinement mapping, and the invariant
   that the proof needs beyond those of TaskBroker. *)
EXTENDS TaskBroker

\* A row that is queued or consumed is an open task.
StatusOf(r) == IF r.state \in Open THEN "open" ELSE r.state
statusBar == [m \in Msgs |-> StatusOf(row[m])]
runningBar == {d.msg.m : d \in {e \in delivery : e.phase = "running"}}

Queue == INSTANCE TaskQueue WITH
    status <- statusBar, running <- runningBar, orderly <- Orderly

\* What senders see of the table, the claims, the locks and the acknowledgements of the
\* broker is a queue that runs a task in one thread at a time and only while it is
\* open, and that records a result only after the run, or the failures, it stands for.
ImplementsQueue == Queue!Spec

-----------------------------------------------------------------------------
(* Behind the refinement: what holds, beyond IInv, as long as Orderly does. *)

\* A delivery that has its row still to itself: a live main consumer has not begun to
\* acknowledge it.
Working(d) ==
    /\ d.msg.queue = "main" /\ pc[d.c] # "stopped"
    /\ d.phase \in {"waiting", "running", "failed"}
Busy ==
    \A d \in delivery :
       Working(d) => row[d.msg.m].queue = "main" /\ row[d.msg.m].state \in Open

\* The acknowledgement of a delayed message, whose copy was sent to the actor queue
\* before, finds no claimed row on the delay queue.
Forwarded ==
    \A d \in delivery :
       d.msg.queue = "dq" /\ d.phase = "ended"
         => ~(row[d.msg.m].queue = "dq" /\ row[d.msg.m].state = "consumed")

\* Tasks finish on the actor queue and are restarted there; what is delivered or
\* restarted was sent.
Placed ==
    /\ \A m \in Msgs : row[m].state \in Finished => row[m].queue = "main"
    /\ \A r \in api : r.queue = "main" /\ row[r.m].state # "unsent"
    /\ \A d \in delivery : /\ d.phase = "failed" => d.msg.queue = "main"
                           /\ row[d.msg.m].state # "unsent"

OpenInv == Orderly => Busy /\ Forwarded /\ Placed
=============================================================================
