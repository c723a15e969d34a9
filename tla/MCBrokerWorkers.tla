---------------------------- MODULE MCBrokerWorkers ----------------------------
(* Two workers of which one crashes and one is shut down, and a task that is
   restarted through the API. *)
EXTENDS TaskBrokerQueue, TLC

Symmetry == Permutations(Procs)

\* Orderly is false for good from where a message was misrouted.
Routed == ~ misrouted
=============================================================================
