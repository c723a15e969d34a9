--------------------------------- MODULE MCFlows ---------------------------------
(* FlowExecutor on two instances in one run, chosen at the start: overlapping requests of
   a browser in a flow with policies, and a browser that sends one request after the
   other through flows that restart and refuse. *)
EXTENDS MCFlowExecutor

VARIABLE instance

Overlaps == instance = "overlaps"

\* The flows that are asked for, and the bindings with policies in them.
Asked == IF Overlaps THEN {"authentication"} ELSE {"login", "refuse"}
Idle == {b \in Guarded : (b.id <= 4) # Overlaps}

MCInit == instance \in {"overlaps", "restarts"} /\ Init

\* Of the flows that are not asked for nothing changes; and the bounds of the instance.
Within ==
    /\ \A r \in Reqs : req'[r].flow = None \/ req'[r].flow \in Asked
    /\ \/ changes' = changes
       \/ /\ \A f \in Flows : f \in admitting' \/ (f \in Asked /\ ~Overlaps)
          /\ \A b \in Idle : policy'[b]
    /\ IF Overlaps THEN runs' <= 1 /\ sids' <= 2 /\ (cache' = cache \/ runs' > runs)
       ELSE \E r \in Reqs : \A q \in Reqs \ {r} : req'[q].at = "free"

MCNext == UNCHANGED instance /\ Next /\ Within

MCSpec == MCInit /\ [][MCNext]_<<vars, instance>>
=============================================================================
