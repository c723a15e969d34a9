----------------------------- MODULE MCOutgoingSync -----------------------------
(* Instances of OutgoingSync. *)
EXTENDS OutgoingSync

AllConfigs == {[patch |-> TRUE, filter |-> TRUE], [patch |-> FALSE, filter |-> TRUE],
               [patch |-> FALSE, filter |-> FALSE]}
=============================================================================
