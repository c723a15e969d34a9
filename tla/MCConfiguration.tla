------------------------------ MODULE MCConfiguration ------------------------------
(* Configuration that is applied from a distance, in one run: blueprint files
   (Blueprints), the connection of a running outpost (OutpostLink) and the
   deployment of one (OutpostDeploy).  They share no state, so a behaviour moves
   one of them, chosen at the start, and leaves the others as they began, where
   their properties hold. *)
EXTENDS Blueprints, OutpostLink, OutpostDeploy, TLC

VARIABLE part

vars == <<part, blueprintVars, linkVars, deployVars>>

MCNeeds == {<<"app", "base">>}
MCDesired == 1 :> "present" @@ 2 :> "absent" @@ 3 :> "must_created"

OfBlueprints == part = "blueprints"
OfLink == part = "link"
OfDeploy == part = "deploy"

Init ==
    /\ part \in {"blueprints", "link", "deploy"}
    /\ BlueprintInit /\ (~ OfBlueprints => \A p \in Paths : file[p] = Gone)
    /\ LinkInit /\ (~ OfLink => eventConn # 0)
    /\ DeployInit /\ (~ OfDeploy => platform = "docker")

Next ==
    \/ OfBlueprints /\ BlueprintNext /\ UNCHANGED <<part, linkVars, deployVars>>
    \/ OfLink /\ LinkNext /\ UNCHANGED <<part, blueprintVars, deployVars>>
    \/ OfDeploy /\ DeployNext /\ UNCHANGED <<part, blueprintVars, linkVars>>

(* The fairness of the three modules, asked of the part that moves. *)
Spec ==
    /\ Init /\ [][Next]_vars
    /\ WF_blueprintVars(OfBlueprints /\ Schedule)
    /\ WF_blueprintVars(OfBlueprints /\ \E w \in BWorkers : Find(w))
    /\ WF_blueprintVars(OfBlueprints /\ \E w \in BWorkers : TakeApply(w))
    /\ \A w \in BWorkers :
         WF_blueprintVars(OfBlueprints /\ (StepDiscovery(w) \/ StepApply(w)))
    /\ WF_linkVars(OfLink /\ SendUpdate)
    /\ WF_linkVars(OfLink /\ Health)
    /\ WF_linkVars(OfLink /\ EventHandler)
    /\ \A c \in Conns : WF_linkVars(OfLink /\ Socket(c))
    /\ \A r \in Routines : WF_linkVars(OfLink /\ Reconnect(r))
    /\ \A p \in Refreshers : WF_linkVars(OfLink /\ OnRefresh(p))
    /\ WF_deployVars(OfDeploy /\ ScheduleUp)
    /\ WF_deployVars(OfDeploy /\ PostSave)
    /\ SF_deployVars(OfDeploy /\ \E w \in DWorkers : BeginUp(w))
    /\ SF_deployVars(OfDeploy /\ \E w \in DWorkers : BeginDown(w))
    /\ \A w \in DWorkers : WF_deployVars(OfDeploy /\ Work(w))

(* The event connection of an outpost comes back, open and in the channel group,
   although two goroutines may both reconnect (recentEvents, initEvent,
   startEventHealth): Reconnects, for the behaviours in which the link moves. *)
ConnectionReturns == <>[](OfLink => Reaches(eventConn))

(* The schedule brings the deployment of an outpost to its saved configuration,
   whatever teardowns raced or failed (outpost_controller, the controllers' up):
   DeployConverges, for the behaviours in which the deployment moves. *)
DeploymentConverges == <>[](OfDeploy => Deployed)
=============================================================================
