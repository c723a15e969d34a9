------------------------------- MODULE MCServices -------------------------------
(* Six parts of the server that share no state, in one run: the policy engine
   (PolicyEngine), the authenticators of a user (Authenticators), invitations and
   mailed links (Enrolment), event notifications (Notifications), shared signals
   (SharedSignals) and the SCIM source (ScimSource).  A behaviour moves one of
   them, chosen at the start, and leaves the others as one of their initial
   states, where their properties hold. *)
EXTENDS PolicyEngine, Authenticators, Enrolment, Notifications, SharedSignals, ScimSource

VARIABLE part

vars == <<part, policyVars, authVars, enrolVars, notifyVars, signalVars, scimVars>>

(* The rows of the bindings: plain, negated with a failure result, or static. *)
Row(policy, negate, failure) ==
    [policy |-> policy, negate |-> negate, failure |-> failure, enabled |-> TRUE]
Plain == Row(TRUE, FALSE, FALSE)
Negated == Row(TRUE, TRUE, TRUE)
Member == Row(FALSE, FALSE, FALSE)
MCAttrs == {Plain, Negated, Member}
MCRows == {<<Plain, Negated>>, <<Negated, Member>>}

(* What the policies say of alice; bob always passes. *)
About(alice) ==
    [b \in Bindings |-> [u \in Users |-> IF u = "alice" THEN alice[b] ELSE "pass"]]
MCMatches == {About(<<"exception", "fail">>), About(<<"error", "pass">>)}
MCOf == [r \in Requests |->
           [user |-> IF r = 1 THEN "alice" ELSE "bob", session |-> "s", debug |-> FALSE]]

(* Two devices of different classes, in the order of INSTALLED_APPS. *)
MCClasses == {<<"side", "static">>, <<"side", "totp">>, <<"static", "totp">>}

(* Notification rules: what the policy matches, or whether it raises and what the
   binding makes of that, and whom the rule notifies. *)
Rule(matching, raises, failure, group) ==
    [matches |-> matching, raises |-> raises, failure |-> failure, eventUser |-> ~ raises,
     group |-> group]
Silent == Rule({}, FALSE, FALSE, <<>>)
Setup(first, second, mode, once) ==
    [rule |-> <<first, second>>, mode |-> <<mode>>, once |-> <<once>>, addresses |-> {1},
     gdpr |-> TRUE]
MCSetups ==
    {Setup(Rule({"request"}, FALSE, FALSE, <<1, 2>>), Silent, "webhook", TRUE),
     Setup(Rule({"request", "mail"}, FALSE, FALSE, <<2>>), Silent, "local", FALSE),
     Setup(Rule({"request"}, FALSE, FALSE, <<2>>), Silent, "email", FALSE),
     Setup(Rule({}, TRUE, TRUE, <<>>), Rule({}, TRUE, FALSE, <<1>>), "local", FALSE)}

(* A sub-attribute alone, and the name with a sub-attribute. *)
Op(path, value) == [path |-> path, value |-> value]
MCPatches == {<<Op("label", 1)>>, <<Op("userName", 2), Op("label", 1)>>}

OfPolicy == part = "policy"
OfAuth == part = "authenticators"
OfEnrol == part = "enrolment"
OfNotify == part = "notifications"
OfSignals == part = "signals"
OfScim == part = "scim"

\* The settings of a part that does not move are fixed.
Init ==
    /\ part \in {"policy", "authenticators", "enrolment", "notifications", "signals", "scim"}
    /\ PolicyInit /\ (attr = <<Plain, Negated>> <=> matches = About(<<"exception", "fail">>))
    /\ ~ OfPolicy => /\ attr = <<Plain, Negated>> /\ matches = About(<<"exception", "fail">>)
                     /\ engineMode = "all" /\ ~ forked
    /\ AuthInit
    /\ ~ OfAuth => class = <<"side", "static">> /\ spent = Devices
    /\ EnrolInit /\ (IF OfEnrol THEN single # openEnded ELSE ~ single /\ ~ openEnded)
    /\ NotifyInit /\ (~ OfNotify => notifySetup.rule[1].raises)
    /\ SignalInit /\ (~ OfSignals => requests = {})
    /\ ScimInit /\ (~ OfScim => Here = {})

Next ==
    \/ OfPolicy /\ PolicyNext
       /\ UNCHANGED <<part, authVars, enrolVars, notifyVars, signalVars, scimVars>>
    \/ OfAuth /\ AuthNext
       /\ UNCHANGED <<part, policyVars, enrolVars, notifyVars, signalVars, scimVars>>
    \/ OfEnrol /\ EnrolNext
       /\ UNCHANGED <<part, policyVars, authVars, notifyVars, signalVars, scimVars>>
    \/ OfNotify /\ NotifyNext
       /\ UNCHANGED <<part, policyVars, authVars, enrolVars, signalVars, scimVars>>
    \/ OfSignals /\ SignalNext
       /\ UNCHANGED <<part, policyVars, authVars, enrolVars, notifyVars, scimVars>>
    \/ OfScim /\ ScimNext
       /\ UNCHANGED <<part, policyVars, authVars, enrolVars, notifyVars, signalVars>>

Spec == Init /\ [][Next]_vars
=============================================================================
