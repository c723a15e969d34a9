-------------------------------- MODULE MCSources --------------------------------
(* How users come in and what they reach, in one run: the synchronisation of a
   directory (LdapSource), logins through a source (SourceLogin), and remote access
   to an endpoint (RemoteAccess).  They share no state here, so a behaviour moves
   one of them, chosen at the start, and leaves the others as one of their initial
   states, where their properties hold. *)
EXTENDS LdapSource, SourceLogin, RemoteAccess

VARIABLE part

vars == <<part, ldapVars, sourceVars, racVars>>

MCOptions == {o \in [deletes : BOOLEAN, lookup : BOOLEAN] : o.lookup => o.deletes}

(* One instance, two of one outpost, or one of each of two outposts. *)
MCAssignments == {<<1>>, <<1, 1>>, <<1, 2>>}

OfLdap == part = "ldap"
OfLogin == part = "login"
OfRemote == part = "remote"

\* The settings of a part that does not move are fixed.
Init ==
    /\ part \in {"ldap", "login", "remote"}
    /\ LdapInit /\ (~ OfLdap => ~ options.deletes /\ ~ options.lookup)
    /\ SourceInit /\ (mode = "identifier" <=> groupMode = "identifier")
    /\ ~ OfLogin => /\ mode = "identifier" /\ groupMode = "identifier"
                    /\ \A i \in Identities : claims[i].name = CHOOSE n \in LoginNames : TRUE
                    /\ \A u \in UserKeys : user[u] = Unnamed
                    /\ \A g \in SourceGroups : group[g] = "none"
    /\ RemoteInit /\ session[1] = "open"
    /\ ~ OfRemote => ~ deletes /\ outpost = <<1>>

Next ==
    \/ OfLdap /\ LdapNext /\ UNCHANGED <<part, sourceVars, racVars>>
    \/ OfLogin /\ SourceNext /\ UNCHANGED <<part, ldapVars, racVars>>
    \/ OfRemote /\ RemoteNext /\ UNCHANGED <<part, ldapVars, sourceVars>>

(* The fairness of the three modules, asked of the part that moves. *)
Spec ==
    /\ Init /\ [][Next]_vars
    /\ \A s \in Sources : /\ WF_ldapVars(OfLdap /\ BeginSync(s))
                          /\ WF_ldapVars(OfLdap /\ StepSync(s))
    /\ WF_ldapVars(OfLdap /\ \E w \in SyncWorkers : TakePage(w))
    /\ \A w \in SyncWorkers : WF_ldapVars(OfLdap /\ StepPage(w))
    /\ \A b \in Browsers : WF_sourceVars(OfLogin /\ Stage(b))
    /\ \A s \in Sessions : WF_racVars(OfRemote /\ SessionDeleted(s))
    /\ \A c \in Tabs :
         /\ WF_racVars(OfRemote /\ InitOutpost(c))
         /\ WF_racVars(OfRemote /\ (OnDisconnect(c) \/ OnOutpostConnected(c) \/ LeaveGroup(c)))
         /\ WF_racVars(OfRemote /\ DataAfterExpiry(c))
    /\ \A c \in Tabs, i \in Instances :
         /\ WF_racVars(OfRemote /\ (Dial(c, i) \/ DialFails(c, i)))
         /\ WF_racVars(OfRemote /\ OutpostDisconnects(c, i))
=============================================================================
