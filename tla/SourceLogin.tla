------------------------------ MODULE SourceLogin ------------------------------
(* Logins through an external source (authentik/core/sources): the decision what
   to do with an identity, the flow that follows, and the stages appended to it.

   The decision is made in the callback and carried out by later requests of the
   browser, stage by stage: write the user, log in, save the connection, update
   the groups.  Between them other browsers, users and administrators change what
   the decision rested on.  The flows are the default ones, which require that
   nobody is logged in. *)
EXTENDS Integers, FiniteSets

CONSTANTS
    Browsers,
    Identities,     \* identifiers at the source
    LoginNames,
    UserKeys,       \* primary keys of users, in the order they are given
    ConnKeys,       \* primary keys of connections, in the order they are given
    SourceGroups,   \* groups the source asserts
    MatchModes,     \* user_matching_mode of the source
    GroupModes,     \* group_matching_mode of the source
    MaxChanges      \* bound on changes by others

VARIABLES
    mode, groupMode,    \* settings of the source
    claims,     \* identity -> [name, groups] the source asserts
    user,       \* user key -> username, or Unnamed
    conn,       \* connection key -> [id, user], or NoConn
    group,      \* group -> "none", "plain" or "linked" to the source
    member,     \* pairs <<user, group>>
    plan,       \* browser -> the plan in its session, or NoPlan
    logged,     \* browser -> user logged in, or None
    changes,
    made,       \* history: pairs <<identity, user>>: enrolled by a plan of it, or linked by the user
    raced       \* history: identities with two plans at once

sourceVars == <<mode, groupMode, claims, user, conn, group, member, plan, logged, changes, made, raced>>
settings == <<mode, groupMode, claims>>

Unnamed == "nobody"
None == 0
NoConn == [id |-> "none", user |-> None]
NoPlan == [at |-> "none"]

\* Keys are numbers, None is not one of them, and no user is called Unnamed.
ASSUME SourceAssumption ==
    UserKeys \subseteq Nat \ {0} /\ ConnKeys \subseteq Nat \ {0} /\ Unnamed \notin LoginNames

Users == {u \in UserKeys : user[u] # Unnamed}
Conns == {c \in ConnKeys : conn[c] # NoConn}
ConnsOf(i) == {c \in Conns : conn[c].id = i}
PlansOf(i) == {b \in Browsers : plan[b] # NoPlan /\ plan[b].id = i}
Planned == {b \in Browsers : plan[b] # NoPlan}
First(S) == CHOOSE c \in S : \A d \in S : c <= d
\* Keys of a sequence: above every one that is still known.
NewConns == {c \in ConnKeys : \A d \in Conns \cup {plan[b].conn : b \in Planned} : d < c}
NewUsers == UserKeys \ (Users \cup {plan[b].user : b \in Planned})
UsersNamed(name) == {u \in Users : user[u] = name}

-----------------------------------------------------------------------------
(* SourceMatcher.get_action, for an identity; it returns the action and, for
   "auth" and "link", the connection and its user. *)
Matched(i) ==
    IF ConnsOf(i) # {}
    THEN LET c == First(ConnsOf(i)) IN [do |-> "auth", conn |-> c, user |-> conn[c].user]
    ELSE LET there == UsersNamed(claims[i].name) IN
         IF mode = "identifier" \/ there = {} THEN [do |-> "enroll", conn |-> None, user |-> None]
         ELSE IF mode = "username_link"
              THEN [do |-> "link", conn |-> None, user |-> CHOOSE u \in there : TRUE]
              ELSE [do |-> "deny", conn |-> None, user |-> None]

\* The same, for a group that is asserted.
MatchedGroup(g) ==
    IF group[g] = "linked" THEN "auth"
    ELSE IF groupMode = "identifier" \/ group[g] = "none" THEN "enroll"
    ELSE IF groupMode = "name_link" THEN "link" ELSE "deny"

-----------------------------------------------------------------------------
(* The callback: SourceFlowManager.get_flow. *)

Races(i, b) == raced' = IF PlansOf(i) \ {b} = {} THEN raced ELSE raced \cup {i}

\* handle_auth and handle_enroll: the flow of the source, by its first stage.
FirstStage(m) == IF m.do = "enroll" THEN "write" ELSE "login"

\* _prepare_flow: what was found goes into the plan.
Prepared(i, m) == [at |-> FirstStage(m), id |-> i, conn |-> m.conn, user |-> m.user,
                   name |-> claims[i].name, groups |-> claims[i].groups, todo |-> claims[i].groups]

\* Nobody is logged in: a flow is planned, with the stages of the source appended.
Callback(b, i) ==
    LET m == Matched(i) IN
    /\ logged[b] = None
    /\ plan[b] = NoPlan
    /\ plan' = [plan EXCEPT ![b] = IF m.do = "deny" THEN NoPlan ELSE Prepared(i, m)]
    /\ Races(i, b)
    /\ UNCHANGED <<settings, user, conn, group, member, logged, changes, made>>

\* A user is logged in: handle_existing_link saves a connection of their own.
LinkByHand(b, i) ==
    /\ changes < MaxChanges /\ changes' = changes + 1
    /\ logged[b] \in Users /\ plan[b] = NoPlan
    /\ ConnsOf(i) = {} /\ NewConns # {}
    /\ \A c \in Conns : conn[c].user # logged[b]
    /\ conn' = [conn EXCEPT ![First(NewConns)] = [id |-> i, user |-> logged[b]]]
    /\ made' = made \cup {<<i, logged[b]>>}
    /\ Races(i, b)
    /\ UNCHANGED <<settings, user, group, member, plan, logged>>

-----------------------------------------------------------------------------
(* The stages of the flow, each in a request of its own. *)

Cancel(b) == plan' = [plan EXCEPT ![b] = NoPlan]

\* Mutant: a user with this name is updated instead.
UserWriteUpdates(b) ==
    LET u == IF UsersNamed(plan[b].name) = {} THEN First(NewUsers) ELSE First(UsersNamed(plan[b].name)) IN
    /\ plan[b].at = "write"
    /\ NewUsers # {}
    /\ user' = [user EXCEPT ![u] = plan[b].name]
    /\ plan' = [plan EXCEPT ![b].at = "login", ![b].user = u]
    /\ made' = IF UsersNamed(plan[b].name) = {} THEN made \cup {<<plan[b].id, u>>} ELSE made
    /\ UNCHANGED <<settings, conn, group, member, logged, changes, raced>>

\* UserWriteStageView: a new user, unless the name was taken since.
UserWrite(b) ==
    LET u == First(NewUsers) IN
    /\ plan[b].at = "write"
    /\ IF UsersNamed(plan[b].name) # {}
       THEN Cancel(b) /\ UNCHANGED <<user, made>>
       ELSE /\ NewUsers # {}
            /\ user' = [user EXCEPT ![u] = plan[b].name]
            /\ plan' = [plan EXCEPT ![b].at = "login", ![b].user = u]
            /\ made' = made \cup {<<plan[b].id, u>>}
    /\ UNCHANGED <<settings, conn, group, member, logged, changes, raced>>

\* UserLoginStageView.do_login; last_login of a user that was deleted cannot be saved.
UserLogin(b) ==
    /\ plan[b].at = "login" /\ plan[b].user \in Users
    /\ logged' = [logged EXCEPT ![b] = plan[b].user]
    /\ plan' = [plan EXCEPT ![b].at = "post"]
    /\ UNCHANGED <<settings, user, conn, group, member, changes, made, raced>>

\* The connection can be saved: its user exists, and has no other one of the source.
Savable(b, c) == plan[b].user \in Users /\ \A d \in Conns \ {c} : conn[d].user # plan[b].user

\* Mutant: what was found when the stage was planned is not saved under its own key.
PostSourceInserts(b) ==
    LET c == First(NewConns) IN
    /\ plan[b].at = "post"
    /\ plan[b].user \in Users
    /\ NewConns # {}
    /\ conn' = [conn EXCEPT ![c] = [id |-> plan[b].id, user |-> plan[b].user]]
    /\ plan' = [plan EXCEPT ![b].at = "groups", ![b].conn = c]
    /\ UNCHANGED <<settings, user, group, member, logged, changes, made, raced>>

(* PostSourceStage: saves the connection that get_action found or made; one that
   was removed meanwhile is inserted again, under its old key. *)
PostSource(b) ==
    LET c == IF plan[b].conn = None THEN First(NewConns) ELSE plan[b].conn IN
    /\ plan[b].at = "post"
    /\ plan[b].conn = None => NewConns # {}
    /\ Savable(b, c)
    /\ conn' = [conn EXCEPT ![c] = [id |-> plan[b].id, user |-> plan[b].user]]
    /\ plan' = [plan EXCEPT ![b].at = "groups", ![b].conn = c]
    /\ UNCHANGED <<settings, user, group, member, logged, changes, made, raced>>

\* Mutant: a group that is linked already is not taken off the list.
HandleGroupAgain(b, g) ==
    LET m == MatchedGroup(g) IN
    /\ plan[b].at = "groups" /\ g \in plan[b].todo
    /\ m = "enroll" => group[g] = "none"
    /\ IF m = "deny"
       THEN Cancel(b) /\ UNCHANGED group
       ELSE /\ group' = [group EXCEPT ![g] = "linked"]
            /\ plan' = IF m = "auth" THEN plan ELSE [plan EXCEPT ![b].todo = @ \ {g}]
    /\ UNCHANGED <<settings, user, conn, member, logged, changes, made, raced>>

(* GroupUpdateStage.handle_group: "enroll" creates the group, which fails if the
   name is taken, and then the connection; the others save the connection. *)
HandleGroup(b, g) ==
    LET m == MatchedGroup(g) IN
    /\ plan[b].at = "groups" /\ g \in plan[b].todo
    /\ m = "enroll" => group[g] = "none"
    /\ IF m = "deny"
       THEN Cancel(b) /\ UNCHANGED group
       ELSE /\ group' = [group EXCEPT ![g] = "linked"]
            /\ plan' = [plan EXCEPT ![b].todo = @ \ {g}]
    /\ UNCHANGED <<settings, user, conn, member, logged, changes, made, raced>>

\* The request dies between the group and its connection.
GroupOnly(b, g) ==
    /\ changes < MaxChanges /\ changes' = changes + 1
    /\ plan[b].at = "groups" /\ g \in plan[b].todo /\ group[g] = "none"
    /\ group' = [group EXCEPT ![g] = "plain"]
    /\ UNCHANGED <<settings, user, conn, member, plan, logged, made, raced>>

\* GroupUpdateStage.handle_groups: the user's groups of the source are replaced.
SetGroups(b) ==
    LET u == plan[b].user IN
    /\ plan[b].at = "groups" /\ plan[b].todo = {} /\ u \in Users
    /\ member' = {m \in member : m[1] # u \/ group[m[2]] # "linked"} \cup {<<u, g>> : g \in plan[b].groups}
    /\ Cancel(b)
    /\ UNCHANGED <<settings, user, conn, group, logged, changes, made, raced>>

-----------------------------------------------------------------------------
(* Others. *)

Change == changes < MaxChanges /\ changes' = changes + 1

\* An administrator creates a user, or renames one.
NameUser(u, name) ==
    /\ Change
    /\ u \in Users \/ u \in NewUsers
    /\ u \in NewUsers => u = First(NewUsers)
    /\ UsersNamed(name) = {}
    /\ user' = [user EXCEPT ![u] = name]
    /\ UNCHANGED <<settings, conn, group, member, plan, logged, made, raced>>

\* A user is deleted, with connections, memberships and sessions.
DeleteUser(u) ==
    /\ Change
    /\ u \in Users
    /\ user' = [user EXCEPT ![u] = Unnamed]
    /\ conn' = [c \in ConnKeys |-> IF conn[c].user = u THEN NoConn ELSE conn[c]]
    /\ member' = {m \in member : m[1] # u}
    /\ logged' = [b \in Browsers |-> IF logged[b] = u THEN None ELSE logged[b]]
    /\ plan' = [b \in Browsers |-> IF logged[b] = u THEN NoPlan ELSE plan[b]]
    /\ made' = {m \in made : m[2] # u}
    /\ UNCHANGED <<settings, group, raced>>

\* A connection is removed.
Unlink(c) ==
    /\ Change
    /\ c \in Conns
    /\ conn' = [conn EXCEPT ![c] = NoConn]
    /\ UNCHANGED <<settings, user, group, member, plan, logged, made, raced>>

\* The source asserts another name.
Rename(i, name) ==
    /\ Change
    /\ claims[i].name # name
    /\ claims' = [claims EXCEPT ![i].name = name]
    /\ UNCHANGED <<mode, groupMode, user, conn, group, member, plan, logged, made, raced>>

Logout(b) ==
    /\ logged[b] # None
    /\ logged' = [logged EXCEPT ![b] = None]
    /\ Cancel(b)
    /\ UNCHANGED <<settings, user, conn, group, member, changes, made, raced>>

-----------------------------------------------------------------------------
SourceInit ==
    /\ mode \in MatchModes /\ groupMode \in GroupModes
    /\ claims \in [Identities -> [name : LoginNames, groups : {SourceGroups}]]
    /\ \E taken \in LoginNames \cup {Unnamed} : user = [u \in UserKeys |-> IF u = First(UserKeys) THEN taken ELSE Unnamed]
    /\ conn = [c \in ConnKeys |-> NoConn]
    /\ group \in [SourceGroups -> {"none", "plain"}]
    /\ member = {}
    /\ plan = [b \in Browsers |-> NoPlan]
    /\ logged = [b \in Browsers |-> None]
    /\ changes = 0
    /\ made = {}
    /\ raced = {}

Stage(b) == UserWrite(b) \/ UserLogin(b) \/ PostSource(b) \/ SetGroups(b)
            \/ \E g \in SourceGroups : HandleGroup(b, g)

SourceNext ==
    \/ \E b \in Browsers : \/ Stage(b) \/ Logout(b)
                           \/ \E i \in Identities : Callback(b, i) \/ LinkByHand(b, i)
                           \/ \E g \in SourceGroups : GroupOnly(b, g)
    \/ \E u \in UserKeys : DeleteUser(u) \/ \E name \in LoginNames : NameUser(u, name)
    \/ \E c \in ConnKeys : Unlink(c)
    \/ \E i \in Identities, name \in LoginNames : Rename(i, name)

(* The browser follows the redirects of a flow. *)
SourceFairness == \A b \in Browsers : WF_sourceVars(Stage(b))

SourceSpec == SourceInit /\ [][SourceNext]_sourceVars /\ SourceFairness

-----------------------------------------------------------------------------
(* The type invariant: a plan past the login belongs to the session of its user,
   one that writes has no user yet, and memberships are of users that exist. *)
SourceTypeOK ==
    /\ \A b \in Planned : /\ plan[b].at = "write" <=> plan[b].user = None
                          /\ plan[b].at \in {"post", "groups"} => logged[b] = plan[b].user
                          /\ plan[b].todo \subseteq plan[b].groups
    /\ \A m \in member : m[1] \in Users
    /\ \A c \in Conns : conn[c].user \in Users

(* An identity that never had two plans at once has one connection at most, though
   the database only says that a user has one, and whatever connections and users
   are removed under a plan: every later login finds the same user. *)
OneAccount == \A i \in Identities \ raced : Cardinality(ConnsOf(i)) <= 1

(* Unless the source links by username, an identity is only ever connected to a
   user enrolled by one of its own logins, or who linked it: a user who took the
   name after the decision is not touched. *)
NotTakenOver == mode # "username_link" => \A c \in Conns : <<conn[c].id, conn[c].user>> \in made

(* A plan that goes nowhere: the user was deleted or has a connection already, or
   a group of that name exists that the source does not own. *)
Blocked(b) ==
    /\ plan[b] # NoPlan
    /\ \/ plan[b].user \notin Users \cup {None}
       \/ plan[b].at = "write" /\ NewUsers = {}
       \/ plan[b].at = "post" /\ (~ Savable(b, plan[b].conn) \/ NewConns = {})
       \/ plan[b].at = "groups" /\ groupMode = "identifier" /\ \E g \in plan[b].todo : group[g] = "plain"

(* A login comes to its end, unless it is blocked: again and again a browser has
   no plan, or one that goes nowhere (the stages SourceFlowManager appends). *)
LoginEnds == \A b \in Browsers : []<>(plan[b] = NoPlan \/ Blocked(b))
====
