----------------------------- MODULE ScimSource -----------------------------
(***************************************************************************)
(* The SCIM source (authentik/sources/scim): clients of the source create,  *)
(* replace, patch and delete users, and set the members of a group.  A      *)
(* connection keeps the client's data for a user or a group.  A request     *)
(* reads the connection, works out the new data, looks up the user or group *)
(* and writes both in a transaction; requests overlap between these steps.  *)
(*                                                                          *)
(* A user's data is its userName, a top-level attribute, and a label that   *)
(* stands for what lies deeper (a sub-attribute, an item of a list).  The   *)
(* client sends no externalId.  The group is connected all the time.        *)
(***************************************************************************)
EXTENDS Naturals, Sequences, FiniteSets

CONSTANTS
    Persons,     \* primary keys of users
    ScimKeys,    \* primary keys of their connections
    ScimNames, Labels,
    Callers,     \* requests at a time
    Patches,     \* operations of a PATCH of a user: sequences of [path, value]
    MaxCalls     \* bound on the requests

ASSUME ScimAssumption == 0 \notin Persons \cup ScimKeys

VARIABLES
    account,    \* user key -> the User
    scim,       \* connection key -> the SCIMSourceUser
    grouped,    \* members of the group
    listed,     \* members in the data of its connection
    wanted,     \* members by the requests carried out so far
    call,       \* request -> what it does and has read
    calls,      \* requests so far
    collided,   \* users met by a request for another user, under the same name
    doubled,    \* users with a second connection
    missed,     \* users for whom a request on members found nothing to do, and was overtaken
    unlisted    \* members changed and the data of the connection was left alone

scimVars == <<account, scim, grouped, listed, wanted, call, calls, collided, doubled, missed,
              unlisted>>
memberVars == <<grouped, listed, wanted, missed, unlisted>>

NoLabel == 0
NoAccount == [there |-> FALSE, name |-> 0, label |-> NoLabel]
NoData == [name |-> 0, label |-> NoLabel]
NoScim == [user |-> 0, data |-> NoData]
New == 0
NoCall == [at |-> "none", key |-> New, user |-> 0, data |-> NoData, to |-> New, kept |-> NoLabel,
           op |-> "", who |-> {}, single |-> FALSE, seen |-> {}, did |-> {}, late |-> FALSE,
           crossed |-> {}]
Payloads == [name : ScimNames, label : Labels \cup {NoLabel}]

\* Some users may be there already; the group is connected and has no members.
ScimInit ==
    /\ account \in [Persons -> {NoAccount} \cup
                                 [there : {TRUE}, name : ScimNames, label : {NoLabel}]]
    /\ \A p, q \in Persons :
         p # q /\ account[p].there /\ account[q].there => account[p].name # account[q].name
    /\ scim = [k \in ScimKeys |-> NoScim]
    /\ grouped = {} /\ listed = {} /\ wanted = {} /\ missed = {} /\ unlisted = FALSE
    /\ call = [c \in Callers |-> NoCall] /\ calls = 0
    /\ collided = {} /\ doubled = {}

Here == {p \in Persons : account[p].there}
NamedScim(name) == {p \in Here : account[p].name = name}
ConnectionsOf(p) == {k \in ScimKeys : scim[k].user = p}

Arrive(c) == call[c].at = "none" /\ calls < MaxCalls /\ calls' = calls + 1
Leave(c) == call' = [call EXCEPT ![c] = NoCall]
Keep(c, k, p, data) ==
    call' = [call EXCEPT ![c] = [NoCall EXCEPT !.at = "look", !.key = k, !.user = p, !.data = data]]

------------------------------------------------------------------------------
(* Users *)

\* UsersView.post: a conflict if a user of that name has a connection.
PostUser(c) ==
    /\ Arrive(c)
    /\ \E data \in Payloads :
         /\ \A p \in NamedScim(data.name) : ConnectionsOf(p) = {}
         /\ Keep(c, New, 0, data)
    /\ UNCHANGED <<account, scim, memberVars, collided, doubled>>

\* UsersView.put: not found without a connection.
PutUser(c) ==
    /\ Arrive(c)
    /\ \E data \in Payloads, p \in Here : \E k \in ConnectionsOf(p) : Keep(c, k, p, data)
    /\ UNCHANGED <<account, scim, memberVars, collided, doubled>>

\* SCIMPatchProcessor.apply_patches: the operations in turn.
ApplyPatches(data, ops) ==
    LET apply[i \in 0..Len(ops)] ==
          IF i = 0 THEN data
          ELSE IF ops[i].path = "userName" THEN [apply[i - 1] EXCEPT !.name = ops[i].value]
          ELSE [apply[i - 1] EXCEPT !.label = ops[i].value]
    IN  apply[Len(ops)]

\* What apply_patches leaves in the dictionary it was given: it copies the top level only, so
\* what lies deeper and is there already is changed in both.
OriginalAfter(data, ops) ==
    [data EXCEPT !.label = IF data.label = NoLabel THEN NoLabel ELSE ApplyPatches(data, ops).label]

\* UsersView.patch: saved only if the patched data differ from the original.
PatchUser(c) ==
    /\ Arrive(c)
    /\ \E ops \in Patches, p \in Here : \E k \in ConnectionsOf(p) :
         LET patched == ApplyPatches(scim[k].data, ops)
         IN  IF patched # OriginalAfter(scim[k].data, ops)
               THEN Keep(c, k, p, patched)
               ELSE UNCHANGED call
    /\ UNCHANGED <<account, scim, memberVars, collided, doubled>>

\* As if an update under a name nobody has made a user of its own.
AnyTarget(c) ==
    LET named == NamedScim(call[c].data.name)
    IN  IF named # {} THEN CHOOSE p \in named : TRUE ELSE New

\* The user update_user writes: the one of that name, else the connection's, else a new one.
TargetUser(c) ==
    LET named == NamedScim(call[c].data.name)
    IN  IF named # {} THEN CHOOSE p \in named : TRUE
        ELSE IF call[c].key # New THEN call[c].user ELSE New

\* update_user loads the user; that of the connection must still be there.
LookUpUser(c) ==
    /\ call[c].at = "look"
    /\ IF call[c].key # New /\ call[c].user \notin Here THEN Leave(c)
       ELSE LET p == TargetUser(c)
            IN  call' = [call EXCEPT ![c].at = "save", ![c].to = p,
                                     ![c].kept = IF p = New THEN NoLabel ELSE account[p].label]
    /\ UNCHANGED <<account, scim, memberVars, calls, collided, doubled>>

\* Keys no row has and no request holds.
NewUsers == Persons \ (Here \cup {call[c].user : c \in Callers} \cup {call[c].to : c \in Callers})
NewKeys == {k \in ScimKeys : scim[k] = NoScim} \ {call[c].key : c \in Callers}

\* A row the database refuses: a name taken meanwhile, a connection of a deleted user.
Refused(c) ==
    \/ NamedScim(call[c].data.name) \ {call[c].to} # {}
    \/ call[c].key # New /\ call[c].to # call[c].user /\ call[c].user \notin Here

\* The user and the connection are saved whole, and inserted again if they were deleted
\* meanwhile.  Attributes the data lack stay as they were loaded.
WriteUser(c, p, k) ==
    LET data == call[c].data
        u == IF call[c].key = New THEN p ELSE call[c].user
    IN  /\ account' = [account EXCEPT ![p] =
             [there |-> TRUE, name |-> data.name,
              label |-> IF data.label = NoLabel THEN call[c].kept ELSE data.label]]
        /\ scim' = [scim EXCEPT ![k] = [user |-> u, data |-> data]]
        /\ collided' = IF call[c].key # New /\ call[c].to \notin {New, u}
                         THEN collided \cup {p, u} ELSE collided
        /\ doubled' = IF ConnectionsOf(u) \ {k} # {} THEN doubled \cup {u} ELSE doubled

SaveUser(c) ==
    /\ call[c].at = "save"
    /\ IF Refused(c) THEN UNCHANGED <<account, scim, collided, doubled>>
       ELSE \E p \in IF call[c].to = New THEN NewUsers ELSE {call[c].to},
               k \in IF call[c].key = New THEN NewKeys ELSE {call[c].key} : WriteUser(c, p, k)
    /\ Leave(c)
    /\ UNCHANGED <<memberVars, calls>>

Changed == {"skip", "list"}

\* The requests on the members under way are late, and crossed once they made their changes.
Overtaken(S) ==
    [d \in Callers |->
       IF call[d].op = "" THEN call[d]
       ELSE [call[d] EXCEPT !.late = TRUE,
                            !.crossed = IF call[d].at \in Changed THEN @ \cup S ELSE @]]
Pending(S) == \E d \in Callers : call[d].did \cap S # {}

\* UsersView.delete: the connections and the memberships go with the user.  The row waits for
\* a transaction that adds it to the group.
DeleteScimUser(c) ==
    /\ Arrive(c)
    /\ \E p \in Here :
         /\ ConnectionsOf(p) # {} /\ ~ Pending({p})
         /\ account' = [account EXCEPT ![p] = NoAccount]
         /\ scim' = [k \in ScimKeys |-> IF scim[k].user = p THEN NoScim ELSE scim[k]]
         /\ grouped' = grouped \ {p} /\ wanted' = wanted \ {p} /\ missed' = missed \ {p}
         /\ unlisted' = (unlisted \/ p \in grouped)
         /\ collided' = collided \ {p} /\ doubled' = doubled \ {p}
         /\ call' = Overtaken({p})
    /\ UNCHANGED listed

------------------------------------------------------------------------------
(* The members of the group *)

\* GroupsView.put: update_group locks the group, sets the members unless the list is empty,
\* and lists them.
PutMembers(c) ==
    /\ Arrive(c)
    /\ \E who \in SUBSET Here :
         LET set == IF who = {} THEN grouped ELSE who
             touched == (set \ grouped) \cup (grouped \ set)
         IN  /\ ~ Pending(touched)
             /\ grouped' = set /\ listed' = set /\ unlisted' = FALSE
             /\ wanted' = IF who = {} THEN wanted ELSE who
             /\ missed' = IF who = {} THEN missed ELSE {}
             /\ call' = Overtaken(touched)
    /\ UNCHANGED <<account, scim, collided, doubled>>

\* GroupsView.patch reads the connection.
PatchMembers(c) ==
    /\ Arrive(c)
    /\ \E op \in {"add", "remove"}, who \in (SUBSET Persons) \ {{}}, single \in BOOLEAN :
         /\ single => Cardinality(who) = 1
         /\ call' = [call EXCEPT ![c] = [NoCall EXCEPT !.at = "change", !.op = op, !.who = who,
                                                       !.single = single, !.seen = listed]]
    /\ UNCHANGED <<account, scim, memberVars, collided, doubled>>

\* The rows the operation inserts or deletes.
Changes(c) ==
    IF call[c].op = "add" THEN (call[c].who \cap Here) \ grouped ELSE call[c].who \cap grouped

Toggle(S, T) == (S \ T) \cup (T \ S)

\* A single member is appended to the list that was read, which is then compared with the
\* members: equal if nobody's key follows that of the new one.
ReadAfter(c) ==
    IF call[c].single /\ call[c].op = "add"
      THEN IF \A p \in call[c].who, q \in call[c].seen : q < p
             THEN {call[c].seen \cup call[c].who} ELSE {}
      ELSE {call[c].seen}

\* The operation within the transaction, then the comparison that decides whether the data of
\* the connection are saved.  A row another transaction has changed is waited for.
ChangeMembers(c) ==
    /\ call[c].at = "change" /\ ~ Pending(call[c].who)
    /\ LET did == Changes(c)
           same == Toggle(grouped, did) \in ReadAfter(c)
       IN  call' = [call EXCEPT ![c].who = @ \cap Here, ![c].did = did,
                                ![c].at = IF same THEN "skip" ELSE "list"]
    /\ UNCHANGED <<account, scim, memberVars, calls, collided, doubled>>

\* As if the members listed were those found by the comparison.
ListOwn(c) == Toggle(call[c].seen, call[c].did)

\* _convert_members within update_group, which holds the lock of the group.
ConvertMembers(c) == Toggle(grouped, call[c].did)

\* The transaction commits.
CommitMembers(c) ==
    /\ call[c].at \in Changed
    /\ grouped' = Toggle(grouped, call[c].did)
    /\ listed' = IF call[c].at = "list" THEN ConvertMembers(c) ELSE listed
    /\ wanted' = IF call[c].op = "add" THEN wanted \cup call[c].who
                 ELSE wanted \ call[c].who
    /\ missed' = (missed \ call[c].who) \cup ((call[c].who \ call[c].did) \cap call[c].crossed)
    /\ unlisted' = /\ call[c].at = "skip"
                   /\ unlisted \/ call[c].late \/ call[c].single
    /\ call' = [Overtaken(call[c].did) EXCEPT ![c] = NoCall]
    /\ UNCHANGED <<account, scim, calls, collided, doubled>>

\* The transaction is given up, as when it and a PUT wait for each other.
AbortMembers(c) ==
    /\ call[c].at \in Changed
    /\ Leave(c)
    /\ UNCHANGED <<account, scim, memberVars, calls, collided, doubled>>

ScimNext ==
    \E c \in Callers :
      \/ PostUser(c) \/ PutUser(c) \/ PatchUser(c) \/ LookUpUser(c) \/ SaveUser(c)
      \/ DeleteScimUser(c)
      \/ PutMembers(c) \/ PatchMembers(c) \/ ChangeMembers(c) \/ CommitMembers(c)
      \/ AbortMembers(c)

ScimSpec == ScimInit /\ [][ScimNext]_scimVars

------------------------------------------------------------------------------

ScimTypeOK ==
    /\ account \in [Persons -> [there : BOOLEAN, name : ScimNames \cup {0},
                                label : Labels \cup {NoLabel}]]
    /\ \A k \in ScimKeys : scim[k] # NoScim =>
                             scim[k].user \in Here /\ scim[k].data \in Payloads
    /\ grouped \subseteq Here /\ listed \subseteq Persons /\ wanted \subseteq Persons
    /\ calls \in 0..MaxCalls

\* What the source keeps for a user is what the user is: the connection's data and the user's
\* fields agree after any overlap of requests (update_user writes both in one transaction and
\* the row lock of the user puts such transactions in one order).  Not so for users that met
\* under one name, where update_user writes the other user, or that have two connections.
DataAgree ==
    \A k \in ScimKeys :
      LET u == scim[k].user
      IN  u # 0 /\ u \notin collided \cup doubled =>
            /\ account[u].name = scim[k].data.name
            /\ scim[k].data.label \in {NoLabel, account[u].label}

\* Everybody is a member or not as the last request about them said (GroupsView.put and patch,
\* users.add, remove and set), however requests overlap; but one that found nothing to do is
\* undone by one it overlaps.
MembersFollow == \A p \in Here \ missed : p \in grouped <=> p \in wanted

\* The members the connection lists, which the source answers with, are the members of the
\* group (_convert_members under the lock of update_group), unless a user was deleted, one
\* member was added outside a list, or requests overlapped before the comparison, since.
ListTrue == unlisted \/ listed = grouped
=============================================================================
