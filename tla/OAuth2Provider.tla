--------------------------- MODULE OAuth2Provider ---------------------------
(***************************************************************************)
(* The OAuth2 provider: authorization codes, access and refresh tokens and *)
(* device codes as database rows, the views that write them, and what      *)
(* logout, deactivation and expiry do to them.                             *)
(*                                                                         *)
(* No request of these views runs in a transaction: a token request reads  *)
(* its grant, saves an access token, saves a refresh token and only then   *)
(* deletes or revokes the grant, each in a statement of its own.  A model  *)
(* instance that was read is a copy, and save() writes the whole of it:    *)
(* as an UPDATE, or as an INSERT when the row is gone.                     *)
(***************************************************************************)
EXTENDS Naturals, Sequences, FiniteSets

CONSTANTS
    Users,
    Sessions,       \* authenticated sessions that can be opened
    SessionUser,    \* the user of each
    Reqs,           \* requests at the token endpoint at the same time
    ResponseTypes,  \* response types clients ask for
    Scopes,         \* scope mappings of the provider
    Asked,          \* sets of scopes that clients ask for
    None,
    MaxRows,        \* bound: codes, device codes and refresh tokens created
    MaxExpired      \* bound: how many of them expire

ASSUME OAuth2Assumption ==
    /\ SessionUser \in [Sessions -> Users]
    /\ ResponseTypes \subseteq {"code", "id_token", "code id_token"}
    /\ Scopes \subseteq {"openid", "offline_access"}
    /\ Asked \subseteq SUBSET {"openid", "offline_access"}
    /\ None \notin Users \cup Sessions
    /\ MaxRows \in Nat /\ MaxExpired \in Nat

OpenID == "openid"
Offline == "offline_access"
Scope == {OpenID, Offline}
Kinds == {"code", "refresh", "device"}
Row == [kind : Kinds, user : Users \cup {None}, session : Sessions \cup {None},
        scope : SUBSET Scope, revoked : BOOLEAN]
\* Access tokens with the same fields are not told apart.  "via" is history: the
\* grant the token was given for.
AccessToken == [user : Users, session : Sessions \cup {None},
                via : {"authorize", "code", "refresh", "device"}]
Pks == 1..MaxRows

VARIABLES
    rows,       \* rows[pk]: the code, device code or refresh token with this primary
                \* key, None when there is none
    access,     \* the access tokens; their own revocation and expiry are left out
    nextPk,
    expired,    \* keys of rows whose expiry time has passed
    opened,     \* sessions opened so far
    sessions,   \* sessions that exist
    account,    \* account[u]: "active", "inactive" once saved, "closed" once the
                \* sessions are deleted too
    plan,       \* plan[s]: what the flow in session s works for
    req,        \* requests at the token endpoint
    answered,   \* history: codes and refresh tokens a token response was sent for
    overlapped  \* history: users with a grant in progress during their deactivation

tables == <<rows, access, nextPk, expired>>
auth == <<opened, sessions, account>>
history == <<answered, overlapped>>
vars == <<tables, auth, plan, req, history>>

NoReq == [pc |-> "idle", pk |-> 0, copy |-> None]
Plan == [pk : {0}, type : ResponseTypes, scope : SUBSET Scope]
          \cup [pk : Pks, copy : Row]
Request == {NoReq}
             \cup [pc : {"access", "refresh", "retire"}, pk : Pks, copy : Row]

TypeOK ==
    /\ rows \in [Pks -> Row \cup {None}]
    /\ access \subseteq AccessToken
    /\ nextPk \in 1..(MaxRows + 1)
    /\ expired \subseteq 1..(nextPk - 1)
    /\ sessions \subseteq opened /\ opened \subseteq Sessions
    /\ account \in [Users -> {"active", "inactive", "closed"}]
    /\ plan \in [Sessions -> Plan \cup {None}]
    /\ req \in [Reqs -> Request]
    /\ answered \subseteq Pks /\ overlapped \subseteq Users
    /\ \A pk \in Pks : rows[pk] # None =>
         pk < nextPk /\ (rows[pk].user = None => rows[pk].kind = "device")

Init ==
    /\ rows = [pk \in Pks |-> None] /\ access = {} /\ nextPk = 1 /\ expired = {}
    /\ opened = {} /\ sessions = {} /\ account = [u \in Users |-> "active"]
    /\ plan = [s \in Sessions |-> None]
    /\ req = [r \in Reqs |-> NoReq]
    /\ answered = {} /\ overlapped = {}
-----------------------------------------------------------------------------
Is(pk, kind) == rows[pk] # None /\ rows[pk].kind = kind

\* The grants the token endpoint accepts; a code is never marked as revoked.
Usable(pk) ==
    /\ Is(pk, "code") \/ (Is(pk, "refresh") /\ ~rows[pk].revoked)
    /\ pk \notin expired

\* The foreign key of a row that is written must exist.
Storable(row) == row.session # None => row.session \in sessions

\* Insert a sequence of rows under the next primary keys.
Insert(new) ==
    LET last == nextPk + Len(new)
    IN  /\ last <= MaxRows + 1
        /\ rows' = [pk \in Pks |-> IF pk \in nextPk..(last - 1) THEN new[pk - nextPk + 1]
                                   ELSE rows[pk]]
        /\ nextPk' = last
        /\ UNCHANGED expired

\* Model.save() of an instance that was read before.
Save(pk, copy) ==
    rows' = [rows EXCEPT ![pk] = copy] /\ UNCHANGED <<access, nextPk, expired>>

Delete(pk) ==
    rows' = [rows EXCEPT ![pk] = None] /\ UNCHANGED <<access, nextPk, expired>>

InFlight(u) == \E r \in Reqs : req[r].pc # "idle" /\ req[r].copy.user = u
-----------------------------------------------------------------------------
(* Sessions and accounts *)

Login(s) ==
    /\ s \notin opened /\ account[SessionUser[s]] = "active"
    /\ opened' = opened \cup {s} /\ sessions' = sessions \cup {s}
    /\ UNCHANGED <<tables, account, plan, req, history>>

DeleteSessionsKeepTokens(S) ==
    /\ sessions' = sessions \ S
    /\ plan' = [s \in Sessions |-> IF s \in S THEN None ELSE plan[s]]
    /\ access' = {[t EXCEPT !.session = IF @ \in S THEN None ELSE @] : t \in access}
    /\ UNCHANGED <<rows, nextPk, expired, opened>>

\* Deleting sessions deletes the access tokens (the signal) and the codes (the
\* cascade); refresh tokens stay and forget the session.
DeleteSessions(S) ==
    /\ sessions' = sessions \ S
    /\ plan' = [s \in Sessions |-> IF s \in S THEN None ELSE plan[s]]
    /\ rows' = [pk \in Pks |->
                  IF rows[pk] = None \/ rows[pk].session \notin S THEN rows[pk]
                  ELSE IF rows[pk].kind = "refresh"
                       THEN [rows[pk] EXCEPT !.session = None] ELSE None]
    /\ access' = {t \in access : t.session \notin S}
    /\ UNCHANGED <<nextPk, expired, opened>>

Logout(s) ==
    /\ s \in sessions
    /\ DeleteSessions({s})
    /\ UNCHANGED <<account, req, history>>

DeactivateAccessOnly(u) ==
    /\ account[u] = "active"
    /\ account' = [account EXCEPT ![u] = "inactive"]
    /\ access' = {t \in access : t.user # u}
    /\ overlapped' = IF InFlight(u) THEN overlapped \cup {u} ELSE overlapped
    /\ UNCHANGED <<rows, nextPk, expired, opened, sessions, plan, req, answered>>

\* PATCH of a user: the save, whose signal removes tokens but not codes ...
Deactivate(u) ==
    /\ account[u] = "active"
    /\ account' = [account EXCEPT ![u] = "inactive"]
    /\ access' = {t \in access : t.user # u}
    /\ rows' = [pk \in Pks |-> IF rows[pk] # None /\ rows[pk].user = u
                                  /\ rows[pk].kind # "code"
                               THEN None ELSE rows[pk]]
    /\ overlapped' = IF InFlight(u) THEN overlapped \cup {u} ELSE overlapped
    /\ UNCHANGED <<nextPk, expired, opened, sessions, plan, req, answered>>

\* ... and then the user's sessions.
CloseSessions(u) ==
    /\ account[u] = "inactive"
    /\ account' = [account EXCEPT ![u] = "closed"]
    /\ DeleteSessions({s \in sessions : SessionUser[s] = u})
    /\ UNCHANGED <<req, history>>
-----------------------------------------------------------------------------
(* The authorization endpoint *)

HasCode(type) == type \in {"code", "code id_token"}

\* The scopes of a request: all the configured ones by default, else the overlap.
\* offline_access is dropped from a response without a code.
CheckedScope(type, asked) ==
    LET overlap == IF asked = {} THEN Scopes ELSE asked \cap Scopes
    IN  IF HasCode(type) THEN overlap ELSE overlap \ {Offline}

\* PolicyAccessView: the session's user is logged in.
LoggedIn(s) == s \in sessions /\ account[SessionUser[s]] = "active"

\* The request starts the authorization flow.  A request that is refused or that
\* asks for another login first changes nothing here.
Authorize(s, type, asked) ==
    /\ LoggedIn(s)
    /\ type = "code" \/ OpenID \in CheckedScope(type, asked)
    /\ plan' = [plan EXCEPT ![s] =
                  [pk |-> 0, type |-> type, scope |-> CheckedScope(type, asked)]]
    /\ UNCHANGED <<tables, auth, req, history>>

NewRow(kind, user, s, scope) ==
    [kind |-> kind, user |-> user, session |-> s, scope |-> scope, revoked |-> FALSE]

Grant(user, s, via) == [user |-> user, session |-> s, via |-> via]

\* The last stage of the flow: the code, the access token, or both.
Fulfil(s) ==
    /\ s \in sessions /\ plan[s] # None /\ plan[s].pk = 0
    /\ Insert(IF HasCode(plan[s].type)
              THEN <<NewRow("code", SessionUser[s], s, plan[s].scope)>> ELSE <<>>)
    /\ access' = IF plan[s].type = "code" THEN access
                 ELSE access \cup {Grant(SessionUser[s], s, "authorize")}
    /\ plan' = [plan EXCEPT ![s] = None]
    /\ UNCHANGED <<auth, req, history>>
-----------------------------------------------------------------------------
(* Device codes *)

\* A device asks for a code; the scopes are taken as they come.
DeviceStart(asked) ==
    /\ Insert(<<NewRow("device", None, None, asked)>>)
    /\ UNCHANGED <<access, auth, plan, req, history>>

\* The user enters the code: the plan holds a copy of the row.
DeviceEnter(s, pk) ==
    /\ LoggedIn(s)
    /\ Is(pk, "device")
    /\ plan' = [plan EXCEPT ![s] = [pk |-> pk, copy |-> rows[pk]]]
    /\ UNCHANGED <<tables, auth, req, history>>

\* The finish page: every GET of it saves the copy, with the user set.
DeviceFinish(s) ==
    /\ s \in sessions /\ plan[s] # None /\ plan[s].pk # 0
    /\ LET u == SessionUser[s]
           copy == [plan[s].copy EXCEPT !.user = u]
       IN  /\ Save(plan[s].pk, copy)
           /\ plan' = [plan EXCEPT ![s].copy = copy]
           /\ overlapped' = IF account[u] = "active" THEN overlapped
                            ELSE overlapped \cup {u}
    /\ UNCHANGED <<auth, req, answered>>

DeviceLeave(s) ==
    /\ plan[s] # None /\ plan[s].pk # 0
    /\ plan' = [plan EXCEPT ![s] = None]
    /\ UNCHANGED <<tables, auth, req, history>>
-----------------------------------------------------------------------------
(* The token endpoint *)

Begin(r, pk) ==
    /\ req[r].pc = "idle"
    /\ req' = [req EXCEPT ![r] = [pc |-> "access", pk |-> pk, copy |-> rows[pk]]]
    /\ overlapped' = overlapped \cup {u \in Users : u = rows[pk].user
                                                     /\ account[u] = "inactive"}
    /\ UNCHANGED <<tables, auth, plan, answered>>

BeginCode(r, pk) == Is(pk, "code") /\ Usable(pk) /\ Begin(r, pk)

\* No scope given means those of the token; others must be a part of them, and
\* offline_access must be among them.
BeginRefresh(r, pk, asked) ==
    /\ Is(pk, "refresh") /\ Usable(pk)
    /\ LET overlap == asked \cap Scopes
           scope == IF overlap = {} THEN rows[pk].scope ELSE overlap
       IN  scope \subseteq rows[pk].scope /\ Offline \in scope
    /\ Begin(r, pk)

\* The expiry of a device code is not looked at.
BeginDevice(r, pk) == Is(pk, "device") /\ rows[pk].user # None /\ Begin(r, pk)

\* A request ends without an answer.
Fail(r) ==
    /\ req' = [req EXCEPT ![r] = NoReq]
    /\ UNCHANGED <<tables, auth, plan, history>>

\* What create_code_response, create_refresh_response and
\* create_device_code_response give out for the grant they read.
CodeTokens(code) ==
    [access |-> Grant(code.user, code.session, "code"),
     refresh |-> NewRow("refresh", code.user, code.session, code.scope)]

RefreshTokens(token) ==
    [access |-> Grant(token.user, token.session, "refresh"),
     refresh |-> NewRow("refresh", token.user, token.session, token.scope)]

\* The refresh token for a device code has no session.
DeviceTokens(code) ==
    [access |-> Grant(code.user, code.session, "device"),
     refresh |-> NewRow("refresh", code.user, None, code.scope)]

Tokens(copy) ==
    CASE copy.kind = "code" -> CodeTokens(copy)
      [] copy.kind = "refresh" -> RefreshTokens(copy)
      [] copy.kind = "device" -> DeviceTokens(copy)

SaveAccess(r) ==
    /\ req[r].pc = "access"
    /\ LET token == Tokens(req[r].copy).access
       IN  \/ /\ Storable(token)
              /\ access' = access \cup {token}
              /\ req' = [req EXCEPT ![r].pc =
                           IF Offline \in req[r].copy.scope THEN "refresh" ELSE "retire"]
              /\ UNCHANGED <<rows, nextPk, expired, auth, plan, history>>
           \/ ~Storable(token) /\ Fail(r)

SaveRefresh(r) ==
    /\ req[r].pc = "refresh"
    /\ LET token == Tokens(req[r].copy).refresh
       IN  \/ /\ Storable(token)
              /\ Insert(<<token>>)
              /\ req' = [req EXCEPT ![r].pc = "retire"]
              /\ UNCHANGED <<access, auth, plan, history>>
           \/ ~Storable(token) /\ Fail(r)

Answer(r) ==
    /\ req' = [req EXCEPT ![r] = NoReq]
    /\ answered' = IF req[r].copy.kind = "device" THEN answered
                   ELSE answered \cup {req[r].pk}
    /\ UNCHANGED <<auth, plan, overlapped>>

RetireCodeKeep(r) ==
    /\ req[r].pc = "retire" /\ req[r].copy.kind \in {"code", "device"}
    /\ Answer(r) /\ UNCHANGED tables

\* The code is deleted, whether or not it still exists.
RetireCode(r) ==
    /\ req[r].pc = "retire" /\ req[r].copy.kind \in {"code", "device"}
    /\ Delete(req[r].pk)
    /\ Answer(r)

RetireRefreshAsRead(r) ==
    /\ req[r].pc = "retire" /\ req[r].copy.kind = "refresh"
    /\ Save(req[r].pk, req[r].copy) /\ Answer(r)

\* The copy of the refresh token is saved as revoked.
RetireRefresh(r) ==
    /\ req[r].pc = "retire" /\ req[r].copy.kind = "refresh"
    /\ LET copy == [req[r].copy EXCEPT !.revoked = TRUE]
       IN  \/ Storable(copy) /\ Save(req[r].pk, copy) /\ Answer(r)
           \/ ~Storable(copy) /\ Fail(r)

\* The process that serves the request is stopped.
Interrupt(r) == req[r].pc # "idle" /\ Fail(r)
-----------------------------------------------------------------------------
(* Revocation and expiry *)

Revoke(pk) ==
    /\ Is(pk, "refresh")
    /\ Delete(pk)
    /\ UNCHANGED <<auth, plan, req, history>>

TimePasses(pk) ==
    /\ pk < nextPk /\ pk \notin expired /\ Cardinality(expired) < MaxExpired
    /\ expired' = expired \cup {pk}
    /\ UNCHANGED <<rows, access, nextPk, auth, plan, req, history>>

CleanExpired ==
    /\ \E pk \in expired : rows[pk] # None
    /\ rows' = [pk \in Pks |-> IF pk \in expired THEN None ELSE rows[pk]]
    /\ UNCHANGED <<access, nextPk, expired, auth, plan, req, history>>

Next ==
    \/ \E s \in Sessions : Login(s) \/ Logout(s) \/ Fulfil(s) \/ DeviceFinish(s)
                             \/ DeviceLeave(s)
    \/ \E u \in Users : Deactivate(u) \/ CloseSessions(u)
    \/ \E s \in Sessions, type \in ResponseTypes, asked \in Asked :
         Authorize(s, type, asked)
    \/ \E asked \in Asked : DeviceStart(asked)
    \/ \E s \in Sessions, pk \in Pks : DeviceEnter(s, pk)
    \/ \E r \in Reqs, pk \in Pks : BeginCode(r, pk) \/ BeginDevice(r, pk)
    \/ \E r \in Reqs, pk \in Pks, asked \in Asked : BeginRefresh(r, pk, asked)
    \/ \E r \in Reqs : SaveAccess(r) \/ SaveRefresh(r) \/ RetireCode(r)
                         \/ RetireRefresh(r) \/ Interrupt(r)
    \/ \E pk \in Pks : Revoke(pk) \/ TimePasses(pk)
    \/ CleanExpired

Spec == Init /\ [][Next]_vars
-----------------------------------------------------------------------------
(* Properties *)

\* Logout ends access (signals.py): an access token that was given out for a session,
\* directly or for a code, exists only as long as that session.  Access tokens that a
\* refresh token gave are meant to outlive it.
LogoutEndsAccess ==
    \A t \in access : t.via \in {"authorize", "code"} => t.session \in sessions

\* Once a user is deactivated through the API and no token request of the user
\* overlapped that, no code, token or device code of the user is left, and none comes
\* back from a copy that some request or session still holds.
DeactivationComplete ==
    \A u \in Users : account[u] = "closed" /\ u \notin overlapped =>
      /\ \A pk \in Pks : rows[pk] # None => rows[pk].user # u
      /\ \A t \in access : t.user # u

\* A code or token that was revoked, deleted or has expired is never accepted again,
\* although stale copies of its row are saved.
GoneStaysGone == [][\A pk \in 1..(nextPk - 1) : ~Usable(pk) => ~Usable(pk)']_vars

\* Requests that overlap may redeem a code or a refresh token more than once; a
\* request that starts after a token response was sent for it cannot.
NoExchangeAfterAnswer ==
    [][\A r \in Reqs : req[r].pc = "idle" /\ req'[r].pc # "idle"
         => req'[r].pk \notin answered]_vars
=============================================================================
