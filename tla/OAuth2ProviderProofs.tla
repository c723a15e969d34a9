------------------------- MODULE OAuth2ProviderProofs -------------------------
(***************************************************************************)
(* Proofs about OAuth2Provider, for every set of users, sessions, requests *)
(* and scopes and every number of rows.                                    *)
(***************************************************************************)
EXTENDS OAuth2Provider, TLAPS

-----------------------------------------------------------------------------
(* The inductive invariant *)

\* What a token request in progress has read: a grant of some user, and, for a code,
\* with its session.
RequestCopies ==
    \A r \in Reqs : req[r].pc # "idle" =>
      /\ req[r].pk < nextPk
      /\ req[r].copy.user # None
      /\ req[r].copy.kind = "code" => req[r].copy.session # None

\* What a flow that was started from a device code keeps: that code.
PlanCopies ==
    \A s \in Sessions : plan[s] # None /\ plan[s].pk # 0 =>
      plan[s].pk < nextPk /\ plan[s].copy.kind = "device"

\* A code belongs to a session that exists, and to the user of that session: codes are
\* deleted with it, and none is written back from a copy.
CodesOfSessions ==
    \A pk \in Pks : Is(pk, "code") =>
      /\ rows[pk].session \in sessions
      /\ rows[pk].user = SessionUser[rows[pk].session]

\* From the first half of a deactivation on, the user has no request under way, no
\* refresh token or device code, and access tokens only through a session that the
\* second half will delete.
Deactivated(u) == account[u] # "active" /\ u \notin overlapped
NothingLeft ==
    \A u \in Users : Deactivated(u) =>
      /\ ~InFlight(u)
      /\ \A pk \in Pks : rows[pk] # None /\ rows[pk].user = u => rows[pk].kind = "code"
      /\ \A t \in access : t.user = u => t.session \in sessions /\ SessionUser[t.session] = u

SessionsClosed ==
    \A u \in Users : account[u] = "closed" => \A s \in sessions : SessionUser[s] # u

\* The row, a request or a flow has a grant of this kind under this primary key.
Holds(pk, kind) ==
    \/ Is(pk, kind)
    \/ \E r \in Reqs : req[r].pc # "idle" /\ req[r].pk = pk /\ req[r].copy.kind = kind
    \/ \E s \in Sessions : /\ plan[s] # None /\ plan[s].pk # 0 /\ plan[s].pk = pk
                           /\ plan[s].copy.kind = kind

\* A primary key stands for one kind of grant for good, whatever copies of its row are
\* around; a code or refresh token that was answered is deleted or revoked.
KindsFixed ==
    /\ \A pk \in Pks : \A k1, k2 \in Kinds : Holds(pk, k1) /\ Holds(pk, k2) => k1 = k2
    /\ \A pk \in answered :
         /\ pk < nextPk /\ ~Holds(pk, "device")
         /\ rows[pk] # None => rows[pk].kind = "refresh" /\ rows[pk].revoked

IInv ==
    /\ TypeOK /\ RequestCopies /\ PlanCopies /\ CodesOfSessions /\ LogoutEndsAccess
    /\ NothingLeft /\ SessionsClosed /\ KindsFixed

-----------------------------------------------------------------------------
(* Operators of the model *)

\* The bounds are numbers, and None stands for no user and no session.
LEMMA Bounds ==
    MaxRows \in Nat /\ MaxExpired \in Nat /\ None \notin Users /\ None \notin Sessions
  BY OAuth2Assumption, Zenon

\* One row is inserted under the next primary key.
LEMMA InsertOne ==
    ASSUME TypeOK, NEW row \in Row, Insert(<<row>>)
    PROVE  /\ nextPk \in Pks /\ nextPk' = nextPk + 1 /\ expired' = expired
           /\ rows' = [rows EXCEPT ![nextPk] = row]
  <1>1. Len(<<row>>) = 1 /\ <<row>>[1] = row
    OBVIOUS
  <1>0. nextPk \in 1..(MaxRows + 1) /\ MaxRows \in Nat
    BY Bounds, Zenon DEF TypeOK
  <1>2. nextPk \in Nat /\ nextPk >= 1 /\ MaxRows \in Nat
    BY <1>0
  <1>3. nextPk + 1 <= MaxRows + 1 /\ nextPk' = nextPk + 1 /\ expired' = expired
    BY <1>1 DEF Insert
  <1>4. rows' = [pk \in Pks |-> IF pk \in nextPk..((nextPk + 1) - 1)
                                THEN <<row>>[pk - nextPk + 1] ELSE rows[pk]]
    BY <1>1 DEF Insert
  <1>5. \A pk \in Pks : pk \in nextPk..((nextPk + 1) - 1) <=> pk = nextPk
    BY <1>2 DEF Pks
  <1>6. nextPk - nextPk + 1 = 1
    BY <1>2
  <1>7. rows' = [pk \in Pks |-> IF pk = nextPk THEN row ELSE rows[pk]]
    BY <1>1, <1>4, <1>5, <1>6, SMTT(60)
  <1>8. rows \in [Pks -> Row \cup {None}]
    BY DEF TypeOK
  <1>9. nextPk \in Pks
    BY <1>2, <1>3 DEF Pks
  <1>10. rows' = [rows EXCEPT ![nextPk] = row]
    BY <1>7, <1>8, <1>9, ZenonT(60)
  <1> QED BY <1>3, <1>9, <1>10, Zenon

\* Inserting no row changes nothing (a response without a code).
LEMMA InsertNone ==
    ASSUME TypeOK, Insert(<<>>)
    PROVE  UNCHANGED <<rows, nextPk, expired>>
  <1>1. Len(<<>>) = 0
    OBVIOUS
  <1>2. nextPk \in Nat /\ nextPk >= 1
    BY DEF TypeOK
  <1>3. nextPk' = nextPk /\ expired' = expired
    BY <1>1, <1>2 DEF Insert
  <1>4. rows' = [pk \in Pks |-> IF pk \in nextPk..((nextPk + 0) - 1)
                                THEN <<>>[pk - nextPk + 1] ELSE rows[pk]]
    BY <1>1 DEF Insert
  <1>5. nextPk..((nextPk + 0) - 1) = {}
    BY <1>2
  <1>6. rows' = [pk \in Pks |-> rows[pk]]
    BY <1>4, <1>5
  <1> QED BY <1>3, <1>6 DEF TypeOK

\* What typing says of a row.
LEMMA RowTyped ==
    ASSUME TypeOK, NEW pk \in Pks, rows[pk] # None
    PROVE  rows[pk] \in Row /\ pk < nextPk /\ (rows[pk].user = None => rows[pk].kind = "device")
  BY DEF TypeOK

\* What typing says of a request at the token endpoint.
LEMMA RequestTyped ==
    ASSUME TypeOK, NEW r \in Reqs, req[r].pc # "idle"
    PROVE  /\ req[r].pc \in {"access", "refresh", "retire"}
           /\ req[r].pk \in Pks /\ req[r].copy \in Row
           /\ \A x : [req[r] EXCEPT !.pc = x] = [pc |-> x, pk |-> req[r].pk, copy |-> req[r].copy]
  <1>1. req[r] \in Request
    BY Zenon DEF TypeOK
  <1>2. req[r] \in [pc : {"access", "refresh", "retire"}, pk : Pks, copy : Row]
    BY <1>1 DEF Request, NoReq
  <1> QED BY <1>2

\* What typing says of a flow in a session.
LEMMA PlanTyped ==
    ASSUME TypeOK, NEW s \in Sessions, plan[s] # None
    PROVE  /\ plan[s].pk = 0 => plan[s].type \in ResponseTypes /\ plan[s].scope \in SUBSET Scope
           /\ plan[s].pk # 0 => /\ plan[s].pk \in Pks /\ plan[s].copy \in Row
                                /\ \A x : [plan[s] EXCEPT !.copy = x] = [pk |-> plan[s].pk, copy |-> x]
  <1>1. plan[s] \in Plan
    BY Zenon DEF TypeOK
  <1>2. 0 \notin Pks
    BY Bounds DEF Pks
  <1>3. CASE plan[s] \in [pk : {0}, type : ResponseTypes, scope : SUBSET Scope]
    BY <1>3
  <1>4. CASE plan[s] \in [pk : Pks, copy : Row]
    BY <1>2, <1>4
  <1> QED BY <1>1, <1>3, <1>4, Zenon DEF Plan

\* A new row is of the type of rows.
LEMMA NewRowTyped ==
    ASSUME NEW kind \in Kinds, NEW u \in Users \cup {None}, NEW s \in Sessions \cup {None},
           NEW scope \in SUBSET Scope
    PROVE  NewRow(kind, u, s, scope) \in Row
  BY SMTT(60) DEF NewRow, Row

\* The tokens given out for a grant are of its user and, but for refresh tokens of
\* device codes, of its session (create_code_response and the two like it).
LEMMA TokensTyped ==
    ASSUME NEW copy \in Row, copy.user # None
    PROVE  /\ Tokens(copy).access \in AccessToken /\ Tokens(copy).refresh \in Row
           /\ Tokens(copy).access.user = copy.user /\ Tokens(copy).refresh.user = copy.user
           /\ Tokens(copy).refresh.kind = "refresh"
           /\ Tokens(copy).access.session = copy.session
           /\ Tokens(copy).access.via = copy.kind
  <1>1. /\ copy.user \in Users /\ copy.session \in Sessions \cup {None}
        /\ copy.scope \in SUBSET Scope
    BY DEF Row
  <1>2. NewRow("refresh", copy.user, copy.session, copy.scope) \in Row
    BY <1>1, NewRowTyped DEF Kinds
  <1>3. NewRow("refresh", copy.user, None, copy.scope) \in Row
    BY <1>1, NewRowTyped, SMTT(60) DEF Kinds
  <1>4. CASE copy.kind = "code"
    BY <1>1, <1>2, <1>4, Zenon DEF Tokens, CodeTokens, Grant, AccessToken, NewRow
  <1>5. CASE copy.kind = "refresh"
    BY <1>1, <1>2, <1>5, ZenonT(60) DEF Tokens, RefreshTokens, Grant, AccessToken, NewRow
  <1>6. CASE copy.kind = "device"
    BY <1>1, <1>3, <1>6, ZenonT(60) DEF Tokens, DeviceTokens, Grant, AccessToken, NewRow
  <1>7. copy.kind \in Kinds
    BY DEF Row
  <1> QED BY <1>4, <1>5, <1>6, <1>7 DEF Kinds

-----------------------------------------------------------------------------
(* Typing *)

\* Sessions are deleted with what depends on them, or the row only forgets them.
LEMMA DeleteSessionsEffect ==
    ASSUME TypeOK, NEW S \in SUBSET Sessions, DeleteSessions(S)
    PROVE  /\ rows' \in [Pks -> Row \cup {None}]
           /\ \A pk \in Pks :
                \/ rows'[pk] = None
                \/ rows'[pk] = rows[pk] /\ rows[pk].session \notin S
                \/ /\ rows[pk] # None /\ rows[pk].kind = "refresh"
                   /\ rows'[pk] = [rows[pk] EXCEPT !.session = None]
           /\ \A s \in Sessions : plan'[s] = IF s \in S THEN None ELSE plan[s]
           /\ plan' \in [Sessions -> Plan \cup {None}]
  <1>1. \A row \in Row : [row EXCEPT !.session = None] \in Row
    BY DEF Row
  <1>2. rows \in [Pks -> Row \cup {None}] /\ plan \in [Sessions -> Plan \cup {None}]
    BY DEF TypeOK
  <1>3. rows' = [pk \in Pks |->
                  IF rows[pk] = None \/ rows[pk].session \notin S THEN rows[pk]
                  ELSE IF rows[pk].kind = "refresh"
                       THEN [rows[pk] EXCEPT !.session = None] ELSE None]
    BY Zenon DEF DeleteSessions
  <1>4. \A pk \in Pks :
                \/ rows'[pk] = None
                \/ rows'[pk] = rows[pk] /\ rows[pk].session \notin S
                \/ /\ rows[pk] # None /\ rows[pk].kind = "refresh"
                   /\ rows'[pk] = [rows[pk] EXCEPT !.session = None]
    BY <1>3, ZenonT(60)
  <1>5. rows' \in [Pks -> Row \cup {None}]
    BY <1>1, <1>2, <1>3, <1>4
  <1>6. plan' = [s \in Sessions |-> IF s \in S THEN None ELSE plan[s]]
    BY ZenonT(60) DEF DeleteSessions
  <1> QED BY <1>2, <1>4, <1>5, <1>6, SMTT(60)

Typed == TypeOK /\ RequestCopies /\ PlanCopies

\* Steps that drop rows, tokens and flows, and write back known rows, keep the types.
LEMMA TypedRows ==
    ASSUME Typed, rows' \in [Pks -> Row \cup {None}], access' \subseteq AccessToken,
           \A pk \in Pks : rows'[pk] # None =>
             pk < nextPk /\ (rows'[pk].user = None => rows'[pk].kind = "device"),
           plan' \in [Sessions -> Plan \cup {None}],
           \A s \in Sessions : plan'[s] = plan[s] \/ plan'[s] = None,
           req' \in [Reqs -> Request],
           \A r \in Reqs : req'[r].pc # "idle" =>
             req[r].pc # "idle" /\ req'[r].pk = req[r].pk /\ req'[r].copy = req[r].copy,
           nextPk' = nextPk, expired' = expired,
           sessions' \subseteq opened', opened' \subseteq Sessions,
           account' \in [Users -> {"active", "inactive", "closed"}],
           answered' \subseteq Pks, overlapped' \subseteq Users
    PROVE  Typed'
  <1>1. TypeOK'
    BY Zenon DEF TypeOK, Typed
  <1>2. RequestCopies'
    BY Zenon DEF RequestCopies, Typed
  <1>3. PlanCopies'
    BY ZenonT(60) DEF PlanCopies, Typed
  <1> QED BY <1>1, <1>2, <1>3 DEF Typed

\* So do steps that insert a row.
LEMMA TypedInsert ==
    ASSUME Typed, NEW row \in Row, Insert(<<row>>),
           row.user = None => row.kind = "device",
           access' \subseteq AccessToken, plan' \in [Sessions -> Plan \cup {None}],
           \A s \in Sessions : plan'[s] = plan[s] \/ plan'[s] = None,
           req' \in [Reqs -> Request],
           \A r \in Reqs : req'[r].pc # "idle" =>
             req[r].pc # "idle" /\ req'[r].pk = req[r].pk /\ req'[r].copy = req[r].copy,
           UNCHANGED <<auth, history>>
    PROVE  Typed'
  <1>1. /\ nextPk \in Pks /\ nextPk' = nextPk + 1 /\ expired' = expired
        /\ rows' = [rows EXCEPT ![nextPk] = row]
    BY InsertOne, Zenon DEF Typed
  <1>2. Pks = 1..MaxRows /\ MaxRows \in Nat
    BY Bounds, SMTT(60) DEF Pks
  <1>3. TypeOK
    BY SMTT(60) DEF Typed
  <1>4. rows' \in [Pks -> Row \cup {None}]
    BY <1>1, <1>3, SMTT(60) DEF TypeOK
  <1>5. nextPk' \in 1..(MaxRows + 1) /\ nextPk \in Nat
    BY <1>1, <1>2, SMTT(60)
  <1>6. expired' \subseteq 1..(nextPk' - 1)
    <2>1. expired \subseteq 1..(nextPk - 1)
      BY <1>3, Zenon DEF TypeOK
    <2> QED BY <1>1, <1>5, <2>1
  <1>7. \A pk \in Pks : rows'[pk] # None =>
          pk < nextPk' /\ (rows'[pk].user = None => rows'[pk].kind = "device")
    <2>1. \A pk \in Pks : pk = nextPk => pk < nextPk + 1
      BY <1>2
    <2>2. \A pk \in Pks : pk < nextPk => pk < nextPk + 1
      BY <1>1, <1>2
    <2>3. \A pk \in Pks : rows[pk] # None =>
            pk < nextPk /\ (rows[pk].user = None => rows[pk].kind = "device")
      BY <1>3, Zenon DEF TypeOK
    <2>4. \A pk \in Pks : rows'[pk] = IF pk = nextPk THEN row ELSE rows[pk]
      BY <1>1, <1>3, Zenon DEF TypeOK
    <2> QED BY <1>1, <2>1, <2>2, <2>3, <2>4, ZenonT(60)
  <1>8. TypeOK'
    BY <1>3, <1>4, <1>5, <1>6, <1>7, Zenon DEF TypeOK, auth, history
  <1>9. \A n \in Pks : n < nextPk => n < nextPk'
    BY <1>1, <1>2
  <1>10. RequestCopies'
    BY <1>3, <1>9, RequestTyped, ZenonT(60) DEF RequestCopies, Typed
  <1>11. PlanCopies'
    BY <1>3, <1>9, PlanTyped, ZenonT(60) DEF PlanCopies, Typed
  <1> QED BY <1>8, <1>10, <1>11 DEF Typed

\* Each step keeps the types, and what requests and flows know of the rows they read.
LEMMA TypedStep ==
    ASSUME Typed, CodesOfSessions, [Next]_vars
    PROVE  Typed'
  <1> USE DEF auth, history, tables
  <1>0. TypeOK
    BY DEF Typed
  <1>t. /\ rows \in [Pks -> Row \cup {None}] /\ access \subseteq AccessToken
        /\ \A pk \in Pks : rows[pk] # None =>
             pk < nextPk /\ (rows[pk].user = None => rows[pk].kind = "device")
        /\ plan \in [Sessions -> Plan \cup {None}] /\ req \in [Reqs -> Request]
        /\ sessions \subseteq opened /\ opened \subseteq Sessions
        /\ account \in [Users -> {"active", "inactive", "closed"}]
        /\ answered \subseteq Pks /\ overlapped \subseteq Users
    BY <1>0, ZenonT(60) DEF TypeOK
  <1>n. NoReq \in Request /\ NoReq.pc = "idle"
    BY DEF Request, NoReq
  <1>1. ASSUME NEW s \in Sessions, Login(s) PROVE Typed'
    BY <1>1, <1>t, TypedRows, ZenonT(60) DEF Login
  <1>2. ASSUME NEW S \in SUBSET Sessions, DeleteSessions(S), UNCHANGED <<req, history>>,
               account' \in [Users -> {"active", "inactive", "closed"}]
        PROVE  Typed'
    <2>1. access' \subseteq AccessToken /\ sessions' \subseteq opened /\ opened' = opened
          /\ UNCHANGED <<nextPk, expired>>
      BY <1>2, <1>t DEF DeleteSessions
    <2>2. \A pk \in Pks : rows'[pk] # None =>
             pk < nextPk /\ (rows'[pk].user = None => rows'[pk].kind = "device")
      <3> SUFFICES ASSUME NEW pk \in Pks, rows'[pk] # None
                   PROVE  pk < nextPk /\ (rows'[pk].user = None => rows'[pk].kind = "device")
        OBVIOUS
      <3>1. CASE rows'[pk] = rows[pk]
        BY <3>1, <1>t, ZenonT(60)
      <3>2. CASE rows[pk] # None /\ rows'[pk] = [rows[pk] EXCEPT !.session = None]
        <4>1. rows[pk] \in Row
          BY <1>t, <3>2, ZenonT(60)
        <4>2. rows'[pk].user = rows[pk].user /\ rows'[pk].kind = rows[pk].kind
          BY <4>1, <3>2 DEF Row
        <4> QED BY <4>2, <3>2, <1>t, ZenonT(60)
      <3> QED BY <1>0, <1>2, <3>1, <3>2, DeleteSessionsEffect, ZenonT(60)
    <2>3. /\ \A s \in Sessions : plan'[s] = plan[s] \/ plan'[s] = None
          /\ plan' \in [Sessions -> Plan \cup {None}] /\ rows' \in [Pks -> Row \cup {None}]
      BY <1>0, <1>2, DeleteSessionsEffect, ZenonT(60)
    <2> QED BY <1>2, <1>t, <2>1, <2>2, <2>3, TypedRows, ZenonT(60)
  <1>3. ASSUME NEW s \in Sessions, Logout(s) PROVE Typed'
    BY <1>2, <1>3, <1>t, ZenonT(60) DEF Logout
  <1>4. ASSUME NEW u \in Users, Deactivate(u) PROVE Typed'
    <2>1. /\ rows' \in [Pks -> Row \cup {None}]
          /\ \A pk \in Pks : rows'[pk] = rows[pk] \/ rows'[pk] = None
      BY <1>4, <1>t, SMTT(60) DEF Deactivate
    <2>2. access' \subseteq AccessToken /\ overlapped' \subseteq Users
          /\ account' \in [Users -> {"active", "inactive", "closed"}]
      BY <1>4, <1>t DEF Deactivate
    <2> QED BY <1>4, <1>t, <2>1, <2>2, TypedRows, ZenonT(60) DEF Deactivate
  <1>5. ASSUME NEW u \in Users, CloseSessions(u) PROVE Typed'
    <2>1. account' \in [Users -> {"active", "inactive", "closed"}]
      BY <1>5, <1>t, SMTT(60) DEF CloseSessions
    <2>2. {s \in sessions : SessionUser[s] = u} \in SUBSET Sessions
      BY <1>t
    <2> QED BY <1>2, <1>5, <2>1, <2>2, ZenonT(60) DEF CloseSessions

  <1>6. ASSUME NEW s \in Sessions, NEW type \in ResponseTypes, NEW asked \in Asked,
               Authorize(s, type, asked)
        PROVE  Typed'
    <2>1. CheckedScope(type, asked) \in SUBSET Scope
      BY OAuth2Assumption DEF CheckedScope, Scope, Offline, OpenID
    <2>2. [pk |-> 0, type |-> type, scope |-> CheckedScope(type, asked)] \in Plan
      BY <2>1, ZenonT(60) DEF Plan
    <2>3. plan' \in [Sessions -> Plan \cup {None}]
      BY <1>6, <1>t, <2>2, SMTT(60) DEF Authorize
    <2>4. TypeOK'
      BY <1>6, <1>0, <2>3, ZenonT(60) DEF Authorize, TypeOK
    <2>5. RequestCopies'
      BY <1>6, ZenonT(60) DEF Authorize, RequestCopies, Typed
    <2>6. \A o \in Sessions : plan'[o] = plan[o] \/ plan'[o].pk = 0
      BY <1>6, <1>t, SMTT(60) DEF Authorize
    <2>7. PlanCopies'
      BY <1>6, <2>6, ZenonT(60) DEF Authorize, PlanCopies, Typed
    <2> QED BY <2>4, <2>5, <2>7, SMTT(60) DEF Typed
  <1>7. ASSUME NEW s \in Sessions, Fulfil(s) PROVE Typed'
    <2>1. SessionUser[s] \in Users
      BY OAuth2Assumption, Zenon
    <2>2. plan[s].scope \in SUBSET Scope
      BY <1>7, <1>0, PlanTyped, ZenonT(60) DEF Fulfil
    <2>3. /\ plan' \in [Sessions -> Plan \cup {None}]
          /\ \A o \in Sessions : plan'[o] = plan[o] \/ plan'[o] = None
      BY <1>7, <1>t DEF Fulfil
    <2>4. Grant(SessionUser[s], s, "authorize") \in AccessToken
      BY <2>1, ZenonT(60) DEF Grant, AccessToken
    <2>5. access' \subseteq AccessToken
      BY <1>7, <1>t, <2>4, SMTT(60) DEF Fulfil
    <2>6. NewRow("code", SessionUser[s], s, plan[s].scope) \in Row
          /\ NewRow("code", SessionUser[s], s, plan[s].scope).user # None
      BY <2>1, <2>2, NewRowTyped, Bounds, ZenonT(60) DEF Kinds, NewRow
    <2>7. CASE Insert(<<NewRow("code", SessionUser[s], s, plan[s].scope)>>)
      BY <1>7, <1>t, <2>3, <2>5, <2>6, <2>7, TypedInsert, ZenonT(60) DEF Fulfil
    <2>8. CASE Insert(<<>>)
      BY <1>7, <1>t, <1>0, <2>3, <2>5, <2>8, InsertNone, TypedRows, ZenonT(60) DEF Fulfil
    <2> QED BY <1>7, <2>7, <2>8, Zenon DEF Fulfil
  <1>8. ASSUME NEW asked \in Asked, DeviceStart(asked) PROVE Typed'
    <2>1. NewRow("device", None, None, asked) \in Row
          /\ NewRow("device", None, None, asked).kind = "device"
      BY OAuth2Assumption, NewRowTyped DEF NewRow, Kinds, Scope, OpenID, Offline
    <2> QED BY <1>8, <1>t, <2>1, TypedInsert, ZenonT(60) DEF DeviceStart
  <1>9. ASSUME NEW s \in Sessions, NEW pk \in Pks, DeviceEnter(s, pk) PROVE Typed'
    <2>1. rows[pk] \in Row /\ pk < nextPk /\ rows[pk].kind = "device"
      BY <1>9, <1>t, ZenonT(60) DEF DeviceEnter, Is
    <2>2. [pk |-> pk, copy |-> rows[pk]] \in Plan
      BY <2>1, ZenonT(60) DEF Plan
    <2>3. plan' \in [Sessions -> Plan \cup {None}]
      BY <1>9, <1>t, <2>2, SMTT(60) DEF DeviceEnter
    <2>4. TypeOK'
      BY <1>9, <1>0, <2>3, ZenonT(60) DEF DeviceEnter, TypeOK
    <2>5. RequestCopies'
      BY <1>9, Zenon DEF DeviceEnter, RequestCopies, Typed
    <2>6. \A o \in Sessions : plan'[o] = plan[o] \/ plan'[o] = [pk |-> pk, copy |-> rows[pk]]
      BY <1>9, <1>t, ZenonT(60) DEF DeviceEnter
    <2>7. PlanCopies'
      <3>1. [pk |-> pk, copy |-> rows[pk]].pk = pk /\ [pk |-> pk, copy |-> rows[pk]].copy = rows[pk]
        OBVIOUS
      <3> QED BY <1>9, <2>1, <2>6, <3>1, ZenonT(60) DEF DeviceEnter, PlanCopies, Typed
    <2> QED BY <2>4, <2>5, <2>7, SMTT(60) DEF Typed
  <1>10. ASSUME NEW s \in Sessions, DeviceFinish(s) PROVE Typed'
    <2> DEFINE u == SessionUser[s]
               copy == [plan[s].copy EXCEPT !.user = u]
               pk == plan[s].pk
    <2>1. u \in Users
      BY OAuth2Assumption, Zenon
    <2>2. pk \in Pks /\ plan[s].copy \in Row /\ [plan[s] EXCEPT !.copy = copy] = [pk |-> pk, copy |-> copy]
          /\ plan[s].copy.kind = "device" /\ pk < nextPk
      BY <1>10, <1>0, PlanTyped, ZenonT(60) DEF DeviceFinish, PlanCopies, Typed
    <2>3. copy \in Row /\ copy.kind = "device"
      BY <2>1, <2>2, SMTT(60) DEF Row
    <2>4. [pk |-> pk, copy |-> copy] \in Plan
      BY <2>2, <2>3, ZenonT(60) DEF Plan
    <2>5. plan' = [plan EXCEPT ![s] = [pk |-> pk, copy |-> copy]]
      BY <1>10, <1>t, <2>2, ZenonT(60) DEF DeviceFinish
    <2>6. rows' = [rows EXCEPT ![pk] = copy] /\ UNCHANGED <<access, nextPk, expired, auth, req, answered>>
      BY <1>10, ZenonT(60) DEF DeviceFinish, Save
    <2>7. overlapped' \subseteq Users
      BY <1>10, <1>t, <2>1, SMTT(60) DEF DeviceFinish
    <2> HIDE DEF u, copy, pk
    <2>8. /\ plan' \in [Sessions -> Plan \cup {None}]
          /\ \A o \in Sessions : plan'[o] = plan[o] \/ plan'[o] = [pk |-> pk, copy |-> copy]
      BY <1>t, <2>4, <2>5, SMTT(60)
    <2>9. /\ rows' \in [Pks -> Row \cup {None}]
          /\ \A o \in Pks : rows'[o] = rows[o] \/ (o = pk /\ rows'[o] = copy)
      BY <1>t, <2>2, <2>3, <2>6, SMTT(60)
    <2>10. TypeOK'
      BY <1>0, <2>2, <2>3, <2>6, <2>7, <2>8, <2>9, ZenonT(60) DEF TypeOK
    <2>11. RequestCopies'
      BY <2>6, ZenonT(60) DEF RequestCopies, Typed
    <2>12. PlanCopies'
      BY <2>2, <2>3, <2>6, <2>8, ZenonT(60) DEF PlanCopies, Typed
    <2> QED BY <2>10, <2>11, <2>12, SMTT(60) DEF Typed
  <1>11. ASSUME NEW s \in Sessions, DeviceLeave(s) PROVE Typed'
    <2>1. /\ plan' \in [Sessions -> Plan \cup {None}]
          /\ \A o \in Sessions : plan'[o] = plan[o] \/ plan'[o] = None
      BY <1>11, <1>t DEF DeviceLeave
    <2> QED BY <1>11, <1>t, <2>1, TypedRows, Zenon DEF DeviceLeave

  <1>12. ASSUME NEW r \in Reqs, NEW pk \in Pks, Begin(r, pk), rows[pk] # None,
                rows[pk].user # None
         PROVE  Typed'
    <2>1. rows[pk] \in Row /\ pk < nextPk
      BY <1>12, <1>t, Zenon
    <2>2. rows[pk].kind = "code" => rows[pk].session # None
      BY <1>12, <1>t, Bounds, Zenon DEF CodesOfSessions, Is
    <2>3. [pc |-> "access", pk |-> pk, copy |-> rows[pk]] \in Request
      BY <2>1, Zenon DEF Request
    <2>4. /\ req' \in [Reqs -> Request]
          /\ \A o \in Reqs : \/ req'[o] = req[o]
                             \/ req'[o] = [pc |-> "access", pk |-> pk, copy |-> rows[pk]]
      BY <1>12, <1>t, <2>3, SMTT(60) DEF Begin
    <2>5. overlapped' \subseteq Users
      BY <1>12, <1>t, SMTT(60) DEF Begin
    <2>6. TypeOK'
      BY <1>12, <1>0, <2>4, <2>5, ZenonT(60) DEF Begin, TypeOK
    <2>7. RequestCopies'
      BY <1>12, <2>1, <2>2, <2>4, ZenonT(60) DEF Begin, RequestCopies, Typed
    <2>8. PlanCopies'
      BY <1>12, ZenonT(60) DEF Begin, PlanCopies, Typed
    <2> QED BY <2>6, <2>7, <2>8 DEF Typed
  <1>13. ASSUME NEW r \in Reqs, NEW pk \in Pks, BeginCode(r, pk) \/ BeginDevice(r, pk)
         PROVE  Typed'
    BY <1>12, <1>13, <1>t, ZenonT(60) DEF BeginCode, BeginDevice, Is
  <1>14. ASSUME NEW r \in Reqs, NEW pk \in Pks, NEW asked \in Asked, BeginRefresh(r, pk, asked)
         PROVE  Typed'
    BY <1>12, <1>14, <1>t, ZenonT(60) DEF BeginRefresh, Is
  <1>15. ASSUME NEW r \in Reqs, req' = [req EXCEPT ![r] = NoReq]
         PROVE  /\ req' \in [Reqs -> Request]
                /\ \A o \in Reqs : req'[o].pc # "idle" =>
                     req[o].pc # "idle" /\ req'[o].pk = req[o].pk /\ req'[o].copy = req[o].copy
    <2>1. /\ req' \in [Reqs -> Request]
          /\ \A o \in Reqs : req'[o] = req[o] \/ req'[o] = NoReq
      BY <1>15, <1>t, <1>n, SMTT(60)
    <2> QED BY <1>n, <2>1, ZenonT(60)
  <1>16. ASSUME NEW r \in Reqs, NEW x \in {"access", "refresh", "retire"}, req[r].pc # "idle",
                req' = [req EXCEPT ![r].pc = x]
         PROVE  /\ req' \in [Reqs -> Request]
                /\ \A o \in Reqs : req'[o].pc # "idle" =>
                     req[o].pc # "idle" /\ req'[o].pk = req[o].pk /\ req'[o].copy = req[o].copy
    <2>1. /\ req[r].pk \in Pks /\ req[r].copy \in Row
          /\ [req[r] EXCEPT !.pc = x] = [pc |-> x, pk |-> req[r].pk, copy |-> req[r].copy]
      BY <1>16, <1>0, RequestTyped, ZenonT(60)
    <2>2. [pc |-> x, pk |-> req[r].pk, copy |-> req[r].copy] \in Request
      BY <2>1, Zenon DEF Request
    <2>3. req' = [req EXCEPT ![r] = [pc |-> x, pk |-> req[r].pk, copy |-> req[r].copy]]
      BY <1>16, <2>1, ZenonT(60)
    <2> DEFINE next == [pc |-> x, pk |-> req[r].pk, copy |-> req[r].copy]
    <2>4. next.pk = req[r].pk /\ next.copy = req[r].copy
      BY SMTT(60)
    <2> HIDE DEF next
    <2>5. req' \in [Reqs -> Request] /\ \A o \in Reqs : req'[o] = IF o = r THEN next ELSE req[o]
      BY <1>t, <2>2, <2>3, SMTT(60) DEF next
    <2> QED BY <1>16, <2>4, <2>5, ZenonT(60)
  <1>17. ASSUME NEW r \in Reqs, Fail(r) PROVE Typed'
    BY <1>15, <1>17, <1>t, TypedRows, ZenonT(60) DEF Fail
  <1>18. ASSUME NEW r \in Reqs, req[r].pc # "idle"
         PROVE  /\ Tokens(req[r].copy).access \in AccessToken
                /\ Tokens(req[r].copy).refresh \in Row
                /\ Tokens(req[r].copy).refresh.kind = "refresh"
                /\ Tokens(req[r].copy).refresh.user = req[r].copy.user
                /\ req[r].copy.user # None
    BY <1>18, <1>0, RequestTyped, TokensTyped, ZenonT(60) DEF RequestCopies, Typed
  <1>19. ASSUME NEW r \in Reqs, SaveAccess(r) PROVE Typed'
    <2>1. req[r].pc # "idle" /\ Tokens(req[r].copy).access \in AccessToken
      BY <1>18, <1>19, SMTT(60) DEF SaveAccess
    <2>2. CASE access' = access \cup {Tokens(req[r].copy).access}
               /\ UNCHANGED <<rows, nextPk, expired, auth, plan, history>>
               /\ req' = [req EXCEPT ![r].pc =
                            IF Offline \in req[r].copy.scope THEN "refresh" ELSE "retire"]
      <3>1. (IF Offline \in req[r].copy.scope THEN "refresh" ELSE "retire")
               \in {"access", "refresh", "retire"}
        BY SMTT(60)
      <3>2. access' \subseteq AccessToken
        BY <1>t, <2>1, <2>2, SMTT(60)
      <3> QED BY <1>16, <1>t, <2>1, <2>2, <3>1, <3>2, TypedRows, ZenonT(60)
    <2> QED BY <1>17, <1>19, <2>2, ZenonT(60) DEF SaveAccess
  <1>20. ASSUME NEW r \in Reqs, SaveRefresh(r) PROVE Typed'
    <2>1. req[r].pc # "idle"
      BY <1>20 DEF SaveRefresh
    <2>2. CASE Insert(<<Tokens(req[r].copy).refresh>>) /\ UNCHANGED <<access, auth, plan, history>>
               /\ req' = [req EXCEPT ![r].pc = "retire"]
      BY <1>16, <1>18, <1>t, <2>1, <2>2, TypedInsert, ZenonT(60)
    <2> QED BY <1>17, <1>20, <2>2, ZenonT(60) DEF SaveRefresh
  <1>21. ASSUME NEW r \in Reqs, Answer(r), req[r].pc # "idle"
         PROVE  answered' \subseteq Pks
    BY <1>21, <1>0, <1>t, RequestTyped DEF Answer
  <1>22. ASSUME NEW r \in Reqs, RetireCode(r) PROVE Typed'
    <2>1. rows' = [rows EXCEPT ![req[r].pk] = None] /\ UNCHANGED <<access, nextPk, expired>>
          /\ req[r].pc # "idle" /\ Answer(r)
      BY <1>22 DEF RetireCode, Delete
    <2>2. /\ rows' \in [Pks -> Row \cup {None}]
          /\ \A pk \in Pks : rows'[pk] = rows[pk] \/ rows'[pk] = None
      BY <1>t, <2>1, ZenonT(60)
    <2> QED BY <1>15, <1>21, <1>t, <2>1, <2>2, TypedRows, ZenonT(60) DEF Answer
  <1>23. ASSUME NEW r \in Reqs, RetireRefresh(r) PROVE Typed'
    <2> DEFINE copy == [req[r].copy EXCEPT !.revoked = TRUE]
    <2>1. req[r].pc # "idle" /\ req[r].copy.kind = "refresh"
      BY <1>23 DEF RetireRefresh
    <2>2. CASE Save(req[r].pk, copy) /\ Answer(r)
      <3>1. req[r].pk \in Pks /\ req[r].copy \in Row /\ req[r].pk < nextPk /\ req[r].copy.user # None
        BY <1>0, <2>1, RequestTyped, ZenonT(60) DEF RequestCopies, Typed
      <3>2. copy \in Row /\ copy.user # None
        BY <3>1, ZenonT(60) DEF Row
      <3>3. rows' = [rows EXCEPT ![req[r].pk] = copy] /\ UNCHANGED <<access, nextPk, expired>>
        BY <2>2, Zenon DEF Save
      <3> HIDE DEF copy
      <3>4. /\ rows' \in [Pks -> Row \cup {None}]
            /\ \A o \in Pks : rows'[o] = rows[o] \/ (o = req[r].pk /\ rows'[o] = copy)
        BY <1>t, <3>1, <3>2, <3>3
      <3> QED BY <1>15, <1>21, <1>t, <2>1, <2>2, <3>1, <3>2, <3>3, <3>4, TypedRows, ZenonT(60) DEF Answer
    <2> QED BY <1>17, <1>23, <2>2, ZenonT(60) DEF RetireRefresh
  <1>24. ASSUME NEW pk \in Pks, Revoke(pk) PROVE Typed'
    <2>1. /\ rows' \in [Pks -> Row \cup {None}]
          /\ \A o \in Pks : rows'[o] = rows[o] \/ rows'[o] = None
      BY <1>24, <1>t DEF Revoke, Delete
    <2> QED BY <1>24, <1>t, <2>1, TypedRows, Zenon DEF Revoke, Delete
  <1>25. ASSUME NEW pk \in Pks, TimePasses(pk) PROVE Typed'
    <2>1. expired' \subseteq 1..(nextPk' - 1)
      <3>1. expired \subseteq 1..(nextPk - 1) /\ nextPk \in 1..(MaxRows + 1) /\ MaxRows \in Nat
        BY <1>0, Bounds, Zenon DEF TypeOK
      <3> QED BY <1>25, <3>1 DEF TimePasses, Pks
    <2>2. TypeOK'
      BY <1>25, <1>0, <2>1, Zenon DEF TypeOK, TimePasses
    <2> QED BY <1>25, <2>2, Zenon DEF TimePasses, RequestCopies, PlanCopies, Typed
  <1>26. ASSUME CleanExpired PROVE Typed'
    <2>1. /\ rows' \in [Pks -> Row \cup {None}]
          /\ \A o \in Pks : rows'[o] = rows[o] \/ rows'[o] = None
      BY <1>26, <1>t DEF CleanExpired
    <2> QED BY <1>26, <1>t, <2>1, TypedRows, Zenon DEF CleanExpired
  <1>27. ASSUME UNCHANGED vars PROVE Typed'
    BY <1>27, <1>t, TypedRows, Zenon DEF vars
  <1> QED BY <1>1, <1>3, <1>4, <1>5, <1>6, <1>7, <1>8, <1>9, <1>10, <1>11, <1>13, <1>14,
             <1>17, <1>19, <1>20, <1>22, <1>23, <1>24, <1>25, <1>26, <1>27, Zenon
          DEF Next, Interrupt

-----------------------------------------------------------------------------
(* What a step may do to each table *)

\* A row stays, is deleted or, as a refresh token, forgets its session; or it is new: a
\* code of a session, a device code, or the token for a request's grant; or it is
\* written back from the copy of a flow (a device code) or of a request (a refresh
\* token, revoked).  A code stays only if its session does.
RowStays(pk) ==
    /\ rows'[pk] = rows[pk]
    /\ Is(pk, "code") /\ rows[pk].session \in sessions => rows[pk].session \in sessions'
RowForgets(pk) ==
    Is(pk, "refresh") /\ rows'[pk] = [rows[pk] EXCEPT !.session = None]
RowNew(pk) ==
    /\ pk = nextPk /\ nextPk' = nextPk + 1
    /\ rows'[pk] \in Row
    /\ \/ /\ rows'[pk].kind = "code" /\ rows'[pk].session \in sessions'
          /\ rows'[pk].user = SessionUser[rows'[pk].session]
       \/ rows'[pk].kind = "device" /\ rows'[pk].user = None
       \/ /\ rows'[pk].kind = "refresh"
          /\ \E r \in Reqs : req[r].pc # "idle" /\ req[r].copy.user = rows'[pk].user
RowFinished(pk) ==
    \E s \in sessions :
       /\ plan[s] # None /\ plan[s].pk # 0 /\ plan[s].pk = pk
       /\ rows'[pk].kind = "device" /\ rows'[pk].user = SessionUser[s]
       /\ account[SessionUser[s]] # "active" => SessionUser[s] \in overlapped'
RowRevoked(pk) ==
    \E r \in Reqs :
       /\ req[r].pc # "idle" /\ req[r].pk = pk /\ req[r].copy.kind = "refresh"
       /\ rows'[pk].kind = "refresh" /\ rows'[pk].revoked /\ rows'[pk].user = req[r].copy.user
RowStep(pk) ==
    \/ RowStays(pk) \/ rows'[pk] = None \/ RowForgets(pk)
    \/ RowNew(pk) \/ RowFinished(pk) \/ RowRevoked(pk)

\* Every step treats every row in one of these ways.
LEMMA RowsStep ==
    ASSUME Typed, Next, NEW pk \in Pks
    PROVE  RowStep(pk)
  <1> USE DEF auth, history, tables
  <1>0. TypeOK
    BY SMTT(60) DEF Typed
  <1>t. /\ rows \in [Pks -> Row \cup {None}] /\ nextPk \in 1..(MaxRows + 1)
        /\ req \in [Reqs -> Request] /\ sessions \subseteq Sessions
    BY <1>0 DEF TypeOK
  <1>1. ASSUME rows' = rows, sessions \subseteq sessions' PROVE RowStep(pk)
    BY <1>1, Zenon DEF RowStep, RowStays
  <1>2. ASSUME NEW S \in SUBSET Sessions, DeleteSessions(S) PROVE RowStep(pk)
    <2>1. sessions' = sessions \ S
      BY <1>2, ZenonT(60) DEF DeleteSessions
    <2>2. \/ rows'[pk] = None
          \/ rows'[pk] = rows[pk] /\ rows[pk].session \notin S
          \/ /\ rows[pk] # None /\ rows[pk].kind = "refresh"
             /\ rows'[pk] = [rows[pk] EXCEPT !.session = None]
      BY <1>0, <1>2, DeleteSessionsEffect, ZenonT(60)
    <2> QED BY <2>1, <2>2, ZenonT(60) DEF RowStep, RowStays, RowForgets, Is
  <1>3. ASSUME NEW s \in Sessions, Logout(s) PROVE RowStep(pk)
    BY <1>2, <1>3, ZenonT(60) DEF Logout
  <1>4. ASSUME NEW u \in Users, Deactivate(u) PROVE RowStep(pk)
    <2>1. rows'[pk] = rows[pk] \/ rows'[pk] = None
      BY <1>4, Zenon DEF Deactivate
    <2> QED BY <1>4, <2>1, ZenonT(60) DEF Deactivate, RowStep, RowStays
  <1>5. ASSUME NEW u \in Users, CloseSessions(u) PROVE RowStep(pk)
    <2>1. {s \in sessions : SessionUser[s] = u} \in SUBSET Sessions
      BY <1>t
    <2> QED BY <1>2, <1>5, <2>1, ZenonT(60) DEF CloseSessions
  <1>6. ASSUME NEW row \in Row, Insert(<<row>>), sessions' = sessions
        PROVE  \/ RowStep(pk)
               \/ pk = nextPk /\ rows'[pk] = row /\ nextPk' = nextPk + 1
    <2>1. rows' = [rows EXCEPT ![nextPk] = row] /\ nextPk' = nextPk + 1
      BY <1>0, <1>6, InsertOne, ZenonT(60)
    <2>2. rows'[pk] = rows[pk] \/ (pk = nextPk /\ rows'[pk] = row)
      BY <1>t, <2>1, ZenonT(60)
    <2> QED BY <1>6, <2>1, <2>2, ZenonT(60) DEF RowStep, RowStays
  <1>7. ASSUME NEW s \in Sessions, Fulfil(s) PROVE RowStep(pk)
    <2> DEFINE row == NewRow("code", SessionUser[s], s, plan[s].scope)
    <2>1. SessionUser[s] \in Users
      BY OAuth2Assumption, ZenonT(60)
    <2>2. plan[s].scope \in SUBSET Scope
      BY <1>7, <1>0, PlanTyped, ZenonT(60) DEF Fulfil
    <2>3. row \in Row
      BY <2>1, <2>2, NewRowTyped, ZenonT(60) DEF Kinds
    <2>4. row.kind = "code" /\ row.session = s /\ row.user = SessionUser[s]
      BY DEF NewRow
    <2>5. s \in sessions /\ sessions' = sessions
      BY <1>7, ZenonT(60) DEF Fulfil
    <2>6. CASE Insert(<<row>>)
      BY <1>6, <2>3, <2>4, <2>5, <2>6, ZenonT(60) DEF RowStep, RowNew
    <2>7. CASE Insert(<<>>)
      BY <1>0, <1>1, <2>5, <2>7, InsertNone, ZenonT(60)
    <2> QED BY <1>7, <2>6, <2>7, ZenonT(60) DEF Fulfil
  <1>8. ASSUME NEW asked \in Asked, DeviceStart(asked) PROVE RowStep(pk)
    <2> DEFINE row == NewRow("device", None, None, asked)
    <2>1. row \in Row /\ row.kind = "device" /\ row.user = None
      BY OAuth2Assumption, NewRowTyped DEF NewRow, Kinds, Scope, OpenID, Offline
    <2> QED BY <1>6, <1>8, <2>1, ZenonT(60) DEF DeviceStart, RowStep, RowNew
  <1>9. ASSUME NEW s \in Sessions, DeviceFinish(s) PROVE RowStep(pk)
    <2> DEFINE u == SessionUser[s]
               copy == [plan[s].copy EXCEPT !.user = u]
    <2>1. plan[s].copy \in Row /\ plan[s].copy.kind = "device" /\ plan[s].pk \in Pks
      BY <1>9, <1>0, PlanTyped, ZenonT(60) DEF DeviceFinish, PlanCopies, Typed
    <2>2. copy.kind = "device" /\ copy.user = u
      BY <2>1 DEF Row
    <2>3. rows' = [rows EXCEPT ![plan[s].pk] = copy] /\ sessions' = sessions
      BY <1>9, ZenonT(60) DEF DeviceFinish, Save
    <2>4. account[u] # "active" => u \in overlapped'
      BY <1>9 DEF DeviceFinish
    <2> HIDE DEF copy
    <2>5. rows'[pk] = rows[pk] \/ (pk = plan[s].pk /\ rows'[pk] = copy)
      BY <1>t, <2>1, <2>3, ZenonT(60)
    <2> QED BY <1>9, <2>2, <2>3, <2>4, <2>5, ZenonT(60) DEF DeviceFinish, RowStep, RowStays, RowFinished
  <1>10. ASSUME NEW r \in Reqs, SaveRefresh(r) PROVE RowStep(pk)
    <2>1. req[r].pc # "idle" /\ sessions' = sessions
      BY <1>10 DEF SaveRefresh, Fail
    <2>2. /\ Tokens(req[r].copy).refresh \in Row /\ Tokens(req[r].copy).refresh.kind = "refresh"
          /\ Tokens(req[r].copy).refresh.user = req[r].copy.user
      BY <1>0, <2>1, RequestTyped, TokensTyped, ZenonT(60) DEF RequestCopies, Typed
    <2>3. CASE Insert(<<Tokens(req[r].copy).refresh>>)
      BY <1>6, <2>1, <2>2, <2>3, ZenonT(60) DEF RowStep, RowNew
    <2>4. CASE Fail(r)
      BY <1>1, <2>1, <2>4, ZenonT(60) DEF Fail
    <2> QED BY <1>10, <2>3, <2>4, ZenonT(60) DEF SaveRefresh
  <1>11. ASSUME NEW q \in Pks, Delete(q), sessions' = sessions PROVE RowStep(pk)
    <2>1. rows'[pk] = rows[pk] \/ rows'[pk] = None
      BY <1>11, <1>t, ZenonT(60) DEF Delete
    <2> QED BY <1>11, <2>1, ZenonT(60) DEF RowStep, RowStays
  <1>12. ASSUME NEW r \in Reqs, RetireCode(r) PROVE RowStep(pk)
    <2>1. req[r].pc # "idle" /\ sessions' = sessions
      BY <1>12 DEF RetireCode, Answer
    <2> QED BY <1>0, <1>11, <1>12, <2>1, RequestTyped, ZenonT(60) DEF RetireCode
  <1>13. ASSUME NEW r \in Reqs, RetireRefresh(r) PROVE RowStep(pk)
    <2> DEFINE copy == [req[r].copy EXCEPT !.revoked = TRUE]
    <2>1. req[r].pc # "idle" /\ sessions' = sessions /\ req[r].copy.kind = "refresh"
      BY <1>13 DEF RetireRefresh, Answer, Fail
    <2>2. req[r].pk \in Pks /\ req[r].copy \in Row
      BY <1>0, <2>1, RequestTyped, ZenonT(60)
    <2>3. copy.kind = "refresh" /\ copy.user = req[r].copy.user /\ copy.revoked
      BY <2>1, <2>2, SMTT(60) DEF Row
    <2>4. CASE Save(req[r].pk, copy)
      <3>1. rows' = [rows EXCEPT ![req[r].pk] = copy]
        BY <2>4, ZenonT(60) DEF Save
      <3> HIDE DEF copy
      <3>2. rows'[pk] = rows[pk] \/ (pk = req[r].pk /\ rows'[pk] = copy)
        BY <1>t, <2>2, <3>1, ZenonT(60)
      <3> QED BY <2>1, <2>3, <3>2, ZenonT(60) DEF RowStep, RowStays, RowRevoked
    <2>5. CASE Fail(r)
      BY <1>1, <2>1, <2>5, ZenonT(60) DEF Fail
    <2> QED BY <1>13, <2>4, <2>5, ZenonT(60) DEF RetireRefresh
  <1>14. ASSUME NEW q \in Pks, Revoke(q) PROVE RowStep(pk)
    BY <1>11, <1>14, ZenonT(60) DEF Revoke
  <1>15. ASSUME CleanExpired PROVE RowStep(pk)
    <2>1. rows'[pk] = rows[pk] \/ rows'[pk] = None
      BY <1>15, ZenonT(60) DEF CleanExpired
    <2> QED BY <1>15, <2>1, ZenonT(60) DEF CleanExpired, RowStep, RowStays
  <1>16. ASSUME NEW r \in Reqs, SaveAccess(r) \/ Interrupt(r) PROVE RowStep(pk)
    BY <1>1, <1>16, ZenonT(60) DEF SaveAccess, Interrupt, Fail
  <1>17. ASSUME NEW s \in Sessions,
                \/ Login(s) \/ DeviceLeave(s) \/ \E q \in Pks : DeviceEnter(s, q)
                \/ \E type \in ResponseTypes, asked \in Asked : Authorize(s, type, asked)
         PROVE  RowStep(pk)
    <2>1. rows' = rows /\ sessions \subseteq sessions'
      BY <1>17, SMTT(60) DEF Login, DeviceLeave, DeviceEnter, Authorize
    <2> QED BY <1>1, <2>1, SMTT(60)
  <1>18. ASSUME NEW r \in Reqs, NEW q \in Pks,
                \/ BeginCode(r, q) \/ BeginDevice(r, q) \/ TimePasses(q)
                \/ \E asked \in Asked : BeginRefresh(r, q, asked)
         PROVE  RowStep(pk)
    BY <1>1, <1>18, ZenonT(60) DEF BeginCode, BeginDevice, BeginRefresh, Begin, TimePasses
  <1>19. ASSUME NEW q \in Pks, TimePasses(q) PROVE RowStep(pk)
    BY <1>1, <1>19, ZenonT(60) DEF TimePasses
  <1> QED BY <1>3, <1>4, <1>5, <1>7, <1>8, <1>9, <1>10, <1>12, <1>13, <1>14, <1>15, <1>16,
             <1>17, <1>18, <1>19, Zenon DEF Next

\* A request goes on with what it has read, or it begins with a row that is usable or a
\* device code that was entered; a user whose deactivation is under way is noted.
RequestBegins(r) ==
    LET pk == req'[r].pk
    IN  /\ req[r].pc = "idle" /\ pk \in Pks
        /\ rows[pk] # None /\ req'[r].copy = rows[pk]
        /\ Usable(pk) \/ Is(pk, "device")
        /\ rows' = rows /\ sessions' = sessions
        /\ \A u \in Users : rows[pk].user = u /\ account[u] = "inactive" => u \in overlapped'
RequestGoesOn(r) ==
    req[r].pc # "idle" /\ req'[r].pk = req[r].pk /\ req'[r].copy = req[r].copy

\* Every request under way after a step is one of these two.
LEMMA RequestsStep ==
    ASSUME Typed, Next, NEW r \in Reqs, req'[r].pc # "idle"
    PROVE  RequestGoesOn(r) \/ RequestBegins(r)
  <1> USE DEF auth, history, tables
  <1>0. TypeOK
    BY SMTT(60) DEF Typed
  <1>t. req \in [Reqs -> Request]
    BY <1>0, SMTT(60) DEF TypeOK
  <1>n. NoReq.pc = "idle"
    BY DEF NoReq
  <1>1. ASSUME req' = req PROVE RequestGoesOn(r)
    BY <1>1, ZenonT(60) DEF RequestGoesOn
  <1>2. ASSUME NEW q \in Reqs, req' = [req EXCEPT ![q] = NoReq] PROVE RequestGoesOn(r)
    BY <1>2, <1>t, <1>n, ZenonT(60) DEF RequestGoesOn
  <1>3. ASSUME NEW q \in Reqs, NEW x, req[q].pc # "idle", req' = [req EXCEPT ![q].pc = x]
        PROVE  RequestGoesOn(r)
    <2>1. CASE r # q
      BY <1>3, <1>t, <2>1, ZenonT(60) DEF RequestGoesOn
    <2>2. CASE r = q
      <3>1. req'[r] = [req[r] EXCEPT !.pc = x]
        BY <1>3, <1>t, <2>2, ZenonT(60)
      <3>2. req'[r] = [pc |-> x, pk |-> req[r].pk, copy |-> req[r].copy]
        BY <1>0, <1>3, <2>2, <3>1, RequestTyped, ZenonT(60)
      <3>3. req'[r].pk = req[r].pk /\ req'[r].copy = req[r].copy
        BY <3>2, SMTT(60)
      <3> QED BY <1>3, <2>2, <3>3, ZenonT(60) DEF RequestGoesOn
    <2> QED BY <2>1, <2>2
  <1>4. ASSUME NEW q \in Reqs, NEW pk \in Pks, Begin(q, pk), rows[pk] # None,
               Usable(pk) \/ Is(pk, "device")
        PROVE  RequestGoesOn(r) \/ RequestBegins(r)
    <2>1. CASE r # q
      <3>1. req'[r] = req[r]
        BY <1>4, <1>t, <2>1, ZenonT(60) DEF Begin
      <3> QED BY <3>1, ZenonT(60) DEF RequestGoesOn
    <2>2. CASE r = q
      <3>1. req'[r] = [pc |-> "access", pk |-> pk, copy |-> rows[pk]]
        BY <1>4, <1>t, <2>2, ZenonT(60) DEF Begin
      <3>2. req'[r].pk = pk /\ req'[r].copy = rows[pk]
        BY <3>1, SMTT(60)
      <3>3. \A u \in Users : rows[pk].user = u /\ account[u] = "inactive" => u \in overlapped'
        BY <1>4 DEF Begin
      <3> QED BY <1>4, <2>2, <3>2, <3>3, ZenonT(60) DEF RequestBegins, Begin
    <2> QED BY <2>1, <2>2
  <1>5. ASSUME NEW q \in Reqs,
               \/ SaveAccess(q) \/ SaveRefresh(q) \/ RetireCode(q) \/ RetireRefresh(q)
               \/ Interrupt(q)
        PROVE  RequestGoesOn(r)
    <2>1. \/ req' = [req EXCEPT ![q] = NoReq]
          \/ req[q].pc # "idle" /\ \E x : req' = [req EXCEPT ![q].pc = x]
      <3>1. CASE SaveAccess(q)
        BY <3>1, ZenonT(60) DEF SaveAccess, Fail
      <3>2. CASE SaveRefresh(q)
        BY <3>2, ZenonT(60) DEF SaveRefresh, Fail
      <3>3. CASE RetireCode(q) \/ RetireRefresh(q) \/ Interrupt(q)
        BY <3>3, ZenonT(60) DEF RetireCode, RetireRefresh, Interrupt, Fail, Answer
      <3> QED BY <1>5, <3>1, <3>2, <3>3, SMTT(60)
    <2> QED BY <1>2, <1>3, <2>1, ZenonT(60)
  <1>6. ASSUME NEW q \in Reqs, NEW pk \in Pks,
               \/ BeginCode(q, pk) \/ BeginDevice(q, pk)
               \/ \E asked \in Asked : BeginRefresh(q, pk, asked)
        PROVE  RequestGoesOn(r) \/ RequestBegins(r)
    BY <1>4, <1>6, ZenonT(60) DEF BeginCode, BeginDevice, BeginRefresh, Is
  <1>7. ASSUME NEW s \in Sessions,
               \/ Login(s) \/ Logout(s) \/ Fulfil(s) \/ DeviceFinish(s) \/ DeviceLeave(s)
               \/ \E type \in ResponseTypes, asked \in Asked : Authorize(s, type, asked)
               \/ \E pk \in Pks : DeviceEnter(s, pk)
        PROVE  RequestGoesOn(r)
    BY <1>1, <1>7, ZenonT(60) DEF Login, Logout, Fulfil, DeviceFinish, DeviceLeave, Authorize, DeviceEnter
  <1>8. ASSUME NEW u \in Users, Deactivate(u) \/ CloseSessions(u) PROVE RequestGoesOn(r)
    BY <1>1, <1>8, ZenonT(60) DEF Deactivate, CloseSessions
  <1>9. ASSUME NEW asked \in Asked, DeviceStart(asked) PROVE RequestGoesOn(r)
    BY <1>1, <1>9, ZenonT(60) DEF DeviceStart
  <1>10. ASSUME NEW pk \in Pks, Revoke(pk) \/ TimePasses(pk) \/ CleanExpired PROVE RequestGoesOn(r)
    BY <1>1, <1>10, ZenonT(60) DEF Revoke, TimePasses, CleanExpired
  <1>11. ASSUME CleanExpired PROVE RequestGoesOn(r)
    BY <1>1, <1>11, ZenonT(60) DEF CleanExpired
  <1> QED BY <1>5, <1>6, <1>7, <1>8, <1>9, <1>10, <1>11, ZenonT(60) DEF Next

\* A flow keeps the primary key and the kind of the device code it works for, or it has
\* just read them.
PlanGoesOn(s) ==
    /\ plan[s] # None /\ plan[s].pk # 0
    /\ plan'[s].pk = plan[s].pk /\ plan'[s].copy.kind = plan[s].copy.kind
PlanBegins(s) ==
    plan'[s].pk \in Pks /\ Is(plan'[s].pk, "device") /\ plan'[s].copy.kind = "device"

\* Every flow for a device code after a step is one of these two.
LEMMA PlansStep ==
    ASSUME Typed, Next, NEW s \in Sessions, plan'[s] # None, plan'[s].pk # 0
    PROVE  PlanGoesOn(s) \/ PlanBegins(s)
  <1> USE DEF auth, history, tables
  <1>0. TypeOK
    BY SMTT(60) DEF Typed
  <1>t. plan \in [Sessions -> Plan \cup {None}]
    BY <1>0, SMTT(60) DEF TypeOK
  <1>1. ASSUME plan'[s] = plan[s] \/ plan'[s] = None PROVE PlanGoesOn(s)
    BY <1>1, ZenonT(60) DEF PlanGoesOn
  <1>2. ASSUME NEW S \in SUBSET Sessions, DeleteSessions(S) PROVE PlanGoesOn(s)
    BY <1>0, <1>1, <1>2, DeleteSessionsEffect, ZenonT(60)
  <1>3. ASSUME NEW o \in Sessions, NEW type \in ResponseTypes, NEW asked \in Asked,
               Authorize(o, type, asked)
        PROVE  PlanGoesOn(s)
    <2>1. plan'[s] = plan[s] \/ plan'[s] = [pk |-> 0, type |-> type, scope |-> CheckedScope(type, asked)]
      BY <1>3, <1>t, ZenonT(60) DEF Authorize
    <2>2. [pk |-> 0, type |-> type, scope |-> CheckedScope(type, asked)].pk = 0
      OBVIOUS
    <2> QED BY <1>1, <2>1, <2>2, ZenonT(60)
  <1>4. ASSUME NEW o \in Sessions, Fulfil(o) \/ DeviceLeave(o) PROVE PlanGoesOn(s)
    <2>1. plan' = [plan EXCEPT ![o] = None]
      BY <1>4, ZenonT(60) DEF Fulfil, DeviceLeave
    <2> QED BY <1>1, <1>t, <2>1, ZenonT(60)
  <1>5. ASSUME NEW o \in Sessions, NEW pk \in Pks, DeviceEnter(o, pk) PROVE PlanGoesOn(s) \/ PlanBegins(s)
    <2>1. plan'[s] = plan[s] \/ plan'[s] = [pk |-> pk, copy |-> rows[pk]]
      BY <1>5, <1>t, ZenonT(60) DEF DeviceEnter
    <2>2. [pk |-> pk, copy |-> rows[pk]].pk = pk /\ [pk |-> pk, copy |-> rows[pk]].copy = rows[pk]
      BY SMTT(60)
    <2>3. Is(pk, "device")
      BY <1>5 DEF DeviceEnter
    <2> QED BY <1>1, <2>1, <2>2, <2>3, ZenonT(60) DEF PlanBegins, Is
  <1>6. ASSUME NEW o \in Sessions, DeviceFinish(o) PROVE PlanGoesOn(s)
    <2> DEFINE copy == [plan[o].copy EXCEPT !.user = SessionUser[o]]
    <2>1. /\ plan[o].copy \in Row /\ plan[o].pk # 0 /\ plan[o] # None
          /\ [plan[o] EXCEPT !.copy = copy] = [pk |-> plan[o].pk, copy |-> copy]
      BY <1>6, <1>0, PlanTyped, ZenonT(60) DEF DeviceFinish
    <2>2. plan' = [plan EXCEPT ![o] = [pk |-> plan[o].pk, copy |-> copy]]
      BY <1>6, <2>1, ZenonT(60) DEF DeviceFinish
    <2>3. copy.kind = plan[o].copy.kind
      BY <2>1 DEF Row
    <2> HIDE DEF copy
    <2>4. \/ plan'[s] = plan[s]
          \/ s = o /\ plan'[s] = [pk |-> plan[o].pk, copy |-> copy]
      BY <1>t, <2>2, ZenonT(60)
    <2>5. [pk |-> plan[o].pk, copy |-> copy].pk = plan[o].pk
          /\ [pk |-> plan[o].pk, copy |-> copy].copy = copy
      OBVIOUS
    <2> QED BY <1>1, <2>1, <2>3, <2>4, <2>5, ZenonT(60) DEF PlanGoesOn
  <1>7. ASSUME NEW o \in Sessions, Login(o) \/ Logout(o) PROVE PlanGoesOn(s)
    BY <1>1, <1>2, <1>7, ZenonT(60) DEF Login, Logout
  <1>8. ASSUME NEW u \in Users, Deactivate(u) PROVE PlanGoesOn(s)
    BY <1>1, <1>8, ZenonT(60) DEF Deactivate
  <1>9. ASSUME NEW u \in Users, CloseSessions(u) PROVE PlanGoesOn(s)
    <2>1. {o \in sessions : SessionUser[o] = u} \in SUBSET Sessions
      BY <1>0 DEF TypeOK
    <2> QED BY <1>2, <1>9, <2>1, ZenonT(60) DEF CloseSessions
  <1>10. ASSUME plan' = plan PROVE PlanGoesOn(s)
    BY <1>1, <1>10, ZenonT(60)
  <1>11. ASSUME NEW asked \in Asked, DeviceStart(asked) PROVE PlanGoesOn(s)
    BY <1>10, <1>11, ZenonT(60) DEF DeviceStart
  <1>12. ASSUME NEW pk \in Pks, Revoke(pk) \/ TimePasses(pk) PROVE PlanGoesOn(s)
    BY <1>10, <1>12, ZenonT(60) DEF Revoke, TimePasses
  <1>13. ASSUME NEW r \in Reqs,
                \/ SaveAccess(r) \/ SaveRefresh(r) \/ RetireCode(r) \/ RetireRefresh(r) \/ Interrupt(r)
                \/ \E pk \in Pks : BeginCode(r, pk) \/ BeginDevice(r, pk)
                \/ \E pk \in Pks, asked \in Asked : BeginRefresh(r, pk, asked)
         PROVE  PlanGoesOn(s)
    BY <1>10, <1>13, ZenonT(60) DEF SaveAccess, SaveRefresh, RetireCode, RetireRefresh, Interrupt,
       Fail, Answer, BeginCode, BeginDevice, BeginRefresh, Begin
  <1>14. ASSUME CleanExpired PROVE PlanGoesOn(s)
    BY <1>10, <1>14, ZenonT(60) DEF CleanExpired
  <1> QED BY <1>3, <1>4, <1>5, <1>6, <1>7, <1>8, <1>9, <1>11, <1>12, <1>13, <1>14, ZenonT(60) DEF Next

\* An access token was there before, and its session still is if it was; or it was given
\* out by a flow in a session that exists; or for what a request has read.
TokenStays(t) ==
    t \in access /\ (t.session \in sessions => t.session \in sessions')
TokenOfFlow(t) ==
    t.via = "authorize" /\ t.session \in sessions' /\ t.user = SessionUser[t.session]
TokenOfRequest(t) ==
    \E r \in Reqs :
       /\ req[r].pc # "idle" /\ t.user = req[r].copy.user
       /\ t.via = req[r].copy.kind /\ t.session = req[r].copy.session
       /\ t.session # None => t.session \in sessions'

\* Every access token there is after a step is one of these three.
LEMMA AccessStep ==
    ASSUME Typed, Next, NEW t \in access'
    PROVE  TokenStays(t) \/ TokenOfFlow(t) \/ TokenOfRequest(t)
  <1> DEFINE Goal == TokenStays(t) \/ TokenOfFlow(t) \/ TokenOfRequest(t)
  <1> USE DEF auth, history, tables
  <1>0. TypeOK
    BY DEF Typed
  <1>1. ASSUME access' \subseteq access, sessions \subseteq sessions' PROVE Goal
    BY <1>1, ZenonT(60) DEF TokenStays
  <1>2. ASSUME NEW S, DeleteSessions(S) PROVE Goal
    BY <1>2, ZenonT(60) DEF DeleteSessions, TokenStays
  <1>3. ASSUME NEW s \in Sessions, Fulfil(s) PROVE Goal
    <2>1. t \in access \/ t = Grant(SessionUser[s], s, "authorize")
      BY <1>3 DEF Fulfil
    <2>2. s \in sessions /\ sessions' = sessions
      BY <1>3, ZenonT(60) DEF Fulfil
    <2>3. CASE t \in access
      BY <2>2, <2>3, ZenonT(60) DEF TokenStays
    <2>4. CASE t = Grant(SessionUser[s], s, "authorize")
      <3>1. t.via = "authorize" /\ t.session = s /\ t.user = SessionUser[s]
        BY <2>4 DEF Grant
      <3> QED BY <2>2, <3>1, ZenonT(60) DEF TokenOfFlow
    <2> QED BY <2>1, <2>3, <2>4, SMTT(60)
  <1>4. ASSUME NEW r \in Reqs, SaveAccess(r) PROVE Goal
    <2>1. req[r].pc # "idle" /\ sessions' = sessions
      BY <1>4, SMTT(60) DEF SaveAccess, Fail
    <2>2. \/ access' = access
          \/ /\ access' = access \cup {Tokens(req[r].copy).access}
             /\ Storable(Tokens(req[r].copy).access)
      BY <1>4, ZenonT(60) DEF SaveAccess, Fail
    <2>3. CASE t \in access
      BY <2>1, <2>3, ZenonT(60) DEF TokenStays
    <2>4. CASE t = Tokens(req[r].copy).access /\ Storable(t)
      <3>1. /\ t.user = req[r].copy.user /\ t.via = req[r].copy.kind
            /\ t.session = req[r].copy.session
        BY <1>0, <2>1, <2>4, RequestTyped, TokensTyped, ZenonT(60) DEF RequestCopies, Typed
      <3>2. t.session # None => t.session \in sessions'
        BY <2>1, <2>4, ZenonT(60) DEF Storable
      <3> QED BY <2>1, <3>1, <3>2, ZenonT(60) DEF TokenOfRequest
    <2> QED BY <2>2, <2>3, <2>4, ZenonT(60)
  <1>5. ASSUME NEW s \in Sessions,
               \/ Login(s) \/ DeviceFinish(s) \/ DeviceLeave(s)
               \/ \E type \in ResponseTypes, asked \in Asked : Authorize(s, type, asked)
               \/ \E pk \in Pks : DeviceEnter(s, pk)
        PROVE  Goal
    <2>1. access' = access /\ sessions \subseteq sessions'
      BY <1>5 DEF Login, DeviceFinish, DeviceLeave, Authorize, DeviceEnter, Save
    <2> QED BY <1>1, <2>1, SMTT(60)
  <1>6. ASSUME NEW s \in Sessions, Logout(s) PROVE Goal
    BY <1>2, <1>6, ZenonT(60) DEF Logout
  <1>7. ASSUME NEW u \in Users, Deactivate(u) PROVE Goal
    BY <1>1, <1>7, ZenonT(60) DEF Deactivate
  <1>8. ASSUME NEW u \in Users, CloseSessions(u) PROVE Goal
    BY <1>2, <1>8, ZenonT(60) DEF CloseSessions
  <1>9. ASSUME NEW asked \in Asked, DeviceStart(asked) PROVE Goal
    BY <1>1, <1>9, ZenonT(60) DEF DeviceStart
  <1>10. ASSUME NEW pk \in Pks, Revoke(pk) \/ TimePasses(pk) PROVE Goal
    BY <1>1, <1>10, ZenonT(60) DEF Revoke, TimePasses, Delete
  <1>11. ASSUME NEW r \in Reqs,
                \/ SaveRefresh(r) \/ RetireCode(r) \/ RetireRefresh(r) \/ Interrupt(r)
                \/ \E pk \in Pks : BeginCode(r, pk) \/ BeginDevice(r, pk)
                \/ \E pk \in Pks, asked \in Asked : BeginRefresh(r, pk, asked)
         PROVE  Goal
    <2>1. access' = access /\ sessions' = sessions
      BY <1>11, ZenonT(60) DEF SaveRefresh, RetireCode, RetireRefresh, Interrupt, Fail, Answer, Save,
         Delete, BeginCode, BeginDevice, BeginRefresh, Begin
    <2> QED BY <1>1, <2>1, SMTT(60)
  <1>12. ASSUME CleanExpired PROVE Goal
    BY <1>1, <1>12, ZenonT(60) DEF CleanExpired
  <1> QED BY <1>3, <1>4, <1>5, <1>6, <1>7, <1>8, <1>9, <1>10, <1>11, <1>12, ZenonT(60) DEF Next

\* An account stays as it is; or the user is deactivated and loses what is not a code; or
\* the sessions are deleted.
JustDeactivated(u) ==
    /\ account[u] = "active" /\ account'[u] = "inactive" /\ req' = req
    /\ InFlight(u) => u \in overlapped'
    /\ \A pk \in Pks : rows'[pk] # None /\ rows'[pk].user = u => rows'[pk].kind = "code"
    /\ \A t \in access' : t.user # u
JustClosed(u) ==
    account[u] = "inactive" /\ \A s \in sessions' : SessionUser[s] # u

\* Accounts only go on; sessions are opened for active users; notes and expiry stay.
LEMMA AccountsStep ==
    ASSUME Typed, Next, NEW u
    PROVE  /\ u \in Users => account'[u] = account[u] \/ JustDeactivated(u) \/ JustClosed(u)
           /\ \A s \in sessions' : s \in sessions \/ account[SessionUser[s]] = "active"
           /\ overlapped \subseteq overlapped' /\ expired \subseteq expired'
           /\ nextPk' \in Nat /\ nextPk <= nextPk'
  <1> USE DEF auth, history, tables
  <1> DEFINE A == u \in Users => account'[u] = account[u] \/ JustDeactivated(u) \/ JustClosed(u)
             S == \A s \in sessions' : s \in sessions \/ account[SessionUser[s]] = "active"
             O == overlapped \subseteq overlapped'
             E == expired \subseteq expired'
             N == nextPk' \in Nat /\ nextPk <= nextPk'
  <1>0. TypeOK
    BY SMTT(60) DEF Typed
  <1>t. account \in [Users -> {"active", "inactive", "closed"}]
    BY <1>0, SMTT(60) DEF TypeOK
  <1>n. nextPk \in Nat
    BY <1>0, SMTT(60) DEF TypeOK
  <1>1. ASSUME account' = account, sessions' = sessions, O, E, nextPk' = nextPk
        PROVE  A /\ S /\ O /\ E /\ N
    BY <1>1, <1>n, SMTT(60)
  <1>2. ASSUME NEW s \in Sessions, Login(s) PROVE A /\ S /\ O /\ E /\ N
    BY <1>2, <1>n, SMTT(60) DEF Login
  <1>3. ASSUME NEW s \in Sessions, Logout(s) PROVE A /\ S /\ O /\ E /\ N
    BY <1>3, <1>n, SMTT(60) DEF Logout, DeleteSessions
  <1>4. ASSUME NEW v \in Users, Deactivate(v) PROVE A /\ S /\ O /\ E /\ N
    <2>1. S /\ O /\ E /\ N
      BY <1>4, <1>n, SMTT(60) DEF Deactivate
    <2>2. CASE u # v
      BY <1>4, <1>t, <2>1, <2>2, SMTT(60) DEF Deactivate
    <2>3. CASE u = v
      <3>1. account[u] = "active" /\ account'[u] = "inactive" /\ req' = req
        BY <1>4, <1>t, <2>3, ZenonT(60) DEF Deactivate
      <3>2. InFlight(u) => u \in overlapped'
        BY <1>4, <2>3, SMTT(60) DEF Deactivate
      <3>3. \A pk \in Pks : rows'[pk] # None /\ rows'[pk].user = u => rows'[pk].kind = "code"
        BY <1>4, <2>3, ZenonT(60) DEF Deactivate
      <3>4. \A t \in access' : t.user # u
        BY <1>4, <2>3, ZenonT(60) DEF Deactivate
      <3> QED BY <2>1, <3>1, <3>2, <3>3, <3>4, SMTT(60) DEF JustDeactivated
    <2> QED BY <2>2, <2>3, SMTT(60)
  <1>5. ASSUME NEW v \in Users, CloseSessions(v) PROVE A /\ S /\ O /\ E /\ N
    <2>1. S /\ O /\ E /\ N
      BY <1>5, <1>n, SMTT(60) DEF CloseSessions, DeleteSessions
    <2>2. CASE u # v
      BY <1>5, <1>t, <2>1, <2>2, SMTT(60) DEF CloseSessions
    <2>3. CASE u = v
      BY <1>5, <2>1, <2>3, SMTT(60) DEF CloseSessions, DeleteSessions, JustClosed
    <2> QED BY <2>2, <2>3
  <1>6. ASSUME NEW row \in Row, Insert(<<row>>), account' = account, sessions' = sessions, O
        PROVE  A /\ S /\ O /\ E /\ N
    BY <1>0, <1>6, <1>n, InsertOne, SMTT(60)
  <1>7. ASSUME NEW s \in Sessions, Fulfil(s) PROVE A /\ S /\ O /\ E /\ N
    <2>1. SessionUser[s] \in Users
      BY OAuth2Assumption, ZenonT(60)
    <2>2. plan[s].scope \in SUBSET Scope
      BY <1>7, <1>0, PlanTyped, ZenonT(60) DEF Fulfil
    <2>3. NewRow("code", SessionUser[s], s, plan[s].scope) \in Row
      BY <2>1, <2>2, NewRowTyped, ZenonT(60) DEF Kinds
    <2>4. account' = account /\ sessions' = sessions /\ O
      BY <1>7, ZenonT(60) DEF Fulfil
    <2>5. CASE Insert(<<NewRow("code", SessionUser[s], s, plan[s].scope)>>)
      BY <1>6, <2>3, <2>4, <2>5, ZenonT(60)
    <2>6. CASE Insert(<<>>)
      <3>1. nextPk' = nextPk /\ E
        BY <1>0, <2>6, InsertNone, ZenonT(60)
      <3> QED BY <1>1, <2>4, <3>1, ZenonT(60)
    <2> QED BY <1>7, <2>5, <2>6, ZenonT(60) DEF Fulfil
  <1>8. ASSUME NEW asked \in Asked, DeviceStart(asked) PROVE A /\ S /\ O /\ E /\ N
    <2>1. NewRow("device", None, None, asked) \in Row
      BY OAuth2Assumption, NewRowTyped DEF Kinds, Scope, OpenID, Offline
    <2>2. account' = account /\ sessions' = sessions /\ O
      BY <1>8, ZenonT(60) DEF DeviceStart
    <2> QED BY <1>6, <1>8, <2>1, <2>2, ZenonT(60) DEF DeviceStart
  <1>9. ASSUME NEW s \in Sessions, DeviceFinish(s) PROVE A /\ S /\ O /\ E /\ N
    BY <1>9, <1>n, SMTT(60) DEF DeviceFinish, Save
  <1>10. ASSUME NEW s \in Sessions,
                \/ DeviceLeave(s)
                \/ \E type \in ResponseTypes, asked \in Asked : Authorize(s, type, asked)
                \/ \E pk \in Pks : DeviceEnter(s, pk)
         PROVE  A /\ S /\ O /\ E /\ N
    BY <1>10, <1>n, SMTT(60) DEF DeviceLeave, Authorize, DeviceEnter
  <1>11. ASSUME NEW r \in Reqs, Fail(r) PROVE A /\ S /\ O /\ E /\ N
    BY <1>11, <1>n, SMTT(60) DEF Fail
  <1>12. ASSUME NEW r \in Reqs, NEW pk \in Pks, Begin(r, pk) PROVE A /\ S /\ O /\ E /\ N
    BY <1>12, <1>n, SMTT(60) DEF Begin
  <1>13. ASSUME NEW r \in Reqs, SaveAccess(r) PROVE A /\ S /\ O /\ E /\ N
    BY <1>11, <1>13, <1>n, SMTT(60) DEF SaveAccess
  <1>14. ASSUME NEW r \in Reqs, SaveRefresh(r) PROVE A /\ S /\ O /\ E /\ N
    <2>1. req[r].pc # "idle"
      BY <1>14, SMTT(60) DEF SaveRefresh
    <2>2. Tokens(req[r].copy).refresh \in Row
      BY <1>0, <2>1, RequestTyped, TokensTyped, ZenonT(60) DEF RequestCopies, Typed
    <2>3. CASE Insert(<<Tokens(req[r].copy).refresh>>) /\ UNCHANGED <<access, auth, plan, history>>
      <3>1. account' = account /\ sessions' = sessions /\ O
        BY <2>3, ZenonT(60)
      <3> QED BY <1>6, <2>2, <2>3, <3>1, ZenonT(60)
    <2> QED BY <1>11, <1>14, <2>3, ZenonT(60) DEF SaveRefresh
  <1>15. ASSUME NEW r \in Reqs, RetireCode(r) PROVE A /\ S /\ O /\ E /\ N
    BY <1>15, <1>n, SMTT(60) DEF RetireCode, Delete, Answer
  <1>16. ASSUME NEW r \in Reqs, RetireRefresh(r) PROVE A /\ S /\ O /\ E /\ N
    <2>1. CASE Save(req[r].pk, [req[r].copy EXCEPT !.revoked = TRUE]) /\ Answer(r)
      BY <2>1, <1>n, SMTT(60) DEF Save, Answer
    <2> QED BY <1>11, <1>16, <2>1, ZenonT(60) DEF RetireRefresh
  <1>17. ASSUME NEW pk \in Pks, Revoke(pk) \/ TimePasses(pk) PROVE A /\ S /\ O /\ E /\ N
    BY <1>17, <1>n, SMTT(60) DEF Revoke, Delete, TimePasses
  <1>18. ASSUME CleanExpired PROVE A /\ S /\ O /\ E /\ N
    BY <1>18, <1>n, SMTT(60) DEF CleanExpired
  <1>19. A /\ S /\ O /\ E /\ N
    BY <1>2, <1>3, <1>4, <1>5, <1>7, <1>8, <1>9, <1>10, <1>11, <1>12, <1>13, <1>14, <1>15,
       <1>16, <1>17, <1>18, Zenon DEF Next, BeginCode, BeginDevice, BeginRefresh, Interrupt
  <1> QED BY <1>19, SMTT(60)

\* A token response was sent for this code or refresh token before, or one is sent now: for
\* what a request has read, and after that the row is gone or revoked.
AnsweredNow(pk) ==
    \E r \in Reqs :
       /\ req[r].pc # "idle" /\ req[r].pk = pk /\ req[r].copy.kind # "device"
       /\ rows'[pk] = None \/ (rows'[pk].kind = "refresh" /\ rows'[pk].revoked)

\* Every key that counts as answered after a step is one of these two.
LEMMA AnsweredStep ==
    ASSUME Typed, Next, NEW pk \in answered'
    PROVE  pk \in answered \/ AnsweredNow(pk)
  <1> USE DEF auth, history, tables
  <1>0. TypeOK
    BY DEF Typed
  <1>t. rows \in [Pks -> Row \cup {None}]
    BY <1>0, SMTT(60) DEF TypeOK
  <1>1. ASSUME answered' = answered PROVE pk \in answered
    BY <1>1
  <1>2. ASSUME NEW r \in Reqs, RetireCode(r) PROVE pk \in answered \/ AnsweredNow(pk)
    <2>1. req[r].pc # "idle"
      BY <1>2 DEF RetireCode
    <2>2. req[r].pk \in Pks
      BY <1>0, <2>1, RequestTyped, ZenonT(60)
    <2>3. rows'[req[r].pk] = None
      BY <1>2, <1>t, <2>2, ZenonT(60) DEF RetireCode, Delete
    <2>4. pk \in answered \/ (pk = req[r].pk /\ req[r].copy.kind # "device")
      BY <1>2 DEF RetireCode, Answer
    <2> QED BY <2>1, <2>3, <2>4, ZenonT(60) DEF AnsweredNow
  <1>3. ASSUME NEW r \in Reqs, RetireRefresh(r) PROVE pk \in answered \/ AnsweredNow(pk)
    <2> DEFINE copy == [req[r].copy EXCEPT !.revoked = TRUE]
    <2>1. req[r].pc # "idle" /\ req[r].copy.kind = "refresh"
      BY <1>3 DEF RetireRefresh
    <2>2. req[r].pk \in Pks /\ req[r].copy \in Row
      BY <1>0, <2>1, RequestTyped, ZenonT(60)
    <2>3. copy.kind = req[r].copy.kind /\ copy.revoked = TRUE
      BY <2>2 DEF Row
    <2>4. CASE Save(req[r].pk, copy) /\ Answer(r)
      <3>1. rows'[req[r].pk] = copy
        BY <1>t, <2>2, <2>4, ZenonT(60) DEF Save
      <3>2. pk \in answered \/ pk = req[r].pk
        BY <2>4 DEF Answer
      <3>3. "refresh" # "device"
        OBVIOUS
      <3> HIDE DEF copy
      <3> QED BY <2>1, <2>3, <3>1, <3>2, <3>3, ZenonT(60) DEF AnsweredNow
    <2>5. CASE Fail(r)
      BY <1>1, <2>5, ZenonT(60) DEF Fail
    <2> QED BY <1>3, <2>4, <2>5, ZenonT(60) DEF RetireRefresh
  <1>4. ASSUME NEW s \in Sessions,
               \/ Login(s) \/ Logout(s) \/ Fulfil(s) \/ DeviceFinish(s) \/ DeviceLeave(s)
               \/ \E type \in ResponseTypes, asked \in Asked : Authorize(s, type, asked)
               \/ \E q \in Pks : DeviceEnter(s, q)
        PROVE  pk \in answered
    BY <1>1, <1>4, ZenonT(60) DEF Login, Logout, Fulfil, DeviceFinish, DeviceLeave, Authorize, DeviceEnter
  <1>5. ASSUME NEW u \in Users, Deactivate(u) \/ CloseSessions(u) PROVE pk \in answered
    BY <1>1, <1>5, ZenonT(60) DEF Deactivate, CloseSessions
  <1>6. ASSUME NEW asked \in Asked, DeviceStart(asked) PROVE pk \in answered
    BY <1>1, <1>6, ZenonT(60) DEF DeviceStart
  <1>7. ASSUME NEW r \in Reqs, NEW q \in Pks, Begin(r, q) PROVE pk \in answered
    BY <1>1, <1>7, ZenonT(60) DEF Begin
  <1>8. ASSUME NEW r \in Reqs, SaveAccess(r) \/ SaveRefresh(r) \/ Interrupt(r) PROVE pk \in answered
    BY <1>1, <1>8, ZenonT(60) DEF SaveAccess, SaveRefresh, Interrupt, Fail
  <1>9. ASSUME NEW q \in Pks, Revoke(q) \/ TimePasses(q) PROVE pk \in answered
    BY <1>1, <1>9, ZenonT(60) DEF Revoke, TimePasses
  <1>10. ASSUME CleanExpired PROVE pk \in answered
    BY <1>1, <1>10, ZenonT(60) DEF CleanExpired
  <1> QED BY <1>2, <1>3, <1>4, <1>5, <1>6, <1>7, <1>8, <1>9, <1>10, ZenonT(60)
          DEF Next, BeginCode, BeginDevice, BeginRefresh

-----------------------------------------------------------------------------
(* The invariants, from what a step does to each table *)

\* A refresh token that forgets its session (on_delete SET_DEFAULT) keeps all else.
LEMMA ForgetsOnlySession ==
    ASSUME TypeOK, NEW pk \in Pks, RowForgets(pk)
    PROVE  /\ rows'[pk] # None => rows[pk] # None
           /\ rows[pk].kind = "refresh" /\ rows'[pk].kind = "refresh"
           /\ rows'[pk].user = rows[pk].user /\ rows'[pk].revoked = rows[pk].revoked
  <1>1. rows[pk] # None /\ rows[pk].kind = "refresh" /\ rows'[pk] = [rows[pk] EXCEPT !.session = None]
    BY Zenon DEF RowForgets, Is
  <1>2. rows[pk] \in Row
    BY <1>1, RowTyped, ZenonT(60)
  <1>3. \A r \in Row : LET f == [r EXCEPT !.session = None]
                       IN  f.kind = r.kind /\ f.user = r.user /\ f.revoked = r.revoked
    BY SMTT(60) DEF Row
  <1> QED BY <1>1, <1>2, <1>3, ZenonT(60)

\* The kinds are different strings, and None is not one of the users.
LEMMA Distinct ==
    /\ "code" # "refresh" /\ "code" # "device" /\ "refresh" # "device"
    /\ "authorize" \notin Kinds /\ \A u \in Users : u # None
  <1>1. None \notin Users
    BY Bounds, ZenonT(60)
  <1> QED BY <1>1 DEF Kinds

\* Codes stay with sessions that exist: a session takes its codes with it.
LEMMA CodesStep ==
    ASSUME Typed, CodesOfSessions, Next
    PROVE  CodesOfSessions'
  <1> SUFFICES ASSUME NEW pk \in Pks, Is(pk, "code")'
               PROVE  /\ rows'[pk].session \in sessions'
                      /\ rows'[pk].user = SessionUser[rows'[pk].session]
    BY ZenonT(60) DEF CodesOfSessions, Is
  <1>1. RowStep(pk)
    BY RowsStep
  <1>2. rows'[pk] # None /\ rows'[pk].kind = "code"
    BY Zenon DEF Is
  <1>3. ASSUME RowForgets(pk) PROVE FALSE
    BY <1>2, <1>3, ForgetsOnlySession, Distinct, ZenonT(60) DEF Typed
  <1>4. ASSUME RowFinished(pk) \/ RowRevoked(pk) PROVE FALSE
    BY <1>2, <1>4, Distinct, ZenonT(60) DEF RowFinished, RowRevoked
  <1>5. CASE RowNew(pk)
    BY <1>2, <1>5, Distinct, ZenonT(60) DEF RowNew
  <1>6. CASE RowStays(pk)
    BY <1>2, <1>6, ZenonT(60) DEF RowStays, CodesOfSessions, Is
  <1> QED BY <1>1, <1>2, <1>3, <1>4, <1>5, <1>6, ZenonT(60) DEF RowStep

\* Access tokens that were given out for a session or a code end with the session.
LEMMA LogoutStep ==
    ASSUME Typed, LogoutEndsAccess, Next
    PROVE  LogoutEndsAccess'
  <1> SUFFICES ASSUME NEW t \in access', t.via \in {"authorize", "code"}
               PROVE  t.session \in sessions'
    BY ZenonT(60) DEF LogoutEndsAccess
  <1>1. CASE TokenStays(t)
    BY <1>1, ZenonT(60) DEF TokenStays, LogoutEndsAccess
  <1>2. CASE TokenOfFlow(t)
    BY <1>2, ZenonT(60) DEF TokenOfFlow
  <1>3. CASE TokenOfRequest(t)
    <2>1. PICK r \in Reqs : /\ req[r].pc # "idle" /\ t.via = req[r].copy.kind
                            /\ t.session = req[r].copy.session
                            /\ t.session # None => t.session \in sessions'
      BY <1>3, ZenonT(60) DEF TokenOfRequest
    <2>2. req[r].copy \in Row /\ TypeOK /\ RequestCopies
      BY <2>1, RequestTyped, ZenonT(60) DEF Typed
    <2>3. req[r].copy.kind \in Kinds
      BY <2>2, SMTT(60) DEF Row
    <2>4. req[r].copy.kind = "code"
      BY <2>1, <2>3, Distinct, ZenonT(60)
    <2> QED BY <2>1, <2>2, <2>4, ZenonT(60) DEF RequestCopies
  <1> QED BY <1>1, <1>2, <1>3, AccessStep, ZenonT(60)

\* No session is opened for a user who is not active, and closing an account leaves none.
LEMMA ClosedStep ==
    ASSUME Typed, SessionsClosed, Next
    PROVE  SessionsClosed'
  <1> SUFFICES ASSUME NEW u \in Users, account'[u] = "closed", NEW s \in sessions'
               PROVE  SessionUser[s] # u
    BY ZenonT(60) DEF SessionsClosed
  <1>1. "closed" # "inactive" /\ "closed" # "active"
    OBVIOUS
  <1>2. /\ account'[u] = account[u] \/ JustDeactivated(u) \/ JustClosed(u)
        /\ s \in sessions \/ account[SessionUser[s]] = "active"
    BY AccountsStep, ZenonT(60)
  <1>3. CASE account'[u] = account[u]
    BY <1>1, <1>2, <1>3, ZenonT(60) DEF SessionsClosed
  <1>4. CASE JustDeactivated(u)
    BY <1>1, <1>4, ZenonT(60) DEF JustDeactivated
  <1>5. CASE JustClosed(u)
    BY <1>5, ZenonT(60) DEF JustClosed
  <1> QED BY <1>2, <1>3, <1>4, <1>5, SMTT(60)

\* A user who was deactivated with no request under way gets no request, token or device
\* code: a new one needs a row of the user or a request, and a flow that goes on is noted.
LEMMA NothingLeftStep ==
    ASSUME Typed, CodesOfSessions, SessionsClosed, NothingLeft, Next
    PROVE  NothingLeft'
  <1> SUFFICES ASSUME NEW u \in Users, account'[u] # "active", u \notin overlapped'
               PROVE  /\ ~InFlight(u)'
                      /\ \A pk \in Pks : rows'[pk] # None /\ rows'[pk].user = u
                                           => rows'[pk].kind = "code"
                      /\ \A t \in access' : t.user = u =>
                           t.session \in sessions' /\ SessionUser[t.session] = u
    BY ZenonT(60) DEF NothingLeft, Deactivated, InFlight
  <1>1. /\ account'[u] = account[u] \/ JustDeactivated(u) \/ JustClosed(u)
        /\ u \notin overlapped
    BY AccountsStep, ZenonT(60)
  <1>2. CASE JustDeactivated(u)
    <2>1. ~InFlight(u)'
      BY <1>2, ZenonT(60) DEF JustDeactivated, InFlight
    <2> QED BY <1>2, <2>1, ZenonT(60) DEF JustDeactivated
  <1>3. CASE account[u] # "active"
    <2>1. /\ ~InFlight(u)
          /\ \A pk \in Pks : rows[pk] # None /\ rows[pk].user = u => rows[pk].kind = "code"
          /\ \A t \in access : t.user = u => t.session \in sessions /\ SessionUser[t.session] = u
      BY <1>1, <1>3, ZenonT(60) DEF NothingLeft, Deactivated
    <2>2. ~InFlight(u)'
      <3> SUFFICES ASSUME NEW r \in Reqs, req'[r].pc # "idle", req'[r].copy.user = u
                   PROVE  FALSE
        BY ZenonT(60) DEF InFlight
      <3>1. CASE RequestGoesOn(r)
        BY <2>1, <3>1, ZenonT(60) DEF RequestGoesOn, InFlight
      <3>2. CASE RequestBegins(r)
        <4>1. PICK pk \in Pks : rows[pk] # None /\ rows[pk].user = u
          BY <3>2, ZenonT(60) DEF RequestBegins
        <4>2. account[u] # "inactive"
          BY <3>2, ZenonT(60) DEF RequestBegins
        <4>3. account[u] = "closed"
          BY <1>3, <4>2, SMTT(60) DEF Typed, TypeOK
        <4>4. rows[pk].session \in sessions /\ u = SessionUser[rows[pk].session]
          BY <2>1, <4>1, ZenonT(60) DEF CodesOfSessions, Is
        <4> QED BY <4>3, <4>4, ZenonT(60) DEF SessionsClosed
      <3> QED BY <3>1, <3>2, RequestsStep, ZenonT(60)
    <2>3. ASSUME NEW pk \in Pks, rows'[pk] # None, rows'[pk].user = u PROVE rows'[pk].kind = "code"
      <3>1. CASE RowStays(pk)
        BY <2>1, <2>3, <3>1, ZenonT(60) DEF RowStays
      <3>2. CASE RowForgets(pk)
        BY <2>1, <2>3, <3>2, ForgetsOnlySession, Distinct, ZenonT(60) DEF Typed
      <3>3. CASE RowNew(pk)
        BY <2>1, <2>3, <3>3, Distinct, ZenonT(60) DEF RowNew, InFlight
      <3>4. CASE RowFinished(pk)
        BY <1>3, <2>3, <3>4, ZenonT(60) DEF RowFinished
      <3>5. CASE RowRevoked(pk)
        BY <2>1, <2>3, <3>5, ZenonT(60) DEF RowRevoked, InFlight
      <3> QED BY <2>3, <3>1, <3>2, <3>3, <3>4, <3>5, RowsStep, ZenonT(60) DEF RowStep
    <2>4. ASSUME NEW t \in access', t.user = u
          PROVE  t.session \in sessions' /\ SessionUser[t.session] = u
      <3>1. CASE TokenStays(t)
        BY <2>1, <2>4, <3>1, ZenonT(60) DEF TokenStays
      <3>2. CASE TokenOfFlow(t)
        BY <2>4, <3>2, ZenonT(60) DEF TokenOfFlow
      <3>3. CASE TokenOfRequest(t)
        BY <2>1, <2>4, <3>3, ZenonT(60) DEF TokenOfRequest, InFlight
      <3> QED BY <3>1, <3>2, <3>3, AccessStep, ZenonT(60)
    <2> QED BY <2>2, <2>3, <2>4, ZenonT(60)
  <1>4. ASSUME JustClosed(u) PROVE account[u] # "active"
    BY <1>4, SMTT(60) DEF JustClosed
  <1>5. ASSUME account'[u] = account[u] PROVE account[u] # "active"
    BY <1>5, SMTT(60)
  <1>6. JustDeactivated(u) \/ account[u] # "active"
    BY <1>1, <1>4, <1>5, SMTT(60)
  <1> QED BY <1>2, <1>3, <1>6, SMTT(60)

\* Nobody holds a row that is not there yet.
LEMMA NotHeldYet ==
    ASSUME Typed, NEW pk \in Pks, NEW k, Holds(pk, k)
    PROVE  pk < nextPk
  <1>1. TypeOK /\ RequestCopies /\ PlanCopies
    BY Zenon DEF Typed
  <1>2. CASE Is(pk, k)
    BY <1>1, <1>2, RowTyped, ZenonT(60) DEF Is
  <1>3. CASE \E r \in Reqs : req[r].pc # "idle" /\ req[r].pk = pk
    BY <1>1, <1>3, ZenonT(60) DEF RequestCopies
  <1>4. CASE \E s \in Sessions : plan[s] # None /\ plan[s].pk # 0 /\ plan[s].pk = pk
    BY <1>1, <1>4, ZenonT(60) DEF PlanCopies
  <1> QED BY <1>2, <1>3, <1>4, ZenonT(60) DEF Holds

\* What is held after a step was held before, or is the row that the step inserts.
LEMMA HoldsStep ==
    ASSUME Typed, Next, NEW pk \in Pks, NEW k, Holds(pk, k)'
    PROVE  Holds(pk, k) \/ (pk = nextPk /\ rows'[pk].kind = k)
  <1>1. CASE Is(pk, k)'
    <2>1. rows'[pk] # None /\ rows'[pk].kind = k
      BY <1>1, ZenonT(60) DEF Is
    <2>2. CASE RowStays(pk)
      BY <2>1, <2>2, ZenonT(60) DEF RowStays, Holds, Is
    <2>3. CASE RowForgets(pk)
      BY <2>1, <2>3, ForgetsOnlySession, ZenonT(60) DEF Holds, Is, Typed
    <2>4. CASE RowNew(pk)
      BY <2>1, <2>4, Zenon DEF RowNew
    <2>5. CASE RowFinished(pk)
      <3>1. PICK s \in sessions : plan[s] # None /\ plan[s].pk # 0 /\ plan[s].pk = pk
                                  /\ rows'[pk].kind = "device"
        BY <2>5, ZenonT(60) DEF RowFinished
      <3>2. s \in Sessions
        BY DEF Typed, TypeOK
      <3>3. plan[s].copy.kind = "device"
        BY <3>1, <3>2, ZenonT(60) DEF Typed, PlanCopies
      <3> QED BY <2>1, <3>1, <3>2, <3>3, ZenonT(60) DEF Holds
    <2>6. CASE RowRevoked(pk)
      BY <2>1, <2>6, ZenonT(60) DEF RowRevoked, Holds
    <2> QED BY <2>1, <2>2, <2>3, <2>4, <2>5, <2>6, RowsStep, ZenonT(60) DEF RowStep
  <1>2. ASSUME NEW r \in Reqs, req'[r].pc # "idle", req'[r].pk = pk, req'[r].copy.kind = k
        PROVE  Holds(pk, k)
    <2>1. CASE RequestGoesOn(r)
      BY <1>2, <2>1, ZenonT(60) DEF RequestGoesOn, Holds
    <2>2. CASE RequestBegins(r)
      BY <1>2, <2>2, ZenonT(60) DEF RequestBegins, Holds, Is
    <2> QED BY <1>2, <2>1, <2>2, RequestsStep, ZenonT(60)
  <1>3. ASSUME NEW s \in Sessions, plan'[s] # None, plan'[s].pk # 0, plan'[s].pk = pk,
               plan'[s].copy.kind = k
        PROVE  Holds(pk, k)
    <2>1. CASE PlanGoesOn(s)
      BY <1>3, <2>1, ZenonT(60) DEF PlanGoesOn, Holds
    <2>2. CASE PlanBegins(s)
      BY <1>3, <2>2, ZenonT(60) DEF PlanBegins, Holds, Is
    <2> QED BY <1>3, <2>1, <2>2, PlansStep, ZenonT(60)
  <1> QED BY <1>1, <1>2, <1>3, ZenonT(60) DEF Holds

\* A key keeps its kind, and what was answered stays deleted or revoked.
LEMMA KindsStep ==
    ASSUME Typed, KindsFixed, Next
    PROVE  KindsFixed'
  <1>n. nextPk \in Nat /\ nextPk' \in Nat /\ nextPk <= nextPk' /\ Pks \subseteq Nat
    <2>1. nextPk \in Nat
      BY DEF Typed, TypeOK
    <2>2. nextPk' \in Nat /\ nextPk <= nextPk'
      BY AccountsStep, ZenonT(60)
    <2> QED BY <2>1, <2>2, SMTT(60) DEF Pks
  <1>m. \A pk \in Pks : pk < nextPk => pk # nextPk /\ pk < nextPk'
    BY <1>n, SMTT(60)
  <1>1. ASSUME NEW pk \in Pks, NEW k1 \in Kinds, NEW k2 \in Kinds, Holds(pk, k1)', Holds(pk, k2)'
        PROVE  k1 = k2
    <2>1. Holds(pk, k1) \/ (pk = nextPk /\ rows'[pk].kind = k1)
      BY <1>1, HoldsStep, ZenonT(60)
    <2>2. Holds(pk, k2) \/ (pk = nextPk /\ rows'[pk].kind = k2)
      BY <1>1, HoldsStep, ZenonT(60)
    <2>3. \A k : Holds(pk, k) => pk # nextPk
      BY <1>m, NotHeldYet, ZenonT(60)
    <2> QED BY <2>1, <2>2, <2>3, ZenonT(60) DEF KindsFixed
  <1>2. ASSUME NEW pk \in answered'
        PROVE  /\ pk < nextPk' /\ ~Holds(pk, "device")'
               /\ rows'[pk] # None => rows'[pk].kind = "refresh" /\ rows'[pk].revoked
    <2>0. /\ answered \subseteq Pks /\ TypeOK
          /\ \A r \in Reqs : req[r].pc # "idle" => req[r].pk \in Pks /\ req[r].copy.kind \in Kinds
      <3>1. \A r \in Reqs : req[r].pc # "idle" => req[r].pk \in Pks /\ req[r].copy \in Row
        BY RequestTyped, ZenonT(60) DEF Typed
      <3>2. \A row \in Row : row.kind \in Kinds
        BY DEF Row
      <3> QED BY <3>1, <3>2, SMTT(60) DEF Typed, TypeOK
    <2>1. CASE pk \in answered
      <3>0. pk \in Pks /\ pk < nextPk /\ ~Holds(pk, "device")
        BY <2>0, <2>1, ZenonT(60) DEF KindsFixed
      <3>1. rows[pk] # None => rows[pk].kind = "refresh" /\ rows[pk].revoked
        BY <2>1, ZenonT(60) DEF KindsFixed
      <3>2. pk < nextPk' /\ pk # nextPk
        BY <1>m, <3>0, ZenonT(60)
      <3>3. ~Holds(pk, "device")'
        BY <3>0, <3>2, HoldsStep, ZenonT(60)
      <3>4. ASSUME rows'[pk] # None PROVE rows'[pk].kind = "refresh" /\ rows'[pk].revoked
        <4>1. CASE RowStays(pk)
          BY <3>1, <3>4, <4>1, ZenonT(60) DEF RowStays
        <4>2. CASE RowForgets(pk)
          BY <2>0, <3>0, <3>1, <3>4, <4>2, ForgetsOnlySession, ZenonT(60)
        <4>3. CASE RowNew(pk)
          BY <3>2, <4>3, ZenonT(60) DEF RowNew
        <4>4. CASE RowFinished(pk)
          BY <3>3, <3>4, <4>4, ZenonT(60) DEF RowFinished, Holds, Is
        <4>5. CASE RowRevoked(pk)
          BY <4>5, ZenonT(60) DEF RowRevoked
        <4> QED BY <3>0, <3>4, <4>1, <4>2, <4>3, <4>4, <4>5, RowsStep, ZenonT(60) DEF RowStep
      <3> QED BY <3>2, <3>3, <3>4, ZenonT(60)
    <2>2. CASE AnsweredNow(pk)
      <3>1. PICK r \in Reqs :
               /\ req[r].pc # "idle" /\ req[r].pk = pk /\ req[r].copy.kind # "device"
               /\ rows'[pk] = None \/ (rows'[pk].kind = "refresh" /\ rows'[pk].revoked)
        BY <2>2, ZenonT(60) DEF AnsweredNow
      <3>2. pk \in Pks /\ Holds(pk, req[r].copy.kind) /\ req[r].copy.kind \in Kinds
        BY <2>0, <3>1, ZenonT(60) DEF Holds
      <3>3. pk < nextPk' /\ pk # nextPk
        BY <1>m, <3>2, NotHeldYet, ZenonT(60)
      <3>4. "device" \in Kinds
        BY DEF Kinds
      <3>5. ~Holds(pk, "device")
        BY <3>1, <3>2, <3>4, ZenonT(60) DEF KindsFixed
      <3>6. ~Holds(pk, "device")'
        BY <3>2, <3>3, <3>5, HoldsStep, ZenonT(60)
      <3> QED BY <3>1, <3>3, <3>6, ZenonT(60)
    <2> QED BY <2>1, <2>2, AnsweredStep, ZenonT(60)
  <1> QED BY <1>1, <1>2, ZenonT(60) DEF KindsFixed

-----------------------------------------------------------------------------
(* The theorems *)

\* At the start there is no row, no session and no request.
LEMMA InitIInv == Init => IInv
  <1> SUFFICES ASSUME Init PROVE IInv
    BY SMTT(60)
  <1>0. MaxRows \in Nat /\ None \notin Users /\ None \notin Sessions
    BY Bounds, ZenonT(60)
  <1>1. TypeOK
    BY <1>0, SMTT(60) DEF Init, TypeOK, Request
  <1>2. /\ \A pk \in Pks : rows[pk] = None
        /\ \A s \in Sessions : plan[s] = None
        /\ \A r \in Reqs : req[r].pc = "idle"
        /\ \A u \in Users : account[u] = "active"
        /\ access = {} /\ answered = {}
    BY DEF Init, NoReq
  <1>3. "active" # "closed"
    OBVIOUS
  <1>4. RequestCopies /\ PlanCopies /\ CodesOfSessions /\ SessionsClosed
    BY <1>2, <1>3, ZenonT(60) DEF RequestCopies, PlanCopies, CodesOfSessions, SessionsClosed, Is
  <1>5. LogoutEndsAccess /\ NothingLeft
    BY <1>2, ZenonT(60) DEF LogoutEndsAccess, NothingLeft, Deactivated
  <1>6. \A pk \in Pks : \A k : ~Holds(pk, k)
    BY <1>2, ZenonT(60) DEF Holds, Is
  <1>7. KindsFixed
    BY <1>2, <1>6, SMTT(60) DEF KindsFixed
  <1> QED BY <1>1, <1>4, <1>5, <1>7, ZenonT(60) DEF IInv

\* Every step keeps the inductive invariant.
LEMMA NextIInv == IInv /\ [Next]_vars => IInv'
  <1> SUFFICES ASSUME IInv, [Next]_vars PROVE IInv'
    OBVIOUS
  <1>1. CASE Next
    <2>0. Typed /\ CodesOfSessions /\ [Next]_vars
      BY Zenon DEF IInv, Typed
    <2>1. Typed'
      BY <2>0, TypedStep, ZenonT(60)
    <2>2. CodesOfSessions' /\ LogoutEndsAccess' /\ SessionsClosed' /\ NothingLeft'
      BY <1>1, <2>0, CodesStep, LogoutStep, ClosedStep, NothingLeftStep, ZenonT(60) DEF IInv
    <2>3. KindsFixed'
      BY <1>1, <2>0, KindsStep, ZenonT(60) DEF IInv
    <2> QED BY <2>1, <2>2, <2>3, ZenonT(60) DEF IInv, Typed
  <1>2. CASE UNCHANGED vars
    <2>0. /\ rows' = rows /\ access' = access /\ nextPk' = nextPk /\ expired' = expired
          /\ opened' = opened /\ sessions' = sessions /\ account' = account
          /\ plan' = plan /\ req' = req /\ answered' = answered /\ overlapped' = overlapped
      BY <1>2, SMTT(60) DEF vars, tables, auth, history
    <2>1. TypeOK' /\ RequestCopies' /\ PlanCopies'
      BY <2>0, SMTT(60) DEF IInv, TypeOK, RequestCopies, PlanCopies
    <2>2. CodesOfSessions'
      BY <2>0, SMTT(60) DEF IInv, CodesOfSessions, Is
    <2>3. LogoutEndsAccess' /\ SessionsClosed'
      BY <2>0, SMTT(60) DEF IInv, LogoutEndsAccess, SessionsClosed
    <2>4. NothingLeft'
      BY <2>0, SMTT(60) DEF IInv, NothingLeft, Holds, Deactivated, InFlight, Is
    <2>5. KindsFixed'
      BY <2>0, SMTT(60) DEF IInv, KindsFixed, Is, Holds
    <2> QED BY <2>1, <2>2, <2>3, <2>4, <2>5, ZenonT(60) DEF IInv
  <1> QED BY <1>1, <1>2, SMTT(60)

\* The inductive invariant holds in every reachable state.
THEOREM Invariance == Spec => []IInv
  <1>1. IInv /\ [Next]_vars => IInv'
    BY NextIInv, SMTT(60)
  <1> QED BY InitIInv, <1>1, PTL DEF Spec

\* Logout ends access: access tokens that the authorization endpoint or a code gave out
\* exist only as long as the session they were given out for.
THEOREM LogoutTheorem == Spec => []LogoutEndsAccess
  <1>1. IInv => LogoutEndsAccess
    BY ZenonT(60) DEF IInv
  <1> QED BY Invariance, <1>1, PTL

\* Deactivation is complete: of a user whose account is closed, and whose token requests and
\* flows did not overlap that, no code, refresh token, device code or access token is left.
THEOREM DeactivationTheorem == Spec => []DeactivationComplete
  <1>1. IInv => DeactivationComplete
    <2> SUFFICES ASSUME IInv, NEW u \in Users, account[u] = "closed", u \notin overlapped
                 PROVE  /\ \A pk \in Pks : rows[pk] # None => rows[pk].user # u
                        /\ \A t \in access : t.user # u
      BY ZenonT(60) DEF DeactivationComplete
    <2>1. Deactivated(u)
      BY DEF Deactivated
    <2>2. /\ \A pk \in Pks : rows[pk] # None /\ rows[pk].user = u => rows[pk].kind = "code"
          /\ \A t \in access : t.user = u => t.session \in sessions /\ SessionUser[t.session] = u
      BY <2>1, ZenonT(60) DEF IInv, NothingLeft
    <2>3. \A s \in sessions : SessionUser[s] # u
      BY ZenonT(60) DEF IInv, SessionsClosed
    <2>4. \A pk \in Pks : rows[pk] # None => rows[pk].user # u
      BY <2>2, <2>3, ZenonT(60) DEF IInv, CodesOfSessions, Is
    <2> QED BY <2>2, <2>3, <2>4, ZenonT(60)
  <1> QED BY Invariance, <1>1, PTL

\* Gone stays gone: no step makes a code or refresh token usable that was revoked, deleted
\* or expired, although copies of such rows are saved.
THEOREM GoneTheorem == Spec => GoneStaysGone
  <1>1. IInv /\ [Next]_vars => [\A pk \in 1..(nextPk - 1) : ~Usable(pk) => ~Usable(pk)']_vars
    <2> SUFFICES ASSUME IInv, Next, NEW pk \in 1..(nextPk - 1), ~Usable(pk), Usable(pk)'
                 PROVE  FALSE
      BY ZenonT(60)
    <2>0. Typed /\ TypeOK
      BY ZenonT(60) DEF IInv, Typed
    <2>1. pk \in Pks /\ pk # nextPk
      BY <2>0, Bounds, SMTT(60) DEF TypeOK, Pks
    <2>2. expired \subseteq expired'
      BY <2>0, AccountsStep, ZenonT(60)
    <2>3. /\ rows'[pk] # None /\ pk \notin expired
          /\ rows'[pk].kind = "code" \/ (rows'[pk].kind = "refresh" /\ ~rows'[pk].revoked)
      BY <2>2, ZenonT(60) DEF Usable, Is
    <2>4. CASE RowStays(pk)
      BY <2>3, <2>4, ZenonT(60) DEF RowStays, Usable, Is
    <2>5. CASE RowForgets(pk)
      BY <2>0, <2>1, <2>3, <2>5, ForgetsOnlySession, Distinct, ZenonT(60) DEF Usable, Is
    <2>6. CASE RowNew(pk)
      BY <2>1, <2>6, ZenonT(60) DEF RowNew
    <2>7. CASE RowFinished(pk) \/ RowRevoked(pk)
      BY <2>3, <2>7, Distinct, ZenonT(60) DEF RowFinished, RowRevoked
    <2> QED BY <2>0, <2>1, <2>3, <2>4, <2>5, <2>6, <2>7, RowsStep, ZenonT(60) DEF RowStep
  <1> QED BY Invariance, <1>1, PTL DEF Spec, GoneStaysGone

\* No exchange begins for a code or refresh token after a token response was sent for it.
THEOREM AnswerTheorem == Spec => NoExchangeAfterAnswer
  <1>1. IInv /\ [Next]_vars =>
          [\A r \in Reqs : req[r].pc = "idle" /\ req'[r].pc # "idle"
             => req'[r].pk \notin answered]_vars
    <2> SUFFICES ASSUME IInv, Next, NEW r \in Reqs, req[r].pc = "idle", req'[r].pc # "idle",
                        req'[r].pk \in answered
                 PROVE  FALSE
      BY ZenonT(60)
    <2>1. RequestBegins(r)
      BY RequestsStep, ZenonT(60) DEF IInv, Typed, RequestGoesOn
    <2>2. PICK pk \in Pks : /\ pk \in answered /\ rows[pk] # None
                            /\ Usable(pk) \/ Is(pk, "device")
      BY <2>1, ZenonT(60) DEF RequestBegins
    <2>3. rows[pk].kind = "refresh" /\ rows[pk].revoked /\ ~Holds(pk, "device")
      BY <2>2, ZenonT(60) DEF IInv, KindsFixed
    <2> QED BY <2>2, <2>3, Distinct, ZenonT(60) DEF Usable, Is, Holds
  <1> QED BY Invariance, <1>1, PTL DEF Spec, NoExchangeAfterAnswer
=============================================================================
