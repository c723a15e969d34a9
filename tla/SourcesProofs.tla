---------------------------- MODULE SourcesProofs ---------------------------
(***************************************************************************)
(* Proofs about logins through sources (SourceLogin), for every set of      *)
(* browsers, identities, users, connections and groups, and that an endpoint *)
(* of the remote access provider keeps to its maximum_connections           *)
(* (RemoteAccess), for any sessions, tabs, instances of outposts and limit. *)
(***************************************************************************)
EXTENDS SourceLogin, RemoteAccess, FiniteSetTheorems, TLAPS

(* Logins through sources *)

PlanRecord ==
    [at : {"write", "login", "post", "groups"}, id : Identities, conn : ConnKeys \cup {None},
     user : UserKeys \cup {None}, name : LoginNames, groups : {SourceGroups},
     todo : SUBSET SourceGroups]

Typed ==
    /\ claims \in [Identities -> [name : LoginNames, groups : {SourceGroups}]]
    /\ user \in [UserKeys -> LoginNames \cup {Unnamed}]
    /\ conn \in [ConnKeys -> [id : Identities, user : UserKeys] \cup {NoConn}]
    /\ plan \in [Browsers -> PlanRecord \cup {NoPlan}]
    /\ logged \in [Browsers -> UserKeys \cup {None}]

\* An identity without two plans at once has one plan at most and one connection at most,
\* and its plan, if it has one, found that connection.
Single(i) ==
    /\ \A c, d \in ConnsOf(i) : c = d
    /\ \A a, b \in PlansOf(i) : a = b
    /\ \A b \in PlansOf(i), c \in ConnsOf(i) : plan[b].conn = c
Singles == \A i \in Identities \ raced : Single(i)

\* Where the source does not link by name, connections and plans are of users that the
\* identity made or who linked it.
Own ==
    mode # "username_link" =>
      /\ \A c \in Conns : <<conn[c].id, conn[c].user>> \in made
      /\ \A b \in Planned : plan[b].user \in Users => <<plan[b].id, plan[b].user>> \in made

IInv == Typed /\ Singles /\ Own

-----------------------------------------------------------------------------
(* Operators of the model *)

\* The least key of a set of keys is one of them.
LEMMA FirstIn ==
    ASSUME NEW S \in SUBSET Nat, S # {}
    PROVE  First(S) \in S /\ \A d \in S : First(S) <= d
  <1>1. IsWellFoundedOn(OpToRel(<, Nat), Nat)
    BY NatLessThanWellFounded, ZenonT(60)
  <1>2. PICK x \in S : \A y \in S : ~(<<y, x>> \in OpToRel(<, Nat))
    BY <1>1, WFMin, ZenonT(60)
  <1>3. \A m, n \in Nat : m < n => <<m, n>> \in OpToRel(<, Nat)
    BY DEF OpToRel
  <1>4. \A y \in S : y \in Nat /\ x \in Nat /\ ~(y < x)
    BY <1>2, <1>3, ZenonT(60)
  <1>5. \A y \in S : x <= y
    BY <1>4
  <1> QED BY <1>5, ZenonT(60) DEF First

\* Keys that are given out are in use nowhere (a sequence of the database).
LEMMA NewKeys ==
    /\ NewConns # {} => First(NewConns) \in ConnKeys /\ First(NewConns) \notin Conns
    /\ NewUsers # {} => /\ First(NewUsers) \in UserKeys /\ First(NewUsers) \notin Users
                        /\ \A b \in Planned : plan[b].user # First(NewUsers)
  <1>1. NewConns \subseteq ConnKeys /\ NewConns \in SUBSET Nat
    BY SourceAssumption, ZenonT(60) DEF NewConns
  <1>2. NewUsers \subseteq UserKeys /\ NewUsers \in SUBSET Nat
    BY SourceAssumption, Zenon DEF NewUsers
  <1>3. \A c \in NewConns : c \notin Conns
    <2>1. \A c \in NewConns : c \in Nat /\ \A d \in Conns : d < c
      BY <1>1, SMTT(60) DEF NewConns
    <2>2. \A c \in Nat : ~(c < c)
      OBVIOUS
    <2> QED BY <2>1, <2>2, ZenonT(60)
  <1>4. \A u \in NewUsers : u \notin Users /\ \A b \in Planned : plan[b].user # u
    BY Zenon DEF NewUsers
  <1>5. NewConns # {} => First(NewConns) \in NewConns
    BY <1>1, FirstIn, ZenonT(60)
  <1>6. NewUsers # {} => First(NewUsers) \in NewUsers
    BY <1>2, FirstIn, ZenonT(60)
  <1> QED BY <1>1, <1>2, <1>3, <1>4, <1>5, <1>6, ZenonT(60)

\* No connection and no plan are told apart from others by their users and stages.
LEMMA Nothing ==
    /\ NoConn.user = None /\ NoConn \notin [id : Identities, user : UserKeys]
    /\ NoPlan.at = "none" /\ NoPlan \notin PlanRecord
    /\ None \notin UserKeys /\ None \notin ConnKeys
    /\ \A i \in Identities, u \in UserKeys :
         LET c == [id |-> i, user |-> u] IN c # NoConn /\ c.id = i /\ c.user = u
  <1>1. None \notin UserKeys /\ None \notin ConnKeys
    BY SourceAssumption, SMTT(60) DEF None
  <1>2. NoConn.user = None /\ NoPlan.at = "none"
    BY SMTT(60) DEF NoConn, NoPlan
  <1>3. \A p \in PlanRecord : p.at # "none"
    BY DEF PlanRecord
  <1>4. \A c \in [id : Identities, user : UserKeys] : c.user \in UserKeys
    OBVIOUS
  <1>5. NoConn \notin [id : Identities, user : UserKeys]
    BY <1>1, <1>2, <1>4, ZenonT(60)
  <1>6. NoPlan \notin PlanRecord
    BY <1>2, <1>3, ZenonT(60)
  <1>7. \A i \in Identities, u \in UserKeys :
          LET c == [id |-> i, user |-> u] IN c.id = i /\ c.user = u
    BY SMTT(60)
  <1> QED BY <1>1, <1>2, <1>5, <1>6, <1>7, ZenonT(60)

\* What the stages change of a plan, and what they leave.
LEMMA PlanFields ==
    ASSUME NEW p \in PlanRecord
    PROVE  /\ \A x \in {"write", "login", "post", "groups"} :
                LET q == [p EXCEPT !.at = x]
                IN  q \in PlanRecord /\ q.id = p.id /\ q.conn = p.conn /\ q.user = p.user
           /\ \A x \in {"write", "login", "post", "groups"}, u \in UserKeys :
                LET q == [[p EXCEPT !.at = x] EXCEPT !.user = u]
                IN  q \in PlanRecord /\ q.id = p.id /\ q.conn = p.conn /\ q.user = u
           /\ \A x \in {"write", "login", "post", "groups"}, c \in ConnKeys :
                LET q == [[p EXCEPT !.at = x] EXCEPT !.conn = c]
                IN  q \in PlanRecord /\ q.id = p.id /\ q.conn = c /\ q.user = p.user
           /\ \A T \in SUBSET SourceGroups :
                LET q == [p EXCEPT !.todo = T]
                IN  q \in PlanRecord /\ q.id = p.id /\ q.conn = p.conn /\ q.user = p.user
  BY ZenonT(60) DEF PlanRecord

-----------------------------------------------------------------------------
(* What keeps the invariant *)

\* The plan of a browser ends, or goes on with what the callback found.
GoesOn(b) ==
    \/ plan'[b] = NoPlan
    \/ plan[b] # NoPlan /\ plan'[b].id = plan[b].id /\ plan'[b].conn = plan[b].conn

\* Connections that are removed and plans that go on or end leave no identity with two.
LEMMA SinglesKept ==
    ASSUME Singles, \A b \in Browsers : GoesOn(b), raced \subseteq raced',
           \A c \in ConnKeys : conn'[c] = conn[c] \/ conn'[c] = NoConn
    PROVE  Singles'
  <1> SUFFICES ASSUME NEW i \in Identities, i \notin raced' PROVE Single(i)'
    BY Zenon DEF Singles
  <1>1. Single(i)
    BY Zenon DEF Singles
  <1>2. \A c \in ConnsOf(i)' : c \in ConnsOf(i)
    BY Zenon DEF ConnsOf, Conns
  <1>3. \A b \in PlansOf(i)' : b \in PlansOf(i) /\ plan'[b].conn = plan[b].conn
    BY ZenonT(60) DEF PlansOf, GoesOn
  <1> QED BY <1>1, <1>2, <1>3, ZenonT(60) DEF Single

\* A connection stays with its user, and a plan with its user, if that user exists.
ConnOwn(c) ==
    conn'[c] # NoConn =>
      /\ conn'[c] = conn[c]
      /\ <<conn[c].id, conn[c].user>> \in made => <<conn[c].id, conn[c].user>> \in made'
PlanOwn(b) ==
    plan'[b] # NoPlan /\ plan'[b].user \in Users' =>
      /\ plan[b] # NoPlan /\ plan'[b].id = plan[b].id /\ plan'[b].user = plan[b].user
      /\ plan[b].user \in Users
      /\ <<plan[b].id, plan[b].user>> \in made => <<plan[b].id, plan[b].user>> \in made'

\* Steps that keep connections and plans with their users keep them with their own.
LEMMA OwnKept ==
    ASSUME Own, mode' = mode, \A c \in ConnKeys : ConnOwn(c), \A b \in Browsers : PlanOwn(b)
    PROVE  Own'
  <1> SUFFICES ASSUME mode # "username_link"
               PROVE  /\ \A c \in Conns' : <<conn'[c].id, conn'[c].user>> \in made'
                      /\ \A b \in Planned' : plan'[b].user \in Users' =>
                            <<plan'[b].id, plan'[b].user>> \in made'
    BY ZenonT(60) DEF Own
  <1>1. ASSUME NEW c \in Conns' PROVE <<conn'[c].id, conn'[c].user>> \in made'
    BY <1>1, ZenonT(60) DEF Own, Conns, ConnOwn
  <1>2. ASSUME NEW b \in Planned', plan'[b].user \in Users'
        PROVE  <<plan'[b].id, plan'[b].user>> \in made'
    BY <1>2, ZenonT(60) DEF Own, Planned, PlanOwn
  <1> QED BY <1>1, <1>2, SMTT(60)

\* A step of one browser that only moves its plan on, or ends it.
LEMMA PlanMoves ==
    ASSUME IInv, UNCHANGED <<mode, user, conn, made, raced>>,
           claims' \in [Identities -> [name : LoginNames, groups : {SourceGroups}]],
           logged' \in [Browsers -> UserKeys \cup {None}],
           NEW b \in Browsers, NEW p \in PlanRecord \cup {NoPlan},
           plan' = [plan EXCEPT ![b] = p],
           \/ p = NoPlan
           \/ /\ plan[b] # NoPlan
              /\ p.id = plan[b].id /\ p.conn = plan[b].conn /\ p.user = plan[b].user
    PROVE  IInv'
  <1>1. plan \in [Browsers -> PlanRecord \cup {NoPlan}]
    BY DEF IInv, Typed
  <1>2. plan' \in [Browsers -> PlanRecord \cup {NoPlan}]
    BY <1>1, SMTT(60)
  <1>3. \A a \in Browsers : plan'[a] = IF a = b THEN p ELSE plan[a]
    BY <1>1, ZenonT(60)
  <1>4. Typed'
    BY <1>2, SMTT(60) DEF IInv, Typed
  <1>5. Singles'
    <2>1. \A a \in Browsers : GoesOn(a)
      BY <1>3, ZenonT(60) DEF GoesOn
    <2> QED BY <2>1, SinglesKept, ZenonT(60) DEF IInv
  <1>6. Own'
    <2>1. \A a \in Browsers : PlanOwn(a)
      BY <1>3, ZenonT(60) DEF PlanOwn, Users
    <2>2. \A c \in ConnKeys : ConnOwn(c)
      BY Zenon DEF ConnOwn
    <2> QED BY <2>1, <2>2, OwnKept, ZenonT(60) DEF IInv
  <1> QED BY <1>4, <1>5, <1>6, SMTT(60) DEF IInv

\* Ending the plan of a browser keeps the invariant.
LEMMA PlanEnds ==
    ASSUME IInv, UNCHANGED <<mode, user, conn, made, raced, claims>>,
           logged' \in [Browsers -> UserKeys \cup {None}], NEW b \in Browsers, Cancel(b)
    PROVE  IInv'
  <1>1. claims' \in [Identities -> [name : LoginNames, groups : {SourceGroups}]]
    BY DEF IInv, Typed
  <1> QED BY <1>1, PlanMoves, ZenonT(60) DEF Cancel

\* A plan in progress is a record.
LEMMA PlanAt ==
    ASSUME Typed, NEW b \in Browsers, NEW x \in {"write", "login", "post", "groups"}, plan[b].at = x
    PROVE  plan[b] \in PlanRecord /\ plan[b] # NoPlan
  <1>1. x # "none"
    OBVIOUS
  <1>2. plan[b] \in PlanRecord \cup {NoPlan}
    BY ZenonT(60) DEF Typed
  <1>3. NoPlan.at = "none"
    BY DEF NoPlan
  <1> QED BY <1>1, <1>2, <1>3, ZenonT(60)

-----------------------------------------------------------------------------
(* One lemma per action that does more *)

\* The callback: no other plan of the identity is there, or the identity has raced; what
\* get_action found is the one connection, or that there is none.
LEMMA CallbackInv ==
    ASSUME IInv, NEW b \in Browsers, NEW i \in Identities, Callback(b, i)
    PROVE  IInv'
  <1> DEFINE m == Matched(i)
  <1>0. Typed /\ Singles /\ Own
    BY DEF IInv
  <1>1. /\ plan[b] = NoPlan /\ UNCHANGED <<mode, claims, user, conn, logged, made>>
        /\ plan' = [plan EXCEPT ![b] = IF m.do = "deny" THEN NoPlan ELSE Prepared(i, m)]
        /\ Races(i, b)
    BY ZenonT(60) DEF Callback, settings
  <1>t. /\ claims \in [Identities -> [name : LoginNames, groups : {SourceGroups}]]
        /\ conn \in [ConnKeys -> [id : Identities, user : UserKeys] \cup {NoConn}]
        /\ plan \in [Browsers -> PlanRecord \cup {NoPlan}]
        /\ user \in [UserKeys -> LoginNames \cup {Unnamed}]
    BY <1>0, ZenonT(60) DEF Typed
  <1>2. CASE m.do = "deny"
    <2>1. plan' = [plan EXCEPT ![b] = NoPlan]
      BY <1>1, <1>2, ZenonT(60)
    <2>2. \A a \in Browsers : plan'[a] = plan[a]
      BY <1>1, <1>t, <2>1, ZenonT(60)
    <2>3. raced \subseteq raced'
      BY <1>1, SMTT(60) DEF Races
    <2>4. Singles'
      <3>1. \A a \in Browsers : GoesOn(a)
        BY <2>2, ZenonT(60) DEF GoesOn
      <3> QED BY <1>0, <1>1, <2>3, <3>1, SinglesKept, ZenonT(60)
    <2>5. Own'
      <3>1. \A a \in Browsers : PlanOwn(a)
        BY <1>1, <2>2, ZenonT(60) DEF PlanOwn, Users
      <3>2. \A c \in ConnKeys : ConnOwn(c)
        BY <1>1, ZenonT(60) DEF ConnOwn
      <3> QED BY <1>0, <1>1, <3>1, <3>2, OwnKept, ZenonT(60)
    <2>6. Typed'
      BY <1>0, <1>1, <1>t, <2>1, SMTT(60) DEF Typed
    <2> QED BY <2>4, <2>5, <2>6, ZenonT(60) DEF IInv
  <1>3. CASE m.do # "deny"
    <2> DEFINE p == Prepared(i, m)
    <2>1. \/ /\ ConnsOf(i) # {} /\ m.conn = First(ConnsOf(i)) /\ m.conn \in ConnsOf(i)
             /\ m.user = conn[m.conn].user /\ m.do = "auth"
          \/ ConnsOf(i) = {} /\ m.conn = None /\ m.user = None /\ m.do = "enroll"
          \/ ConnsOf(i) = {} /\ m.conn = None /\ m.user \in Users /\ mode = "username_link" /\ m.do = "link"
      <3>1. ConnsOf(i) # {} => First(ConnsOf(i)) \in ConnsOf(i)
        <4>1. ConnsOf(i) \in SUBSET Nat
          BY SourceAssumption, ZenonT(60) DEF ConnsOf, Conns
        <4> QED BY <4>1, FirstIn, ZenonT(60)
      <3>2. CASE ConnsOf(i) # {}
        <4>1. m = [do |-> "auth", conn |-> First(ConnsOf(i)), user |-> conn[First(ConnsOf(i))].user]
          BY <3>2, ZenonT(60) DEF Matched
        <4>2. m.conn = First(ConnsOf(i)) /\ m.user = conn[First(ConnsOf(i))].user /\ m.do = "auth"
          BY <4>1, SMTT(60)
        <4> HIDE DEF m
        <4> QED BY <3>1, <3>2, <4>2, ZenonT(60)
      <3>3. CASE ConnsOf(i) = {}
        <4> DEFINE there == UsersNamed(claims[i].name)
        <4>1. CASE mode = "identifier" \/ there = {}
          <5>1. m = [do |-> "enroll", conn |-> None, user |-> None]
            BY <3>3, <4>1, ZenonT(60) DEF Matched
          <5>2. m.conn = None /\ m.user = None /\ m.do = "enroll"
            BY <5>1, SMTT(60)
          <5> QED BY <3>3, <5>2, SMTT(60)
        <4>2. CASE ~(mode = "identifier" \/ there = {}) /\ mode = "username_link"
          <5>1. m = [do |-> "link", conn |-> None, user |-> CHOOSE u \in there : TRUE]
            BY <3>3, <4>2, ZenonT(60) DEF Matched
          <5>2. m.conn = None /\ m.user = (CHOOSE u \in there : TRUE) /\ m.do = "link"
            BY <5>1, SMTT(60)
          <5>3. (CHOOSE u \in there : TRUE) \in there
            BY <4>2, ZenonT(60)
          <5>4. there \subseteq Users
            BY SMTT(60) DEF UsersNamed
          <5> QED BY <3>3, <4>2, <5>2, <5>3, <5>4, SMTT(60)
        <4>3. CASE ~(mode = "identifier" \/ there = {}) /\ mode # "username_link"
          <5>1. m = [do |-> "deny", conn |-> None, user |-> None]
            BY <3>3, <4>3, ZenonT(60) DEF Matched
          <5>2. m.do = "deny"
            BY <5>1, SMTT(60)
          <5> QED BY <1>3, <5>2, SMTT(60)
        <4> QED BY <4>1, <4>2, <4>3, ZenonT(60)
      <3> QED BY <3>2, <3>3, SMTT(60)
    <2>2. m.conn \in ConnKeys \cup {None} /\ m.user \in UserKeys \cup {None}
      <3>1. \A c \in ConnsOf(i) : c \in ConnKeys /\ conn[c].user \in UserKeys
        BY <1>t, ZenonT(60) DEF ConnsOf, Conns
      <3>2. Users \subseteq UserKeys
        BY SMTT(60) DEF Users
      <3> QED BY <2>1, <3>1, <3>2, ZenonT(60)
    <2>3. p \in PlanRecord /\ p.id = i /\ p.conn = m.conn /\ p.user = m.user
      <3>1. FirstStage(m) \in {"write", "login", "post", "groups"}
        BY SMTT(60) DEF FirstStage
      <3>2. claims[i].name \in LoginNames /\ claims[i].groups = SourceGroups
        BY <1>t, SMTT(60)
      <3> HIDE DEF m
      <3> QED BY <2>2, <3>1, <3>2, SMTT(60) DEF Prepared, PlanRecord
    <2>4. plan' = [plan EXCEPT ![b] = p]
      BY <1>1, <1>3, ZenonT(60)
    <2> HIDE DEF m, p
    <2>5. Typed'
      BY <1>0, <1>1, <1>t, <2>3, <2>4, SMTT(60) DEF Typed
    <2>6. \A a \in Browsers : plan'[a] = IF a = b THEN p ELSE plan[a]
      BY <1>t, <2>4, ZenonT(60)
    <2>7. Singles'
      <3> SUFFICES ASSUME NEW j \in Identities, j \notin raced' PROVE Single(j)'
        BY ZenonT(60) DEF Singles
      <3>1. j \notin raced
        BY <1>1, SMTT(60) DEF Races
      <3>2. Single(j)
        BY <1>0, <3>1, ZenonT(60) DEF Singles
      <3>3. \A c : c \in ConnsOf(j)' <=> c \in ConnsOf(j)
        BY <1>1, ZenonT(60) DEF ConnsOf, Conns
      <3>4. CASE j # i
        <4>1. \A a : a \in PlansOf(j)' => a \in PlansOf(j) /\ plan'[a] = plan[a]
          BY <2>3, <2>6, <3>4, ZenonT(60) DEF PlansOf
        <4>2. \A c, d \in ConnsOf(j)' : c = d
          BY <3>2, <3>3, ZenonT(60) DEF Single
        <4>3. \A a, d \in PlansOf(j)' : a = d
          BY <3>2, <4>1, ZenonT(60) DEF Single
        <4>4. \A a \in PlansOf(j)', c \in ConnsOf(j)' : plan'[a].conn = c
          BY <3>2, <3>3, <4>1, ZenonT(60) DEF Single
        <4> QED BY <4>2, <4>3, <4>4, ZenonT(60) DEF Single
      <3>5. CASE j = i
        <4>1. PlansOf(i) \ {b} = {}
          BY <1>1, <3>5, SMTT(60) DEF Races
        <4>2. \A a : a \in PlansOf(i)' => a = b
          BY <2>6, <4>1, ZenonT(60) DEF PlansOf
        <4>3. \A c \in ConnsOf(i) : m.conn = c
          BY <2>1, <3>2, <3>5, ZenonT(60) DEF Single
        <4>4. plan'[b].conn = m.conn
          BY <2>3, <2>6, ZenonT(60)
        <4>5. \A c, d \in ConnsOf(i)' : c = d
          BY <3>2, <3>3, <3>5, ZenonT(60) DEF Single
        <4>6. \A a, d \in PlansOf(i)' : a = d
          BY <4>2, ZenonT(60)
        <4>7. \A a \in PlansOf(i)', c \in ConnsOf(i)' : plan'[a].conn = c
          BY <3>3, <3>5, <4>2, <4>3, <4>4, ZenonT(60)
        <4> QED BY <3>5, <4>5, <4>6, <4>7, ZenonT(60) DEF Single
      <3> QED BY <3>4, <3>5, SMTT(60)
    <2>8. Own'
      <3> SUFFICES ASSUME mode # "username_link"
                   PROVE  /\ \A c \in Conns' : <<conn'[c].id, conn'[c].user>> \in made'
                          /\ \A a \in Planned' : plan'[a].user \in Users' =>
                               <<plan'[a].id, plan'[a].user>> \in made'
        BY <1>1, ZenonT(60) DEF Own
      <3>1. \A c \in Conns' : <<conn'[c].id, conn'[c].user>> \in made'
        BY <1>0, <1>1, ZenonT(60) DEF Own, Conns
      <3>2. ASSUME NEW a \in Planned', plan'[a].user \in Users', a # b
            PROVE  <<plan'[a].id, plan'[a].user>> \in made'
        <4>1. a \in Browsers /\ plan'[a] = plan[a] /\ plan[a] # NoPlan
          BY <2>6, <3>2, ZenonT(60) DEF Planned
        <4>2. Users' = Users
          BY <1>1, ZenonT(60) DEF Users
        <4>3. a \in Planned /\ plan[a].user \in Users
          BY <3>2, <4>1, <4>2, ZenonT(60) DEF Planned
        <4>4. <<plan[a].id, plan[a].user>> \in made /\ made' = made
          BY <1>0, <1>1, <4>3, ZenonT(60) DEF Own
        <4> QED BY <4>1, <4>4, SMTT(60)
      <3>3. ASSUME p.user \in Users PROVE <<p.id, p.user>> \in made
        <4>1. None \notin Users
          BY Nothing, ZenonT(60) DEF Users
        <4>2. m.conn \in ConnsOf(i) /\ m.user = conn[m.conn].user
          BY <2>1, <2>3, <3>3, <4>1, ZenonT(60)
        <4> QED BY <1>0, <2>3, <4>2, ZenonT(60) DEF Own, ConnsOf
      <3>4. ASSUME plan'[b].user \in Users' PROVE <<plan'[b].id, plan'[b].user>> \in made'
        <4>1. plan'[b] = p /\ Users' = Users
          BY <1>1, <2>6, ZenonT(60) DEF Users
        <4>2. <<p.id, p.user>> \in made /\ made' = made
          BY <1>1, <3>3, <3>4, <4>1, ZenonT(60)
        <4> QED BY <4>1, <4>2, SMTT(60)
      <3> QED BY <3>1, <3>2, <3>4, ZenonT(60)
    <2> QED BY <2>5, <2>7, <2>8, ZenonT(60) DEF IInv
  <1> QED BY <1>2, <1>3, SMTT(60)

\* A connection is written under a key, for an identity that has no other connection and,
\* unless it has raced, no plan but one that holds this key.
LEMMA ConnWritten ==
    ASSUME Typed, Singles, NEW i \in Identities, NEW u \in UserKeys, NEW k \in ConnKeys,
           conn' = [conn EXCEPT ![k] = [id |-> i, user |-> u]], raced \subseteq raced',
           i \notin raced' => /\ \A c \in ConnsOf(i) : c = k
                              /\ \A b \in PlansOf(i) : plan'[b].conn = k,
           \A b \in Browsers : plan'[b] # NoPlan =>
             /\ plan[b] # NoPlan /\ plan'[b].id = plan[b].id
             /\ plan[b].id # i => plan'[b].conn = plan[b].conn
    PROVE  Singles'
  <1> SUFFICES ASSUME NEW j \in Identities, j \notin raced' PROVE Single(j)'
    BY ZenonT(60) DEF Singles
  <1>1. Single(j)
    BY ZenonT(60) DEF Singles
  <1>2. \A c \in ConnKeys : conn'[c] = IF c = k THEN [id |-> i, user |-> u] ELSE conn[c]
    BY ZenonT(60) DEF Typed
  <1>3. [id |-> i, user |-> u].id = i
    BY SMTT(60)
  <1>4. \A b : b \in PlansOf(j)' => b \in PlansOf(j)
    BY ZenonT(60) DEF PlansOf
  <1>5. \A a, b \in PlansOf(j)' : a = b
    BY <1>1, <1>4, ZenonT(60) DEF Single
  <1>6. CASE j # i
    <2>1. \A c : c \in ConnsOf(j)' => c \in ConnsOf(j)
      BY <1>2, <1>3, <1>6, ZenonT(60) DEF ConnsOf, Conns
    <2>2. \A c, d \in ConnsOf(j)' : c = d
      BY <1>1, <2>1, Zenon DEF Single
    <2>3. \A b \in PlansOf(j)' : plan'[b].conn = plan[b].conn
      BY <1>6, Zenon DEF PlansOf
    <2>4. \A b \in PlansOf(j)', c \in ConnsOf(j)' : plan'[b].conn = c
      BY <1>1, <1>4, <2>1, <2>3, ZenonT(60) DEF Single
    <2> QED BY <1>5, <2>2, <2>4, ZenonT(60) DEF Single
  <1>7. CASE j = i
    <2>1. \A c : c \in ConnsOf(i)' => c = k
      BY <1>2, <1>7, ZenonT(60) DEF ConnsOf, Conns
    <2>2. \A b \in PlansOf(i)' : plan'[b].conn = k
      BY <1>4, <1>7, Zenon
    <2> QED BY <1>5, <1>7, <2>1, <2>2, ZenonT(60) DEF Single
  <1> QED BY <1>6, <1>7, SMTT(60)

\* handle_existing_link: the identity has no connection and, unless it races, no plan.
LEMMA LinkInv ==
    ASSUME IInv, NEW b \in Browsers, NEW i \in Identities, LinkByHand(b, i)
    PROVE  IInv'
  <1> DEFINE k == First(NewConns)
             u == logged[b]
  <1>0. Typed /\ Singles /\ Own
    BY DEF IInv
  <1>1. /\ UNCHANGED <<mode, claims, user, plan, logged>> /\ u \in Users /\ plan[b] = NoPlan
        /\ ConnsOf(i) = {} /\ NewConns # {} /\ made' = made \cup {<<i, u>>} /\ Races(i, b)
        /\ conn' = [conn EXCEPT ![k] = [id |-> i, user |-> u]]
    BY Zenon DEF LinkByHand, settings
  <1>2. k \in ConnKeys /\ k \notin Conns /\ u \in UserKeys
    BY <1>1, NewKeys, Zenon DEF Users
  <1>t. conn \in [ConnKeys -> [id : Identities, user : UserKeys] \cup {NoConn}]
    BY <1>0, ZenonT(60) DEF Typed
  <1> HIDE DEF k, u
  <1>3. Typed'
    BY <1>0, <1>1, <1>2, SMTT(60) DEF Typed
  <1>4. Singles'
    <2>1. raced \subseteq raced'
      BY <1>1, SMTT(60) DEF Races
    <2>2. i \notin raced' => \A a \in PlansOf(i) : plan'[a].conn = k
      BY <1>1, SMTT(60) DEF Races, PlansOf
    <2> QED BY <1>0, <1>1, <1>2, <2>1, <2>2, ConnWritten, ZenonT(60)
  <1>5. Own'
    <2> SUFFICES ASSUME mode # "username_link"
                 PROVE  /\ \A c \in Conns' : <<conn'[c].id, conn'[c].user>> \in made'
                        /\ \A a \in Planned' : plan'[a].user \in Users' =>
                             <<plan'[a].id, plan'[a].user>> \in made'
      BY <1>1, ZenonT(60) DEF Own
    <2>0. made \subseteq made' /\ <<i, u>> \in made' /\ Planned' = Planned /\ Users' = Users
      BY <1>1, ZenonT(60) DEF Planned, Users
    <2>1. ASSUME NEW c \in Conns' PROVE <<conn'[c].id, conn'[c].user>> \in made'
      <3>1. CASE c = k
        <4>1. conn'[c] = [id |-> i, user |-> u]
          BY <1>1, <1>2, <1>t, <3>1, ZenonT(60)
        <4> QED BY <2>0, <4>1, SMTT(60)
      <3>2. CASE c # k
        <4>1. c \in Conns /\ conn'[c] = conn[c]
          BY <1>1, <1>t, <2>1, <3>2, ZenonT(60) DEF Conns
        <4>2. <<conn[c].id, conn[c].user>> \in made'
          BY <1>0, <2>0, <4>1, ZenonT(60) DEF Own
        <4> QED BY <4>1, <4>2, SMTT(60)
      <3> QED BY <3>1, <3>2, SMTT(60)
    <2>2. ASSUME NEW a \in Planned', plan'[a].user \in Users'
          PROVE  <<plan'[a].id, plan'[a].user>> \in made'
      BY <1>0, <1>1, <2>0, <2>2, ZenonT(60) DEF Own
    <2> QED BY <2>1, <2>2, ZenonT(60)
  <1> QED BY <1>3, <1>4, <1>5, Zenon DEF IInv

\* UserWriteStageView: the new user is nobody's yet, and is the identity's own.
LEMMA WriteInv ==
    ASSUME IInv, NEW b \in Browsers, UserWrite(b)
    PROVE  IInv'
  <1> DEFINE u == First(NewUsers)
  <1>0. Typed /\ Singles /\ Own
    BY SMTT(60) DEF IInv
  <1>p. plan[b] \in PlanRecord /\ plan[b] # NoPlan
    BY <1>0, PlanAt, SMTT(60) DEF UserWrite
  <1>t. /\ plan \in [Browsers -> PlanRecord \cup {NoPlan}]
        /\ user \in [UserKeys -> LoginNames \cup {Unnamed}]
        /\ logged \in [Browsers -> UserKeys \cup {None}]
    BY <1>0, ZenonT(60) DEF Typed
  <1>1. CASE Cancel(b) /\ UNCHANGED <<user, made>>
    BY <1>1, <1>t, PlanEnds, ZenonT(60) DEF UserWrite, settings
  <1>2. CASE /\ NewUsers # {} /\ user' = [user EXCEPT ![u] = plan[b].name]
             /\ plan' = [plan EXCEPT ![b].at = "login", ![b].user = u]
             /\ made' = made \cup {<<plan[b].id, u>>}
    <2> DEFINE p == [[plan[b] EXCEPT !.at = "login"] EXCEPT !.user = u]
    <2>1. u \in UserKeys /\ u \notin Users /\ \A a \in Planned : plan[a].user # u
      BY <1>2, NewKeys, ZenonT(60)
    <2>2. p \in PlanRecord /\ p.id = plan[b].id /\ p.conn = plan[b].conn /\ p.user = u
      BY <1>p, <2>1, PlanFields, ZenonT(60)
    <2>3. plan' = [plan EXCEPT ![b] = p]
      BY <1>2, <1>t, Zenon
    <2>4. plan[b].name \in LoginNames
      BY <1>p DEF PlanRecord
    <2> HIDE DEF u, p
    <2>5. UNCHANGED <<mode, claims, conn, logged, raced>>
      BY ZenonT(60) DEF UserWrite, settings
    <2>6. Typed'
      BY <1>0, <1>2, <1>t, <2>1, <2>2, <2>3, <2>4, <2>5, ZenonT(60) DEF Typed
    <2>7. \A a \in Browsers : plan'[a] = IF a = b THEN p ELSE plan[a]
      BY <1>t, <2>3, Zenon
    <2>8. Singles'
      <3>1. \A a \in Browsers : GoesOn(a)
        BY <1>p, <2>2, <2>7, Zenon DEF GoesOn
      <3> QED BY <1>0, <2>5, <3>1, SinglesKept, Zenon
    <2>9. Own'
      <3> SUFFICES ASSUME mode # "username_link"
                   PROVE  /\ \A c \in Conns' : <<conn'[c].id, conn'[c].user>> \in made'
                          /\ \A a \in Planned' : plan'[a].user \in Users' =>
                               <<plan'[a].id, plan'[a].user>> \in made'
        BY <2>5, Zenon DEF Own
      <3>0. made \subseteq made' /\ <<plan[b].id, u>> \in made' /\ Conns' = Conns
        BY <1>2, <2>5, Zenon DEF Conns
      <3>1. \A x \in Users' : x \in Users \/ x = u
        BY <1>2, <1>t, Zenon DEF Users
      <3>2. \A c \in Conns' : <<conn'[c].id, conn'[c].user>> \in made'
        BY <1>0, <2>5, <3>0, ZenonT(60) DEF Own
      <3>3. ASSUME NEW a \in Planned', plan'[a].user \in Users', a # b
            PROVE  <<plan'[a].id, plan'[a].user>> \in made'
        <4>1. plan'[a] = plan[a] /\ a \in Planned
          BY <2>7, <3>3, Zenon DEF Planned
        <4>2. plan[a].user \in Users
          BY <2>1, <3>1, <3>3, <4>1, ZenonT(60)
        <4>3. <<plan[a].id, plan[a].user>> \in made'
          BY <1>0, <3>0, <4>1, <4>2, ZenonT(60) DEF Own
        <4> QED BY <4>1, <4>3
      <3>4. <<plan'[b].id, plan'[b].user>> \in made'
        <4>1. plan'[b] = p
          BY <2>7, ZenonT(60)
        <4> QED BY <2>2, <3>0, <4>1, SMTT(60)
      <3> QED BY <3>2, <3>3, <3>4, Zenon
    <2> QED BY <2>6, <2>8, <2>9, ZenonT(60) DEF IInv
  <1> QED BY <1>1, <1>2, ZenonT(60) DEF UserWrite

\* PostSourceStage: saves the connection that the callback found, under its key, or a new
\* one, for the user of the plan.
LEMMA PostInv ==
    ASSUME IInv, NEW b \in Browsers, PostSource(b)
    PROVE  IInv'
  <1> DEFINE k == IF plan[b].conn = None THEN First(NewConns) ELSE plan[b].conn
             i == plan[b].id
             u == plan[b].user
             p == [[plan[b] EXCEPT !.at = "groups"] EXCEPT !.conn = k]
  <1>0. Typed /\ Singles /\ Own
    BY DEF IInv
  <1>p. plan[b] \in PlanRecord /\ plan[b] # NoPlan
    BY <1>0, PlanAt, SMTT(60) DEF PostSource
  <1>t. /\ plan \in [Browsers -> PlanRecord \cup {NoPlan}]
        /\ conn \in [ConnKeys -> [id : Identities, user : UserKeys] \cup {NoConn}]
    BY <1>0, ZenonT(60) DEF Typed
  <1>1. /\ UNCHANGED <<mode, claims, user, logged, made, raced>> /\ u \in Users
        /\ plan[b].conn = None => NewConns # {}
        /\ conn' = [conn EXCEPT ![k] = [id |-> i, user |-> u]]
        /\ plan' = [plan EXCEPT ![b].at = "groups", ![b].conn = k]
    BY ZenonT(60) DEF PostSource, Savable, settings
  <1>2. i \in Identities /\ u \in UserKeys /\ plan[b].conn \in ConnKeys \cup {None}
    <2>1. i \in Identities /\ plan[b].conn \in ConnKeys \cup {None}
      BY <1>p, SMTT(60) DEF PlanRecord
    <2> QED BY <1>1, <2>1, ZenonT(60) DEF Users
  <1>3. k \in ConnKeys
    BY <1>1, <1>2, NewKeys, ZenonT(60)
  <1>4. p \in PlanRecord /\ p.id = i /\ p.conn = k /\ p.user = u
    BY <1>p, <1>3, PlanFields, ZenonT(60)
  <1>5. plan' = [plan EXCEPT ![b] = p]
    BY <1>1, <1>t, Zenon
  <1>k. plan[b].conn # None => k = plan[b].conn
    BY Zenon
  <1> HIDE DEF k, i, u, p
  <1>6. Typed'
    BY <1>0, <1>1, <1>2, <1>3, <1>4, <1>5, <1>t, ZenonT(60) DEF Typed
  <1>7. \A a \in Browsers : plan'[a] = IF a = b THEN p ELSE plan[a]
    BY <1>t, <1>5, Zenon
  <1>8. Singles'
    <2>1. b \in PlansOf(i)
      BY <1>p, ZenonT(60) DEF PlansOf, i
    <2>2. ASSUME i \notin raced', NEW c \in ConnsOf(i) PROVE c = k
      <3>1. Single(i)
        BY <1>0, <1>1, <1>2, <2>2, ZenonT(60) DEF Singles
      <3>2. plan[b].conn = c /\ c \in ConnKeys
        BY <2>1, <3>1, ZenonT(60) DEF Single, ConnsOf, Conns
      <3> QED BY <1>k, <3>2, Nothing, ZenonT(60)
    <2>3. ASSUME i \notin raced', NEW a \in PlansOf(i) PROVE plan'[a].conn = k
      <3>1. Single(i)
        BY <1>0, <1>1, <1>2, <2>3, Zenon DEF Singles
      <3>2. a = b
        BY <2>1, <3>1, ZenonT(60) DEF Single
      <3> QED BY <1>4, <1>7, <3>2, ZenonT(60)
    <2>4. \A a \in Browsers : plan'[a] # NoPlan =>
             /\ plan[a] # NoPlan /\ plan'[a].id = plan[a].id
             /\ plan[a].id # i => plan'[a].conn = plan[a].conn
      BY <1>p, <1>4, <1>7, ZenonT(60) DEF i
    <2> QED BY <1>0, <1>1, <1>2, <1>3, <2>2, <2>3, <2>4, ConnWritten, ZenonT(60)
  <1>9. Own'
    <2> SUFFICES ASSUME mode # "username_link"
                 PROVE  /\ \A c \in Conns' : <<conn'[c].id, conn'[c].user>> \in made'
                        /\ \A a \in Planned' : plan'[a].user \in Users' =>
                             <<plan'[a].id, plan'[a].user>> \in made'
      BY <1>1, ZenonT(60) DEF Own
    <2>1. <<i, u>> \in made' /\ made' = made /\ Users' = Users
      BY <1>0, <1>1, <1>p, ZenonT(60) DEF Own, Planned, Users, i, u
    <2>2. ASSUME NEW c \in Conns' PROVE <<conn'[c].id, conn'[c].user>> \in made'
      <3>1. CASE c = k
        <4>1. conn'[c] = [id |-> i, user |-> u]
          BY <1>1, <1>3, <1>t, <3>1, ZenonT(60)
        <4> QED BY <2>1, <4>1, SMTT(60)
      <3>2. CASE c # k
        <4>1. c \in Conns /\ conn'[c] = conn[c]
          BY <1>1, <1>t, <2>2, <3>2, ZenonT(60) DEF Conns
        <4>2. <<conn[c].id, conn[c].user>> \in made'
          BY <1>0, <2>1, <4>1, ZenonT(60) DEF Own
        <4> QED BY <4>1, <4>2, SMTT(60)
      <3> QED BY <3>1, <3>2, SMTT(60)
    <2>3. ASSUME NEW a \in Planned', plan'[a].user \in Users', a # b
          PROVE  <<plan'[a].id, plan'[a].user>> \in made'
      <3>1. plan'[a] = plan[a] /\ a \in Planned /\ plan[a].user \in Users
        BY <1>7, <2>1, <2>3, ZenonT(60) DEF Planned
      <3>2. <<plan[a].id, plan[a].user>> \in made'
        BY <1>0, <2>1, <3>1, ZenonT(60) DEF Own
      <3> QED BY <3>1, <3>2, SMTT(60)
    <2>4. <<plan'[b].id, plan'[b].user>> \in made'
      <3>1. plan'[b] = p
        BY <1>7, Zenon
      <3> QED BY <1>4, <2>1, <3>1, SMTT(60)
    <2> QED BY <2>2, <2>3, <2>4, ZenonT(60)
  <1> QED BY <1>6, <1>8, <1>9, Zenon DEF IInv

\* A user that is deleted takes connections and sessions along; plans that still hold it
\* hold a user that is not there.
LEMMA DeleteUserInv ==
    ASSUME IInv, NEW u \in UserKeys, DeleteUser(u)
    PROVE  IInv'
  <1>0. Typed /\ Singles /\ Own
    BY DEF IInv
  <1>1. /\ UNCHANGED <<mode, claims, raced>>
        /\ user' = [user EXCEPT ![u] = Unnamed]
        /\ conn' = [c \in ConnKeys |-> IF conn[c].user = u THEN NoConn ELSE conn[c]]
        /\ logged' = [b \in Browsers |-> IF logged[b] = u THEN None ELSE logged[b]]
        /\ plan' = [b \in Browsers |-> IF logged[b] = u THEN NoPlan ELSE plan[b]]
        /\ made' = {m \in made : m[2] # u}
    BY ZenonT(60) DEF DeleteUser, settings
  <1>2. Typed'
    BY <1>0, <1>1, SMTT(60) DEF Typed
  <1>3. \A c \in ConnKeys : conn'[c] = IF conn[c].user = u THEN NoConn ELSE conn[c]
    BY <1>1, ZenonT(60)
  <1>4. \A b \in Browsers : plan'[b] = IF logged[b] = u THEN NoPlan ELSE plan[b]
    BY <1>1, ZenonT(60)
  <1>5. \A x \in Users' : x \in Users /\ x # u
    <2>1. \A x \in UserKeys : user'[x] = IF x = u THEN Unnamed ELSE user[x]
      BY <1>0, <1>1, ZenonT(60) DEF Typed
    <2> QED BY <2>1, ZenonT(60) DEF Users
  <1>6. \A x, y : y # u /\ <<x, y>> \in made => <<x, y>> \in made'
    BY <1>1, SMTT(60)
  <1>7. Singles'
    <2>1. \A b \in Browsers : GoesOn(b)
      BY <1>4, ZenonT(60) DEF GoesOn
    <2> QED BY <1>0, <1>1, <1>3, <2>1, SinglesKept, ZenonT(60)
  <1>8. Own'
    <2>1. \A c \in ConnKeys : ConnOwn(c)
      BY <1>3, <1>6, ZenonT(60) DEF ConnOwn
    <2>2. \A b \in Browsers : PlanOwn(b)
      BY <1>4, <1>5, <1>6, ZenonT(60) DEF PlanOwn
    <2> QED BY <1>0, <1>1, <2>1, <2>2, OwnKept, ZenonT(60)
  <1> QED BY <1>2, <1>7, <1>8, Zenon DEF IInv

\* A user that an administrator creates is held by no plan.
LEMMA NameUserInv ==
    ASSUME IInv, NEW u \in UserKeys, NEW name \in LoginNames, NameUser(u, name)
    PROVE  IInv'
  <1>0. Typed /\ Singles /\ Own
    BY DEF IInv
  <1>1. /\ UNCHANGED <<mode, claims, conn, plan, logged, made, raced>>
        /\ user' = [user EXCEPT ![u] = name] /\ (u \in Users \/ u \in NewUsers)
    BY ZenonT(60) DEF NameUser, settings
  <1>2. Typed'
    BY <1>0, <1>1, SMTT(60) DEF Typed
  <1>3. \A x \in Users' : x \in Users \/ x \in NewUsers
    <2>1. \A x \in UserKeys : x # u => user'[x] = user[x]
      BY <1>0, <1>1, ZenonT(60) DEF Typed
    <2> QED BY <1>1, <2>1, ZenonT(60) DEF Users
  <1>4. \A b \in Browsers : plan[b] # NoPlan => plan[b].user \notin NewUsers
    BY ZenonT(60) DEF NewUsers, Planned
  <1>5. Singles'
    <2>1. \A b \in Browsers : GoesOn(b)
      BY <1>1, ZenonT(60) DEF GoesOn
    <2> QED BY <1>0, <1>1, <2>1, SinglesKept, ZenonT(60)
  <1>6. Own'
    <2>1. \A c \in ConnKeys : ConnOwn(c)
      BY <1>1, ZenonT(60) DEF ConnOwn
    <2>2. \A b \in Browsers : PlanOwn(b)
      BY <1>1, <1>3, <1>4, ZenonT(60) DEF PlanOwn
    <2> QED BY <1>0, <1>1, <2>1, <2>2, OwnKept, ZenonT(60)
  <1> QED BY <1>2, <1>5, <1>6, Zenon DEF IInv

\* Removing a connection keeps the invariant: the plan that found it keeps its key.
LEMMA UnlinkInv ==
    ASSUME IInv, NEW k \in ConnKeys, Unlink(k)
    PROVE  IInv'
  <1>0. Typed /\ Singles /\ Own
    BY DEF IInv
  <1>1. /\ UNCHANGED <<mode, claims, user, plan, logged, made, raced>>
        /\ conn' = [conn EXCEPT ![k] = NoConn]
    BY ZenonT(60) DEF Unlink, settings
  <1>2. Typed'
    BY <1>0, <1>1, SMTT(60) DEF Typed
  <1>3. \A c \in ConnKeys : conn'[c] = IF c = k THEN NoConn ELSE conn[c]
    BY <1>0, <1>1, ZenonT(60) DEF Typed
  <1>4. Singles'
    <2>1. \A b \in Browsers : GoesOn(b)
      BY <1>1, ZenonT(60) DEF GoesOn
    <2> QED BY <1>0, <1>1, <1>3, <2>1, SinglesKept, ZenonT(60)
  <1>5. Own'
    <2>1. \A c \in ConnKeys : ConnOwn(c)
      BY <1>1, <1>3, ZenonT(60) DEF ConnOwn
    <2>2. \A b \in Browsers : PlanOwn(b)
      BY <1>1, ZenonT(60) DEF PlanOwn, Users
    <2> QED BY <1>0, <1>1, <2>1, <2>2, OwnKept, ZenonT(60)
  <1> QED BY <1>2, <1>4, <1>5, Zenon DEF IInv

\* The stages that only move a plan on or end it, and the changes that touch none.
LEMMA QuietInv ==
    ASSUME IInv,
           \/ \E b \in Browsers : UserLogin(b) \/ SetGroups(b) \/ Logout(b)
           \/ \E b \in Browsers, g \in SourceGroups : HandleGroup(b, g) \/ GroupOnly(b, g)
           \/ \E i \in Identities, name \in LoginNames : Rename(i, name)
           \/ UNCHANGED sourceVars
    PROVE  IInv'
  <1>0. Typed /\ Singles /\ Own
    BY DEF IInv
  <1>t. /\ plan \in [Browsers -> PlanRecord \cup {NoPlan}]
        /\ logged \in [Browsers -> UserKeys \cup {None}]
        /\ claims \in [Identities -> [name : LoginNames, groups : {SourceGroups}]]
    BY <1>0, ZenonT(60) DEF Typed
  <1>s. ASSUME UNCHANGED <<mode, user, conn, plan, logged, made, raced>>,
               claims' \in [Identities -> [name : LoginNames, groups : {SourceGroups}]]
        PROVE  IInv'
    <2>1. Typed'
      BY <1>0, <1>s, SMTT(60) DEF Typed
    <2>2. Singles'
      <3>1. \A b \in Browsers : GoesOn(b)
        BY <1>s, ZenonT(60) DEF GoesOn
      <3> QED BY <1>0, <1>s, <3>1, SinglesKept, ZenonT(60)
    <2>3. Own'
      <3>1. \A c \in ConnKeys : ConnOwn(c)
        BY <1>s, ZenonT(60) DEF ConnOwn
      <3>2. \A b \in Browsers : PlanOwn(b)
        BY <1>s, ZenonT(60) DEF PlanOwn, Users
      <3> QED BY <1>0, <1>s, <3>1, <3>2, OwnKept, ZenonT(60)
    <2> QED BY <2>1, <2>2, <2>3, ZenonT(60) DEF IInv
  <1>1. ASSUME NEW b \in Browsers, UserLogin(b) PROVE IInv'
    <2> DEFINE p == [plan[b] EXCEPT !.at = "post"]
    <2>1. plan[b] \in PlanRecord /\ plan[b] # NoPlan
      BY <1>0, <1>1, PlanAt, SMTT(60) DEF UserLogin
    <2>2. p \in PlanRecord /\ p.id = plan[b].id /\ p.conn = plan[b].conn /\ p.user = plan[b].user
      BY <2>1, PlanFields, ZenonT(60)
    <2>3. plan' = [plan EXCEPT ![b] = p]
      BY <1>1, <1>t, SMTT(60) DEF UserLogin
    <2>4. UNCHANGED <<mode, user, conn, made, raced, claims>>
      BY <1>1, ZenonT(60) DEF UserLogin, settings
    <2>5. logged' \in [Browsers -> UserKeys \cup {None}]
      BY <1>1, <1>t, SMTT(60) DEF UserLogin, Users
    <2> HIDE DEF p
    <2> QED BY <1>t, <2>1, <2>2, <2>3, <2>4, <2>5, PlanMoves, ZenonT(60)
  <1>2. ASSUME NEW b \in Browsers, SetGroups(b) PROVE IInv'
    BY <1>2, <1>t, PlanEnds, ZenonT(60) DEF SetGroups, settings
  <1>3. ASSUME NEW b \in Browsers, Logout(b) PROVE IInv'
    <2>1. logged' \in [Browsers -> UserKeys \cup {None}]
      BY <1>3, <1>t, SMTT(60) DEF Logout
    <2> QED BY <1>3, <2>1, PlanEnds, ZenonT(60) DEF Logout, settings
  <1>4. ASSUME NEW b \in Browsers, NEW g \in SourceGroups, HandleGroup(b, g) PROVE IInv'
    <2>1. CASE Cancel(b)
      BY <1>4, <1>t, <2>1, PlanEnds, ZenonT(60) DEF HandleGroup, settings
    <2>2. CASE plan' = [plan EXCEPT ![b].todo = @ \ {g}]
      <3> DEFINE T == plan[b].todo \ {g}
                 p == [plan[b] EXCEPT !.todo = T]
      <3>1. plan[b] \in PlanRecord /\ plan[b] # NoPlan
        BY <1>0, <1>4, PlanAt, SMTT(60) DEF HandleGroup
      <3>2. T \in SUBSET SourceGroups
        BY <3>1, SMTT(60) DEF PlanRecord
      <3>3. p \in PlanRecord /\ p.id = plan[b].id /\ p.conn = plan[b].conn /\ p.user = plan[b].user
        <4> HIDE DEF T
        <4> QED BY <3>1, <3>2, PlanFields, ZenonT(60)
      <3>4. plan' = [plan EXCEPT ![b] = p]
        BY <2>2, <1>t
      <3>5. UNCHANGED <<mode, user, conn, made, raced, claims, logged>>
        BY <1>4, Zenon DEF HandleGroup, settings
      <3> HIDE DEF p
      <3> QED BY <1>t, <3>1, <3>3, <3>4, <3>5, PlanMoves, ZenonT(60)
    <2> QED BY <1>4, <2>1, <2>2, ZenonT(60) DEF HandleGroup
  <1>5. ASSUME NEW b \in Browsers, NEW g \in SourceGroups, GroupOnly(b, g) PROVE IInv'
    BY <1>5, <1>s, <1>t, Zenon DEF GroupOnly, settings
  <1>6. ASSUME NEW i \in Identities, NEW name \in LoginNames, Rename(i, name) PROVE IInv'
    <2>1. claims' \in [Identities -> [name : LoginNames, groups : {SourceGroups}]]
      BY <1>6, <1>t, SMTT(60) DEF Rename
    <2> QED BY <1>6, <1>s, <2>1, ZenonT(60) DEF Rename
  <1>7. CASE UNCHANGED sourceVars
    BY <1>7, <1>s, <1>t, ZenonT(60) DEF sourceVars, settings
  <1> QED BY <1>1, <1>2, <1>3, <1>4, <1>5, <1>6, <1>7, ZenonT(60)

-----------------------------------------------------------------------------
(* The theorems *)

\* Nothing is connected and no plan is there at the start.
LEMMA InitInv == SourceInit => IInv
  <1> SUFFICES ASSUME SourceInit PROVE IInv
    BY SMTT(60)
  <1>1. /\ claims \in [Identities -> [name : LoginNames, groups : {SourceGroups}]]
        /\ conn = [c \in ConnKeys |-> NoConn] /\ plan = [b \in Browsers |-> NoPlan]
        /\ logged = [b \in Browsers |-> None]
        /\ \E taken \in LoginNames \cup {Unnamed} :
             user = [u \in UserKeys |-> IF u = First(UserKeys) THEN taken ELSE Unnamed]
    BY ZenonT(60) DEF SourceInit
  <1>2. Conns = {} /\ Planned = {} /\ \A i \in Identities : ConnsOf(i) = {} /\ PlansOf(i) = {}
    BY <1>1, SMTT(60) DEF Conns, Planned, ConnsOf, PlansOf
  <1>3. Typed
    <2>1. user \in [UserKeys -> LoginNames \cup {Unnamed}]
      BY <1>1, SMTT(60)
    <2> QED BY <1>1, <2>1, SMTT(60) DEF Typed
  <1>4. Singles /\ Own
    BY <1>2, ZenonT(60) DEF Singles, Single, Own
  <1> QED BY <1>3, <1>4, SMTT(60) DEF IInv

\* Every step keeps the invariant.
LEMMA NextInv == IInv /\ [SourceNext]_sourceVars => IInv'
  <1> SUFFICES ASSUME IInv, [SourceNext]_sourceVars PROVE IInv'
    BY SMTT(60)
  <1>1. ASSUME NEW b \in Browsers, Stage(b) PROVE IInv'
    BY <1>1, WriteInv, PostInv, QuietInv, ZenonT(60) DEF Stage
  <1>2. ASSUME NEW b \in Browsers, Logout(b) PROVE IInv'
    BY <1>2, QuietInv, ZenonT(60)
  <1>3. ASSUME NEW b \in Browsers, NEW i \in Identities, Callback(b, i) \/ LinkByHand(b, i) PROVE IInv'
    BY <1>3, CallbackInv, LinkInv, ZenonT(60)
  <1>4. ASSUME NEW b \in Browsers, NEW g \in SourceGroups, GroupOnly(b, g) PROVE IInv'
    BY <1>4, QuietInv, ZenonT(60)
  <1>5. ASSUME NEW u \in UserKeys, DeleteUser(u) PROVE IInv'
    BY <1>5, DeleteUserInv, ZenonT(60)
  <1>6. ASSUME NEW u \in UserKeys, NEW name \in LoginNames, NameUser(u, name) PROVE IInv'
    BY <1>6, NameUserInv, ZenonT(60)
  <1>7. ASSUME NEW c \in ConnKeys, Unlink(c) PROVE IInv'
    BY <1>7, UnlinkInv, Zenon
  <1>8. ASSUME NEW i \in Identities, NEW name \in LoginNames, Rename(i, name) PROVE IInv'
    BY <1>8, QuietInv, ZenonT(60)
  <1>9. ASSUME UNCHANGED sourceVars PROVE IInv'
    BY <1>9, QuietInv, ZenonT(60)
  <1> QED BY <1>1, <1>2, <1>3, <1>4, <1>5, <1>6, <1>7, <1>8, <1>9, ZenonT(60) DEF SourceNext

\* The inductive invariant holds of every login through a source.
THEOREM SourceInvariance == SourceSpec => []IInv
  BY InitInv, NextInv, PTL DEF SourceSpec

\* An identity that never had two plans at once has one connection at most: a callback
\* finds the connection there is, PostSourceStage saves it under the key it was found
\* with, and removing connections and users in between does not make a second one.
THEOREM OneAccountTheorem == SourceSpec => []OneAccount
  <1>1. IInv => OneAccount
    <2> SUFFICES ASSUME IInv, NEW i \in Identities \ raced PROVE Cardinality(ConnsOf(i)) <= 1
      BY ZenonT(60) DEF OneAccount
    <2>1. \A c, d \in ConnsOf(i) : c = d
      BY ZenonT(60) DEF IInv, Singles, Single
    <2>2. CASE ConnsOf(i) = {}
      BY <2>2, FS_EmptySet, SMTT(60)
    <2>3. CASE ConnsOf(i) # {}
      <3>1. PICK c : ConnsOf(i) = {c}
        BY <2>1, <2>3, SMTT(60)
      <3>2. Cardinality(ConnsOf(i)) = 1
        BY <3>1, FS_Singleton, ZenonT(60)
      <3> QED BY <3>2, SMTT(60)
    <2> QED BY <2>2, <2>3, SMTT(60)
  <1> QED BY <1>1, SourceInvariance, PTL

\* Unless the source links by name, an identity is connected only to a user that one of
\* its own logins enrolled, or who linked it.
THEOREM NotTakenOverTheorem == SourceSpec => []NotTakenOver
  <1>1. IInv => NotTakenOver
    BY Zenon DEF IInv, Own, NotTakenOver
  <1> QED BY <1>1, SourceInvariance, PTL


-----------------------------------------------------------------------------
(* Remote access *)

Token == [session : Sessions, state : {"there", "deleted"}, lapsed : BOOLEAN,
          missed : BOOLEAN]
Stages == {"idle", "counted", "stale"}

\* The variables the limit depends on.
RemoteTyped == tokens \in Seq(Token) /\ stage \in [Sessions -> Stages] /\ overrun \in BOOLEAN

\* A request that has counted has room for its token, until another token makes its count
\* stale.
Room == \A s \in Sessions : Limit > -1 /\ stage[s] = "counted" => Cardinality(Usable) < Limit

RInv == RemoteTyped /\ Room /\ LimitKept

-----------------------------------------------------------------------------
\* The usable tokens of an endpoint are finitely many, and fewer when some are deleted or
\* expire.
LEMMA Finite ==
    ASSUME RemoteTyped
    PROVE  IsFiniteSet(Usable) /\ Cardinality(Usable) \in Nat
           /\ \A T \in SUBSET Usable : IsFiniteSet(T) /\ Cardinality(T) \in Nat
                                       /\ Cardinality(T) <= Cardinality(Usable)
  <1>1. tokens \in Seq(Token)
    BY SMTT(60) DEF RemoteTyped
  <1>2. DOMAIN tokens = 1..Len(tokens) /\ Len(tokens) \in Nat
    BY <1>1, SMTT(60)
  <1>3. IsFiniteSet(DOMAIN tokens)
    BY <1>2, FS_Interval, SMTT(60)
  <1>4. IsFiniteSet(Usable)
    BY <1>3, FS_Subset, SMTT(60) DEF Usable
  <1> QED BY <1>4, FS_Subset, FS_CardinalityType, SMTT(60)

\* Steps that leave the requests alone and make no token usable.
LEMMA Shrinks ==
    ASSUME RInv, tokens' \in Seq(Token), stage' = stage, overrun' = overrun,
           Usable' \subseteq Usable
    PROVE  RInv'
  <1>1. Cardinality(Usable') \in Nat /\ Cardinality(Usable') <= Cardinality(Usable)
        /\ Cardinality(Usable) \in Nat
    BY Finite, SMTT(60) DEF RInv
  <1>2. RemoteTyped'
    BY SMTT(60) DEF RInv, RemoteTyped
  <1>3. Room'
    BY <1>1, RemoteAssumption, SMTT(60) DEF RInv, Room
  <1>4. LimitKept'
    BY <1>1, RemoteAssumption, SMTT(60) DEF RInv, LimitKept
  <1> QED BY <1>2, <1>3, <1>4, SMTT(60) DEF RInv

\* What a token loses keeps it a token.
LEMMA TokenFields ==
    ASSUME NEW k \in Token
    PROVE  /\ [k EXCEPT !.state = "deleted"] \in Token
           /\ [k EXCEPT !.state = "deleted"].state = "deleted"
           /\ [k EXCEPT !.state = "deleted"].lapsed = k.lapsed
           /\ [k EXCEPT !.lapsed = TRUE] \in Token
           /\ [k EXCEPT !.lapsed = TRUE].lapsed = TRUE
           /\ [k EXCEPT !.lapsed = TRUE].state = k.state
           /\ [k EXCEPT !.missed = FALSE] \in Token
           /\ [k EXCEPT !.missed = FALSE].state = k.state
           /\ [k EXCEPT !.missed = FALSE].lapsed = k.lapsed
  BY ZenonT(60) DEF Token

\* RACFinalStage.dispatch
LEMMA CheckLimitStep ==
    ASSUME RInv, NEW s \in Sessions, CheckLimit(s)
    PROVE  RInv'
  <1>1. tokens \in Seq(Token) /\ stage \in [Sessions -> Stages] /\ overrun \in BOOLEAN
    BY DEF RInv, RemoteTyped
  <1>2. tokens' = Purged /\ overrun' = overrun
    BY DEF CheckLimit
  <1>3. /\ tokens' \in Seq(Token)
        /\ DOMAIN tokens' = DOMAIN tokens
        /\ \A t \in DOMAIN tokens :
             tokens'[t] = IF There(t) /\ tokens[t].lapsed
                            THEN [tokens[t] EXCEPT !.state = "deleted"] ELSE tokens[t]
    <2>1. DOMAIN tokens = 1..Len(tokens) /\ Len(tokens) \in Nat
          /\ \A t \in DOMAIN tokens : tokens[t] \in Token
      BY <1>1, SMTT(60)
    <2>2. \A t \in DOMAIN tokens : Purged[t] \in Token
      BY <2>1, TokenFields, ZenonT(60) DEF Purged
    <2> QED BY <1>2, <2>1, <2>2, SMTT(60) DEF Purged
  <1>4. Usable' \subseteq Usable
    <2> SUFFICES ASSUME NEW t \in Usable' PROVE t \in Usable
      BY SMTT(60)
    <2>1. t \in DOMAIN tokens' /\ tokens'[t].state = "there" /\ tokens'[t].lapsed = FALSE
      BY <1>1, <1>3, SMTT(60) DEF Usable, There, Token
    <2>2. tokens[t] \in Token
      BY <1>1, <1>3, <2>1, SMTT(60)
    <2>3. tokens'[t] = tokens[t]
      BY <1>3, <2>1, <2>2, TokenFields, ZenonT(60)
    <2> QED BY <1>3, <2>1, <2>3, SMTT(60) DEF Usable, There
  <1>5. Cardinality(Usable') \in Nat /\ Cardinality(Usable') <= Cardinality(Usable)
        /\ Cardinality(Usable) \in Nat
    BY <1>4, Finite, SMTT(60) DEF RInv
  <1>6. Limit > -1 /\ stage'[s] = "counted" => Cardinality(Usable) < Limit
    BY <1>1, <1>5, RemoteAssumption, SMTT(60) DEF CheckLimit
  <1>7. \A r \in Sessions \ {s} : stage'[r] = stage[r]
    BY <1>1, SMTT(60) DEF CheckLimit
  <1>8. stage' \in [Sessions -> Stages]
    BY <1>1, SMTT(60) DEF CheckLimit, Stages
  <1>9. Room'
    BY <1>5, <1>6, <1>7, RemoteAssumption, SMTT(60) DEF RInv, Room
  <1>10. LimitKept'
    BY <1>2, <1>5, RemoteAssumption, SMTT(60) DEF RInv, LimitKept
  <1> QED BY <1>1, <1>2, <1>3, <1>8, <1>9, <1>10, SMTT(60) DEF RInv, RemoteTyped

\* RACFinalStage.get_challenge
LEMMA CreateTokenStep ==
    ASSUME RInv, NEW s \in Sessions, CreateToken(s)
    PROVE  RInv'
  <1>1. tokens \in Seq(Token) /\ stage \in [Sessions -> Stages] /\ overrun \in BOOLEAN
    BY DEF RInv, RemoteTyped
  <1>2. stage' \in [Sessions -> Stages] /\ stage'[s] = "idle"
    BY <1>1, SMTT(60) DEF CreateToken, Stages
  <1>3. CASE session[s] = "gone"
    <2>1. tokens' = tokens /\ overrun' = overrun
      BY <1>3, SMTT(60) DEF CreateToken
    <2>2. \A r \in Sessions : stage'[r] = "counted" => stage[r] = "counted"
      BY <1>1, <1>2, <1>3, SMTT(60) DEF CreateToken
    <2>3. Usable' = Usable
      BY <2>1, SMTT(60) DEF Usable, There
    <2> QED BY <1>1, <1>2, <2>1, <2>2, <2>3, SMTT(60) DEF RInv, RemoteTyped, Room, LimitKept
  <1>4. CASE session[s] # "gone"
    <2> DEFINE k == [session |-> s, state |-> "there", lapsed |-> FALSE,
                     missed |-> session[s] = "ending"]
               n == Len(tokens) + 1
    <2>1. tokens' = Append(tokens, k) /\ overrun' = (overrun \/ stage[s] = "stale")
      BY <1>4, SMTT(60) DEF CreateToken
    <2>2. k \in Token
      BY SMTT(60) DEF Token
    <2> HIDE DEF k
    <2>3. tokens' \in Seq(Token) /\ DOMAIN tokens' = DOMAIN tokens \cup {n}
          /\ \A t \in DOMAIN tokens : tokens'[t] = tokens[t]
      BY <1>1, <2>1, <2>2, SMTT(60)
    <2>4. Usable' \subseteq Usable \cup {n}
      <3> SUFFICES ASSUME NEW t \in Usable', t # n PROVE t \in Usable
        BY SMTT(60)
      <3>1. t \in DOMAIN tokens' /\ tokens'[t].state = "there" /\ ~tokens'[t].lapsed
        BY SMTT(60) DEF Usable, There
      <3>2. t \in DOMAIN tokens /\ tokens'[t] = tokens[t]
        BY <2>3, <3>1, SMTT(60)
      <3> QED BY <3>1, <3>2, SMTT(60) DEF Usable, There
    <2>5. Cardinality(Usable') \in Nat /\ Cardinality(Usable) \in Nat
          /\ Cardinality(Usable') <= Cardinality(Usable) + 1
      <3>1. IsFiniteSet(Usable) /\ Cardinality(Usable) \in Nat
        BY Finite, SMTT(60) DEF RInv
      <3> HIDE DEF n
      <3>a. /\ IsFiniteSet(Usable \cup {n})
            /\ Cardinality(Usable \cup {n}) =
                 IF n \in Usable THEN Cardinality(Usable) ELSE Cardinality(Usable) + 1
        BY <3>1, FS_AddElement, ZenonT(60)
      <3>2. IsFiniteSet(Usable \cup {n}) /\ Cardinality(Usable \cup {n}) <= Cardinality(Usable) + 1
        BY <3>1, <3>a, SMTT(60)
      <3>3. IsFiniteSet(Usable') /\ Cardinality(Usable') <= Cardinality(Usable \cup {n})
        BY <2>4, <3>2, FS_Subset, SMTT(60)
      <3>4. Cardinality(Usable') \in Nat /\ Cardinality(Usable \cup {n}) \in Nat
        BY <3>2, <3>3, FS_CardinalityType, SMTT(60)
      <3> QED BY <3>1, <3>2, <3>3, <3>4, SMTT(60)
    <2>6. \A r \in Sessions : stage'[r] # "counted"
      BY <1>1, <1>2, <1>4, SMTT(60) DEF CreateToken
    <2>7. overrun' \in BOOLEAN
      BY <1>1, <2>1, SMTT(60)
    <2>8. stage[s] = "counted" \/ stage[s] = "stale"
      BY SMTT(60) DEF CreateToken
    <2>9. LimitKept'
      <3> SUFFICES ASSUME Limit > -1, ~overrun' PROVE Cardinality(Usable') <= Limit
        BY SMTT(60) DEF LimitKept
      <3>1. stage[s] = "counted"
        BY <2>1, <2>8, ZenonT(60)
      <3>2. Cardinality(Usable) < Limit
        BY <3>1, SMTT(60) DEF RInv, Room
      <3> QED BY <2>5, <3>2, RemoteAssumption, SMTT(60)
    <2> QED BY <1>2, <2>3, <2>6, <2>7, <2>9, SMTT(60) DEF RInv, RemoteTyped, Room
  <1> QED BY <1>3, <1>4, SMTT(60)

\* A step in which tokens are only deleted or pass their expiry.
LEMMA TokenStep ==
    ASSUME RInv, tokens' \in Seq(Token), DOMAIN tokens' = DOMAIN tokens,
           stage' = stage, overrun' = overrun,
           \A t \in DOMAIN tokens : /\ tokens'[t].state \in {tokens[t].state, "deleted"}
                                    /\ tokens'[t].lapsed \in {tokens[t].lapsed, TRUE}
    PROVE  RInv'
  <1>1. Usable' \subseteq Usable
    BY ZenonT(60) DEF Usable, There
  <1> QED BY <1>1, Shrinks, ZenonT(60)

\* Time passes the expiry of a token, or a token is deleted.
LEMMA LapseStep ==
    ASSUME RInv, NEW t \in DOMAIN tokens, Lapse(t) \/ DeleteToken(t)
    PROVE  RInv'
  <1>1. tokens \in Seq(Token) /\ tokens[t] \in Token
    BY SMTT(60) DEF RInv, RemoteTyped
  <1> DEFINE a == [tokens[t] EXCEPT !.lapsed = TRUE]
             b == [tokens[t] EXCEPT !.state = "deleted"]
  <1>2. PICK k \in {a, b} : tokens' = [tokens EXCEPT ![t] = k]
    BY ZenonT(60) DEF Lapse, DeleteToken
  <1>3. k \in Token /\ k.state \in {tokens[t].state, "deleted"}
        /\ k.lapsed \in {tokens[t].lapsed, TRUE}
    <2>1. /\ a \in Token /\ a.state = tokens[t].state /\ a.lapsed = TRUE
          /\ b \in Token /\ b.state = "deleted" /\ b.lapsed = tokens[t].lapsed
      BY <1>1, TokenFields, ZenonT(60)
    <2> HIDE DEF a, b
    <2> QED BY <2>1, ZenonT(60)
  <1> HIDE DEF a, b
  <1>4. tokens' \in Seq(Token) /\ DOMAIN tokens' = DOMAIN tokens /\ tokens'[t] = k
        /\ \A x \in DOMAIN tokens \ {t} : tokens'[x] = tokens[x]
    BY <1>1, <1>2, <1>3, SMTT(60)
  <1>5. stage' = stage /\ overrun' = overrun
    BY ZenonT(60) DEF Lapse, DeleteToken
  <1>6. \A x \in DOMAIN tokens : /\ tokens'[x].state \in {tokens[x].state, "deleted"}
                                 /\ tokens'[x].lapsed \in {tokens[x].lapsed, TRUE}
    BY <1>3, <1>4, ZenonT(60)
  <1> QED BY <1>4, <1>5, <1>6, TokenStep, ZenonT(60)

\* The deletion of a session deletes its tokens, or is rolled back and deletes none.
LEMMA SessionDeletedStep ==
    ASSUME RInv, NEW s \in Sessions, SessionDeleted(s)
    PROVE  RInv'
  <1>1. tokens \in Seq(Token)
    BY SMTT(60) DEF RInv, RemoteTyped
  <1> DEFINE mine == {t \in DOMAIN tokens : tokens[t].session = s}
             refused == \E t \in mine : tokens[t].missed /\ There(t)
             k(t) == IF t \in mine
                     THEN [tokens[t] EXCEPT !.missed = FALSE,
                                            !.state = IF refused THEN @ ELSE "deleted"]
                     ELSE tokens[t]
  <1>2. tokens' = [t \in DOMAIN tokens |-> k(t)] /\ stage' = stage /\ overrun' = overrun
    BY ZenonT(60) DEF SessionDeleted
  <1> HIDE DEF mine, refused
  <1>3. \A t \in DOMAIN tokens : tokens[t] \in Token
    BY <1>1, SMTT(60)
  <1>4. \A t \in DOMAIN tokens : k(t) \in Token /\ k(t).state \in {tokens[t].state, "deleted"}
                                  /\ k(t).lapsed = tokens[t].lapsed
    <2> SUFFICES ASSUME NEW t \in DOMAIN tokens, t \in mine
                 PROVE  k(t) \in Token /\ k(t).state \in {tokens[t].state, "deleted"}
                        /\ k(t).lapsed = tokens[t].lapsed
      BY <1>3, ZenonT(60)
    <2> DEFINE k1 == [tokens[t] EXCEPT !.missed = FALSE]
    <2>1. k1 \in Token /\ k1.state = tokens[t].state /\ k1.lapsed = tokens[t].lapsed
      BY <1>3, TokenFields, Zenon
    <2>2. k(t) = [k1 EXCEPT !.state = IF refused THEN tokens[t].state ELSE "deleted"]
      <3>1. k(t) = [tokens[t] EXCEPT !.missed = FALSE,
                                     !.state = IF refused THEN @ ELSE "deleted"]
        BY SMTT(60)
      <3> QED BY <3>1, <1>3, SMTT(60) DEF Token
    <2> HIDE DEF k1
    <2>3. [k1 EXCEPT !.state = tokens[t].state] = k1
      BY <2>1, SMTT(60) DEF Token
    <2>4. k(t) = k1 \/ k(t) = [k1 EXCEPT !.state = "deleted"]
      BY <2>2, <2>3, ZenonT(60)
    <2> HIDE DEF k
    <2> QED BY <2>1, <2>4, TokenFields, ZenonT(60)
  <1> HIDE DEF k
  <1>5. tokens' \in Seq(Token) /\ DOMAIN tokens' = DOMAIN tokens
        /\ \A t \in DOMAIN tokens : tokens'[t] = k(t)
    BY <1>1, <1>2, <1>4, SMTT(60)
  <1>6. \A t \in DOMAIN tokens : /\ tokens'[t].state \in {tokens[t].state, "deleted"}
                                 /\ tokens'[t].lapsed \in {tokens[t].lapsed, TRUE}
    BY <1>4, <1>5, ZenonT(60)
  <1> QED BY <1>2, <1>5, <1>6, TokenStep, ZenonT(60)

\* init_outpost_connection deletes the token it has used, if the provider says so.
LEMMA InitOutpostStep ==
    ASSUME RInv, NEW c \in Tabs, InitOutpost(c)
    PROVE  RInv'
  <1>1. tokens \in Seq(Token)
    BY SMTT(60) DEF RInv, RemoteTyped
  <1> DEFINE u == tab[c].token
  <1>2. stage' = stage /\ overrun' = overrun
    BY ZenonT(60) DEF InitOutpost
  <1>3. CASE tokens' = tokens
    <2>1. Usable' = Usable
      BY <1>3, ZenonT(60) DEF Usable, There
    <2> QED BY <1>1, <1>2, <1>3, <2>1, Shrinks, ZenonT(60)
  <1>4. CASE u \in Usable /\ tokens' = [tokens EXCEPT ![u].state = "deleted"]
    <2> HIDE DEF u
    <2>1. u \in DOMAIN tokens /\ tokens[u] \in Token
      BY <1>1, <1>4, SMTT(60) DEF Usable
    <2> DEFINE k == [tokens[u] EXCEPT !.state = "deleted"]
    <2>2. k \in Token /\ k.state = "deleted" /\ k.lapsed = tokens[u].lapsed
      BY <2>1, SMTT(60) DEF Token
    <2>3. tokens' = [tokens EXCEPT ![u] = k]
      BY <1>4, ZenonT(60)
    <2> HIDE DEF k
    <2>4. tokens' \in Seq(Token) /\ DOMAIN tokens' = DOMAIN tokens /\ tokens'[u] = k
          /\ \A x \in DOMAIN tokens \ {u} : tokens'[x] = tokens[x]
      BY <1>1, <2>1, <2>2, <2>3, SMTT(60)
    <2>5. \A x \in DOMAIN tokens : /\ tokens'[x].state \in {tokens[x].state, "deleted"}
                                   /\ tokens'[x].lapsed \in {tokens[x].lapsed, TRUE}
      BY <2>2, <2>4, ZenonT(60)
    <2> QED BY <1>2, <2>4, <2>5, TokenStep, ZenonT(60)
  <1> QED BY <1>3, <1>4, ZenonT(60) DEF InitOutpost

\* Steps of consumers, outposts and sessions that touch neither tokens nor requests.
LEMMA OtherStep ==
    ASSUME RInv, UNCHANGED <<tokens, stage, overrun>>
    PROVE  RInv'
  <1>1. Usable' = Usable
    BY SMTT(60) DEF Usable, There
  <1> QED BY <1>1, SMTT(60) DEF RInv, RemoteTyped, Room, LimitKept

\* At the start an endpoint has no tokens.
LEMMA RemoteInitInv == RemoteInit => RInv
  <1> SUFFICES ASSUME RemoteInit PROVE RInv
    BY SMTT(60)
  <1>1. tokens = <<>> /\ stage = [s \in Sessions |-> "idle"] /\ overrun = FALSE
    BY SMTT(60) DEF RemoteInit
  <1>2. RemoteTyped
    <2>1. tokens \in Seq(Token)
      BY <1>1, SMTT(60)
    <2>2. stage \in [Sessions -> Stages] /\ overrun \in BOOLEAN
      BY <1>1, ZenonT(60) DEF Stages
    <2> QED BY <2>1, <2>2, SMTT(60) DEF RemoteTyped
  <1>3. Usable = {}
    BY <1>1, SMTT(60) DEF Usable
  <1>4. Cardinality(Usable) = 0
    BY <1>3, FS_EmptySet, SMTT(60)
  <1>5. LimitKept
    BY <1>4, RemoteAssumption, SMTT(60) DEF LimitKept
  <1>6. Room
    BY <1>1, SMTT(60) DEF Room
  <1> QED BY <1>2, <1>5, <1>6, SMTT(60) DEF RInv

\* Every step keeps the invariant.
LEMMA RemoteNextInv == RInv /\ [RemoteNext]_racVars => RInv'
  <1> SUFFICES ASSUME RInv, [RemoteNext]_racVars PROVE RInv'
    BY SMTT(60)
  <1>1. ASSUME NEW s \in Sessions, CheckLimit(s) \/ CreateToken(s) \/ SessionDeleted(s)
        PROVE  RInv'
    BY <1>1, CheckLimitStep, CreateTokenStep, SessionDeletedStep, ZenonT(60)
  <1>2. ASSUME NEW s \in Sessions, EndSession(s) PROVE RInv'
    BY <1>2, OtherStep, ZenonT(60) DEF EndSession
  <1>3. ASSUME NEW t \in DOMAIN tokens, Lapse(t) \/ DeleteToken(t) PROVE RInv'
    BY <1>3, LapseStep, ZenonT(60)
  <1>4. ASSUME NEW c \in Tabs, NEW t \in DOMAIN tokens, OpenPage(c, t) PROVE RInv'
    BY <1>4, OtherStep, ZenonT(60) DEF OpenPage
  <1>5. ASSUME NEW c \in Tabs, InitOutpost(c) PROVE RInv'
    BY <1>5, InitOutpostStep, ZenonT(60)
  <1>6. ASSUME NEW c \in Tabs, Accept(c) \/ JoinSession(c) \/ LeaveGroup(c)
                               \/ OnOutpostConnected(c)
        PROVE  RInv'
    BY <1>6, OtherStep, ZenonT(60) DEF Accept, JoinSession, LeaveGroup, OnOutpostConnected
  <1>7. ASSUME NEW c \in Tabs, OnDisconnect(c) \/ CloseTab(c) \/ DataAfterExpiry(c)
        PROVE  RInv'
    BY <1>7, OtherStep, ZenonT(60) DEF OnDisconnect, CloseTab, DataAfterExpiry, Close
  <1>8. ASSUME NEW c \in Tabs, NEW i \in Instances,
               Dial(c, i) \/ DialFails(c, i) \/ OutpostDisconnects(c, i) \/ GuacdFails(c, i)
        PROVE  RInv'
    BY <1>8, OtherStep, ZenonT(60) DEF Dial, DialFails, OutpostDisconnects, GuacdFails
  <1>9. CASE UNCHANGED racVars
    BY <1>9, OtherStep, ZenonT(60) DEF racVars
  <1> QED BY <1>1, <1>2, <1>3, <1>4, <1>5, <1>6, <1>7, <1>8, <1>9, ZenonT(60) DEF RemoteNext

\* The inductive invariant holds in every reachable state.
THEOREM RemoteInvariance == RemoteSpec => []RInv
  BY RemoteInitInv, RemoteNextInv, PTL DEF RemoteSpec

\* RACFinalStage: an endpoint has no more usable tokens than its maximum_connections, unless
\* two requests were between their count and their insert at the same time; whatever tokens
\* expire, are deleted or purged and whatever sessions end meanwhile.
THEOREM LimitTheorem == RemoteSpec => []LimitKept
  <1>1. RInv => LimitKept
    BY DEF RInv
  <1> QED BY <1>1, RemoteInvariance, PTL
=============================================================================
