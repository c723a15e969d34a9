------------------------- MODULE ConfigurationProofs ------------------------
(***************************************************************************)
(* Proofs about the connection of an outpost (OutpostLink), for any websockets, *)
(* goroutines and refreshers, and about managed deployments (OutpostDeploy), for *)
(* any names, workers and Kubernetes objects.                              *)
(***************************************************************************)
EXTENDS OutpostLink, OutpostDeploy, TLAPS

(* The connection of an outpost *)

Sock == [st : {"unused", "open", "broken"}, group : BOOLEAN, inbox : Nat]

LinkTyped ==
    /\ config \in Nat /\ updates \in Nat /\ applied \in Nat /\ applied <= config
    /\ conn \in [Conns -> Sock] /\ eventConn \in Conns \cup {None}
    /\ handler \in [pc : {"idle", "read", "refresh"}, c : Conns \cup {None}]
    /\ handler.pc = "read" => handler.c \in Conns
    /\ refresh \in [Refreshers -> Nat] /\ \A p \in Refreshers : refresh[p] <= config + 1
    /\ steady \in BOOLEAN /\ undone \in BOOLEAN

\* The handler has an OnRefresh of its own only while it is in it, and since the last save, as
\* long as it is steady, it has listened to the event connection only.
Listens ==
    /\ handler.pc # "refresh" => refresh["event"] = None
    /\ steady => Reaches(eventConn) /\ (handler = NoRoutine \/ handler.c = eventConn)

\* Where the last save has got to.
Underway ==
    \/ applied = config \/ updates > 0 \/ conn[eventConn].inbox > 0
    \/ handler.pc = "refresh" /\ refresh["event"] = None
    \/ \E p \in Refreshers : refresh[p] = config + 1

LinkInv == LinkTyped /\ Listens /\ (steady /\ ~ undone => Underway)

\* What steps of the sockets alone have to keep.
LEMMA SocketStep ==
    ASSUME LinkInv, conn' \in [Conns -> Sock],
           steady => Reaches(eventConn)' /\ conn'[eventConn].inbox >= conn[eventConn].inbox,
           UNCHANGED <<config, updates, eventConn, handler, refresh, applied, steady, undone>>
    PROVE  LinkInv'
<1>1. LinkTyped /\ Listens
  BY DEF LinkInv
<1>2. LinkTyped'
  BY <1>1 DEF LinkTyped
<1>3. Listens'
  BY <1>1 DEF Listens
<1>4. ASSUME steady', ~ undone' PROVE Underway'
  <2>1. steady /\ Underway
    BY <1>4 DEF LinkInv
  <2>2. Reaches(eventConn)
    BY <1>1, <2>1 DEF Listens
  <2>3. eventConn \in Conns
    BY <1>1, <2>2 DEF LinkTyped, Reaches
  <2>4. conn[eventConn].inbox \in Nat /\ conn'[eventConn].inbox \in Nat
    BY <1>1, <2>3 DEF LinkTyped, Sock
  <2>5. conn[eventConn].inbox > 0 => conn'[eventConn].inbox > 0
    BY <2>1, <2>4
  <2> QED
    BY <2>1, <2>5 DEF Underway
<1> QED
  BY <1>2, <1>3, <1>4 DEF LinkInv

\* outpost_post_save.
LEMMA SaveOutpostStep == ASSUME LinkInv, SaveOutpost PROVE LinkInv'
<1>1. LinkTyped /\ Listens
  BY DEF LinkInv
<1>2. /\ config' = config + 1 /\ updates' = updates + 1 /\ steady' = Settled /\ undone' = FALSE
      /\ UNCHANGED <<conn, eventConn, routine, handler, refresh, applied>>
  BY DEF SaveOutpost
<1>3. Settled \in BOOLEAN
  BY DEF Settled
<1>a. /\ config \in Nat /\ updates \in Nat /\ applied \in Nat /\ applied <= config
      /\ refresh \in [Refreshers -> Nat] /\ \A p \in Refreshers : refresh[p] <= config + 1
  BY <1>1 DEF LinkTyped
<1>b. config' \in Nat /\ updates' \in Nat /\ applied' \in Nat /\ applied' <= config'
  BY <1>2, <1>a
<1>c. \A p \in Refreshers : refresh'[p] <= config' + 1
  BY <1>2, <1>a
<1>4. LinkTyped'
  BY <1>1, <1>2, <1>3, <1>b, <1>c, Zenon DEF LinkTyped
<1>5. Listens'
  <2>1. steady' => Reaches(eventConn)' /\ handler'.c = eventConn'
    BY <1>2, ZenonT(60) DEF Settled, Reaches
  <2> QED
    BY <1>1, <1>2, <2>1 DEF Listens
<1>6. updates' > 0
  BY <1>1, <1>2 DEF LinkTyped
<1> QED
  BY <1>4, <1>5, <1>6 DEF LinkInv, Underway

\* outpost_send_update: the update reaches an event connection that is in the group.
LEMMA SendUpdateStep == ASSUME LinkInv, SendUpdate PROVE LinkInv'
<1>1. LinkTyped /\ Listens
  BY DEF LinkInv
<1>2. /\ updates' = updates - 1 /\ updates > 0
      /\ conn' = [c \in Conns |-> IF Reaches(c) THEN [conn[c] EXCEPT !.inbox = @ + 1] ELSE conn[c]]
      /\ UNCHANGED <<config, eventConn, handler, refresh, applied, steady, undone>>
  BY DEF SendUpdate
<1>3. \A c \in Conns : /\ [conn[c] EXCEPT !.inbox = @ + 1] \in Sock
                       /\ [conn[c] EXCEPT !.inbox = @ + 1].st = conn[c].st
                       /\ [conn[c] EXCEPT !.inbox = @ + 1].group = conn[c].group
                       /\ [conn[c] EXCEPT !.inbox = @ + 1].inbox = conn[c].inbox + 1
                       /\ conn[c].inbox \in Nat
  BY <1>1 DEF LinkTyped, Sock
<1>4. /\ conn' \in [Conns -> Sock]
      /\ \A c \in Conns : /\ conn'[c].st = conn[c].st /\ conn'[c].group = conn[c].group
                          /\ Reaches(c) => conn'[c].inbox > 0
  BY <1>1, <1>2, <1>3 DEF LinkTyped
<1>5. LinkTyped'
  BY <1>1, <1>2, <1>4 DEF LinkTyped
<1>6. ASSUME steady PROVE Reaches(eventConn)' /\ conn'[eventConn].inbox > 0
  <2>1. Reaches(eventConn) /\ eventConn \in Conns
    BY <1>1, <1>6 DEF Listens, Reaches, LinkTyped
  <2> QED
    BY <1>2, <1>4, <2>1 DEF Reaches
<1>7. Listens'
  BY <1>1, <1>2, <1>6 DEF Listens
<1> QED
  BY <1>2, <1>5, <1>6, <1>7 DEF LinkInv, Underway

\* Websockets join and leave the group, and are collected.
LEMMA OtherSocketStep ==
    ASSUME LinkInv, NEW c \in Conns, NEW s \in Sock, conn' = [conn EXCEPT ![c] = s],
           steady /\ c = eventConn => s = conn[c],
           UNCHANGED <<config, updates, eventConn, handler, refresh, applied, steady, undone>>
    PROVE  LinkInv'
<1>1. LinkTyped /\ Listens
  BY DEF LinkInv
<1>2. conn' \in [Conns -> Sock]
  BY <1>1 DEF LinkTyped
<1>3. ASSUME steady PROVE Reaches(eventConn)' /\ conn'[eventConn].inbox >= conn[eventConn].inbox
  <2>1. Reaches(eventConn) /\ eventConn \in Conns
    BY <1>1, <1>3 DEF Listens, Reaches, LinkTyped
  <2>2. conn'[eventConn] = conn[eventConn] /\ conn[eventConn].inbox \in Nat
    BY <1>1, <1>3, <2>1 DEF LinkTyped, Sock
  <2> QED
    BY <2>1, <2>2 DEF Reaches
<1> QED
  BY <1>2, <1>3, SocketStep

\* OutpostConsumer.connect.
LEMMA JoinStep == ASSUME LinkInv, NEW c \in Conns, Join(c) PROVE LinkInv'
<1>1. LinkTyped /\ Listens
  BY DEF LinkInv
<1> DEFINE s == [conn[c] EXCEPT !.group = TRUE]
<1>2. s \in Sock /\ conn' = [conn EXCEPT ![c] = s]
  BY <1>1, ZenonT(60) DEF LinkTyped, Sock, Join
<1>3. ~ (steady /\ c = eventConn)
  BY <1>1 DEF Listens, Reaches, Join
<1> HIDE DEF s
<1> QED
  BY <1>2, <1>3, OtherSocketStep, ZenonT(60) DEF Join

\* OutpostConsumer.disconnect.
LEMMA LeaveGroupStep == ASSUME LinkInv, NEW c \in Conns, Leave(c) PROVE LinkInv'
<1>1. LinkTyped /\ Listens
  BY DEF LinkInv
<1> DEFINE s == [conn[c] EXCEPT !.group = FALSE]
<1>2. s \in Sock /\ conn' = [conn EXCEPT ![c] = s]
  BY <1>1, ZenonT(60) DEF LinkTyped, Sock, Leave
<1>3. ~ (steady /\ c = eventConn)
  BY <1>1 DEF Listens, Reaches, Leave
<1> HIDE DEF s
<1> QED
  BY <1>2, <1>3, OtherSocketStep, ZenonT(60) DEF Leave

\* A websocket is collected, which the event connection never is.
LEMMA CollectStep == ASSUME LinkInv, NEW c \in Conns, Collect(c) PROVE LinkInv'
<1>1. LinkTyped /\ Listens /\ conn \in [Conns -> Sock]
  BY DEF LinkInv, LinkTyped
<1>2. PICK s \in Sock : conn' = [conn EXCEPT ![c] = s]
  <2> DEFINE s1 == [conn[c] EXCEPT !.st = "broken"]
             s2 == [s1 EXCEPT !.inbox = 0]
  <2>1. conn[c] \in Sock
    BY <1>1
  <2>2. s1 \in Sock
    BY <2>1 DEF Sock
  <2>3. s2 \in Sock
    BY <2>2, ZenonT(60) DEF Sock
  <2>4. [conn EXCEPT ![c].st = "broken", ![c].inbox = 0] = [conn EXCEPT ![c] = s2]
    BY <1>1, <2>1, ZenonT(60)
  <2>5. Unused \in Sock
    BY DEF Unused, Sock
  <2> QED
    BY <2>3, <2>4, <2>5 DEF Collect
<1> QED
  BY <1>2, OtherSocketStep, ZenonT(60) DEF Collect

\* The network breaks a websocket.
LEMMA BreakStep == ASSUME LinkInv, NEW c \in Conns, Break(c) PROVE LinkInv'
<1>1. LinkTyped /\ Listens /\ conn \in [Conns -> Sock]
  BY DEF LinkInv, LinkTyped
<1>2. PICK kept \in {0, conn[c].inbox} :
        conn' = [conn EXCEPT ![c].st = "broken", ![c].inbox = kept]
  BY ZenonT(60) DEF Break
<1> DEFINE s1 == [conn[c] EXCEPT !.st = "broken"]
           s2 == [s1 EXCEPT !.inbox = kept]
<1>3. conn[c] \in Sock /\ kept \in Nat
  BY <1>1 DEF Sock
<1>4. s1 \in Sock
  BY <1>3 DEF Sock
<1>5. s2 \in Sock
  BY <1>3, <1>4, ZenonT(60) DEF Sock
<1>6. conn' = [conn EXCEPT ![c] = s2]
  BY <1>1, <1>2, <1>3, ZenonT(60)
<1> HIDE DEF s2
<1>7. conn' \in [Conns -> Sock]
  BY <1>1, <1>5, <1>6
<1>8. steady' = FALSE /\ UNCHANGED <<config, updates, eventConn, handler, refresh, applied, undone>>
  BY DEF Break
<1>9. LinkTyped'
  BY <1>1, <1>7, <1>8, ZenonT(60) DEF LinkTyped
<1>10. Listens'
  BY <1>1, <1>8 DEF Listens
<1> QED
  BY <1>8, <1>9, <1>10 DEF LinkInv

\* initEvent: a new event connection is not steady yet.
LEMMA DialStep == ASSUME LinkInv, NEW r \in Routines, Dial(r) PROVE LinkInv'
<1>1. LinkTyped /\ Listens /\ conn \in [Conns -> Sock]
  BY DEF LinkInv, LinkTyped
<1>2. PICK c \in Conns : conn' = [conn EXCEPT ![c].st = "open"] /\ eventConn' = c
  BY ZenonT(60) DEF Dial
<1>3. [conn[c] EXCEPT !.st = "open"] \in Sock
  BY <1>1 DEF Sock
<1>4. conn' \in [Conns -> Sock] /\ eventConn' \in Conns \cup {None}
  BY <1>1, <1>2, <1>3
<1>5. steady' = FALSE /\ UNCHANGED <<config, updates, handler, refresh, applied, undone>>
  BY DEF Dial
<1>6. LinkTyped'
  BY <1>1, <1>4, <1>5, ZenonT(60) DEF LinkTyped
<1>7. Listens'
  BY <1>1, <1>5 DEF Listens
<1> QED
  BY <1>5, <1>6, <1>7 DEF LinkInv

\* Steps of the goroutines that touch neither versions nor connections.
LEMMA RoutineStep ==
    ASSUME LinkInv,
           UNCHANGED <<config, updates, conn, eventConn, handler, refresh, applied, steady, undone>>
    PROVE  LinkInv'
BY DEF LinkInv, LinkTyped, Listens, Underway, Reaches

\* startEventHandler begins to read.
LEMMA HandlerReadStep == ASSUME LinkInv, HandlerRead PROVE LinkInv'
<1>1. LinkTyped /\ Listens
  BY DEF LinkInv
<1>2. UNCHANGED <<config, updates, conn, eventConn, refresh, applied, steady, undone>>
  BY DEF HandlerRead
<1>3. CASE UNCHANGED handler
  BY <1>2, <1>3, RoutineStep
<1>4. CASE eventConn # None /\ handler' = [pc |-> "read", c |-> eventConn] /\ handler.pc = "idle"
  <2>1. handler'.pc = "read" /\ handler'.c = eventConn
    BY <1>4
  <2>2. eventConn \in Conns
    BY <1>1, <1>4 DEF LinkTyped
  <2>3. handler' \in [pc : {"idle", "read", "refresh"}, c : Conns \cup {None}]
    BY <1>4, <2>2
  <2>4. LinkTyped'
    BY <1>1, <1>2, <2>1, <2>2, <2>3 DEF LinkTyped
  <2>5. Listens'
    BY <1>1, <1>2, <1>4, <2>1 DEF Listens, Reaches
  <2>6. steady' /\ ~ undone' => Underway'
    BY <1>2, <1>4 DEF LinkInv, Underway
  <2> QED
    BY <2>4, <2>5, <2>6 DEF LinkInv
<1> QED
  BY <1>3, <1>4 DEF HandlerRead

\* TRIGGER_UPDATE: the handler that takes an update goes on to OnRefresh.
LEMMA HandlerUpdateStep == ASSUME LinkInv, HandlerUpdate PROVE LinkInv'
<1>1. LinkTyped /\ Listens /\ conn \in [Conns -> Sock]
  BY DEF LinkInv, LinkTyped
<1> DEFINE h == handler.c
           s == [conn[h] EXCEPT !.inbox = @ - 1]
<1>2. /\ handler.pc = "read" /\ conn[h].inbox > 0 /\ conn' = [conn EXCEPT ![h] = s]
      /\ handler' = [handler EXCEPT !.pc = "refresh"]
      /\ UNCHANGED <<config, updates, eventConn, refresh, applied, steady, undone>>
  BY DEF HandlerUpdate
<1>3. h \in Conns /\ refresh["event"] = None
  BY <1>1, <1>2 DEF LinkTyped, Listens
<1>4. conn[h] \in Sock
  BY <1>1, <1>3
<1>5. s \in Sock /\ s.st = conn[h].st /\ s.group = conn[h].group
  BY <1>2, <1>4 DEF Sock
<1>6. conn' \in [Conns -> Sock]
  BY <1>1, <1>2, <1>3, <1>5
<1>7. \A c \in Conns : conn'[c].st = conn[c].st /\ conn'[c].group = conn[c].group
  BY <1>1, <1>2, <1>3, <1>5
<1>8. /\ handler' \in [pc : {"idle", "read", "refresh"}, c : Conns \cup {None}]
      /\ handler'.pc = "refresh" /\ handler'.c = handler.c
  BY <1>1, <1>2 DEF LinkTyped
<1>9. LinkTyped'
  BY <1>1, <1>2, <1>6, <1>8 DEF LinkTyped
<1>10. Listens'
  <2>1. ASSUME steady PROVE Reaches(eventConn)' /\ handler.c = eventConn
    <3>1. Reaches(eventConn) /\ (handler = NoRoutine \/ handler.c = eventConn)
      BY <1>1, <2>1 DEF Listens
    <3>2. eventConn \in Conns
      BY <1>1, <3>1 DEF LinkTyped, Reaches
    <3>3. handler # NoRoutine
      BY <1>2 DEF NoRoutine
    <3> QED
      BY <1>2, <1>7, <3>1, <3>2, <3>3 DEF Reaches
  <2> QED
    BY <1>2, <1>8, <2>1 DEF Listens
<1>11. Underway'
  BY <1>2, <1>3, <1>8 DEF Underway
<1> QED
  BY <1>9, <1>10, <1>11 DEF LinkInv

\* ReadJSON fails, which it does not on a connection that works.
LEMMA HandlerErrorStep == ASSUME LinkInv, HandlerError PROVE LinkInv'
<1>1. LinkTyped /\ Listens
  BY DEF LinkInv
<1>2. /\ handler.pc = "read" /\ handler' = NoRoutine
      /\ UNCHANGED <<config, updates, conn, eventConn, refresh, applied, steady, undone>>
  BY DEF HandlerError
<1>3. /\ handler' \in [pc : {"idle", "read", "refresh"}, c : Conns \cup {None}]
      /\ handler'.pc = "idle"
  BY <1>2 DEF NoRoutine
<1>4. LinkTyped'
  BY <1>1, <1>2, <1>3 DEF LinkTyped
<1>5. Listens'
  BY <1>1, <1>2, <1>3 DEF Listens, Reaches
<1>6. steady' /\ ~ undone' => Underway'
  BY <1>2 DEF LinkInv, Underway
<1> QED
  BY <1>4, <1>5, <1>6 DEF LinkInv

\* OnRefresh fetches the version that is saved now.
LEMMA FetchStep == ASSUME LinkInv, NEW p \in Refreshers, Fetch(p) PROVE LinkInv'
<1>1. LinkTyped /\ Listens /\ refresh \in [Refreshers -> Nat] /\ config \in Nat
  BY DEF LinkInv, LinkTyped
<1>2. /\ refresh' = [refresh EXCEPT ![p] = config + 1] /\ MayRefresh(p)
      /\ UNCHANGED <<config, updates, conn, eventConn, handler, applied, steady, undone>>
  BY DEF Fetch
<1>3. /\ refresh' \in [Refreshers -> Nat] /\ refresh'[p] = config + 1
      /\ \A q \in Refreshers : q # p => refresh'[q] = refresh[q]
  BY <1>1, <1>2
<1>4. \A q \in Refreshers : refresh'[q] <= config' + 1
  BY <1>1, <1>2, <1>3 DEF LinkTyped
<1>5. LinkTyped'
  BY <1>1, <1>2, <1>3, <1>4 DEF LinkTyped
<1>6. Listens'
  BY <1>1, <1>2, <1>3, LinkAssumption DEF Listens, MayRefresh, Reaches
<1>7. Underway'
  BY <1>2, <1>3 DEF Underway
<1> QED
  BY <1>5, <1>6, <1>7 DEF LinkInv

\* A request of a refresh fails.
LEMMA FetchFailsStep == ASSUME LinkInv, NEW p \in Refreshers, FetchFails(p) PROVE LinkInv'
<1>1. LinkTyped /\ Listens
  BY DEF LinkInv
<1>2. /\ refresh[p] = None /\ steady' = (steady /\ p # "event") /\ Returned(p)
      /\ UNCHANGED <<config, updates, conn, eventConn, refresh, applied, undone>>
  BY DEF FetchFails
<1>3. CASE p # "event"
  <2>1. UNCHANGED <<handler, steady>>
    BY <1>1, <1>2, <1>3 DEF Returned, LinkTyped
  <2> QED
    BY <1>2, <2>1, RoutineStep
<1>4. CASE p = "event"
  <2>1. /\ handler' = NoRoutine /\ steady' = FALSE
        /\ handler' \in [pc : {"idle", "read", "refresh"}, c : Conns \cup {None}]
        /\ handler'.pc = "idle"
    BY <1>2, <1>4, ZenonT(60) DEF Returned, NoRoutine
  <2>2. LinkTyped'
    BY <1>1, <1>2, <2>1 DEF LinkTyped
  <2>3. Listens'
    BY <1>2, <1>4, <2>1 DEF Listens
  <2> QED
    BY <2>1, <2>2, <2>3 DEF LinkInv
<1> QED
  BY <1>3, <1>4

\* Server.Refresh swaps in what it has built: the last save, or it undoes it, or the last save
\* is still on its way.
LEMMA SwapStep == ASSUME LinkInv, NEW p \in Refreshers, Swap(p) PROVE LinkInv'
<1>1. /\ LinkTyped /\ Listens /\ refresh \in [Refreshers -> Nat] /\ config \in Nat
      /\ applied \in Nat /\ refresh[p] <= config + 1 /\ undone \in BOOLEAN
  BY DEF LinkInv, LinkTyped
<1>2. /\ refresh[p] # None /\ applied' = refresh[p] - 1
      /\ undone' = (undone \/ refresh[p] - 1 < applied)
      /\ refresh' = [refresh EXCEPT ![p] = None] /\ Returned(p)
      /\ UNCHANGED <<config, updates, conn, eventConn, steady>>
  BY DEF Swap
<1>3. /\ refresh' \in [Refreshers -> Nat] /\ refresh'[p] = None
      /\ \A q \in Refreshers : q # p => refresh'[q] = refresh[q]
  BY <1>1, <1>2 DEF None
<1>4. applied' \in Nat /\ applied' <= config /\ undone' \in BOOLEAN
  BY <1>1, <1>2 DEF None
<1>5. \A q \in Refreshers : refresh'[q] <= config' + 1
  BY <1>1, <1>2, <1>3 DEF LinkTyped, None
<1>6. /\ handler' \in [pc : {"idle", "read", "refresh"}, c : Conns \cup {None}]
      /\ handler'.pc = "read" => handler'.c \in Conns
      /\ handler' = handler \/ (handler' = NoRoutine /\ p = "event")
      /\ NoRoutine.pc = "idle"
  BY <1>1, <1>2 DEF Returned, NoRoutine, LinkTyped
<1>7. LinkTyped'
  BY <1>1, <1>2, <1>3, <1>4, <1>5, <1>6 DEF LinkTyped
<1>8. Listens'
  <2>1. handler'.pc # "refresh" => refresh'["event"] = None
    BY <1>1, <1>3, <1>6, LinkAssumption DEF Listens
  <2>2. steady' => Reaches(eventConn)' /\ (handler' = NoRoutine \/ handler'.c = eventConn')
    BY <1>1, <1>2, <1>6 DEF Listens, Reaches
  <2> QED
    BY <2>1, <2>2 DEF Listens
<1>9. ASSUME steady', ~ undone' PROVE Underway'
  <2>a. steady /\ ~ undone /\ ~ (refresh[p] - 1 < applied)
    BY <1>2, <1>9, Zenon
  <2>b. refresh[p] \in Nat
    BY <1>1
  <2>c. refresh[p] - 1 >= applied
    BY <1>1, <2>a, <2>b
  <2>1. Underway /\ refresh[p] - 1 >= applied
    BY <2>a, <2>c, Zenon DEF LinkInv
  <2>2. CASE applied = config
    <3>1. applied' = config'
      BY <1>1, <1>2, <2>1, <2>2
    <3> QED
      BY <3>1 DEF Underway
  <2>3. CASE updates > 0 \/ conn[eventConn].inbox > 0
    BY <1>2, <2>3 DEF Underway
  <2>4. CASE handler.pc = "refresh" /\ refresh["event"] = None
    BY <1>2, <1>3, <1>6, <2>4, LinkAssumption DEF Underway
  <2>5. ASSUME NEW q \in Refreshers, refresh[q] = config + 1 PROVE Underway'
    <3>1. CASE q = p
      <4>1. applied' = config'
        BY <1>1, <1>2, <2>5, <3>1
      <4> QED
        BY <4>1 DEF Underway
    <3>2. CASE q # p
      BY <1>2, <1>3, <2>5, <3>2 DEF Underway
    <3> QED
      BY <3>1, <3>2
  <2> QED
    BY <2>1, <2>2, <2>3, <2>4, <2>5 DEF Underway
<1> QED
  BY <1>7, <1>8, <1>9 DEF LinkInv

\* The invariant is inductive.
LEMMA LinkNextInv == LinkInv /\ [LinkNext]_linkVars => LinkInv'
<1> SUFFICES ASSUME LinkInv, [LinkNext]_linkVars PROVE LinkInv'
  OBVIOUS
<1>1. CASE SaveOutpost
  BY <1>1, SaveOutpostStep
<1>2. CASE SendUpdate
  BY <1>2, SendUpdateStep
<1>3. ASSUME NEW c \in Conns, Join(c) \/ Leave(c) \/ Break(c) \/ Collect(c) PROVE LinkInv'
  BY <1>3, JoinStep, LeaveGroupStep, BreakStep, CollectStep
<1>4. ASSUME NEW r \in Routines, Dial(r) PROVE LinkInv'
  BY <1>4, DialStep
<1>5. ASSUME NEW r \in Routines, SetFlag(r) \/ Hello(r) \/ HelloFails(r) PROVE LinkInv'
  BY <1>5, RoutineStep DEF SetFlag, Hello, HelloFails
<1>6. CASE Health
  BY <1>6, RoutineStep DEF Health
<1>7. CASE HandlerRead
  BY <1>7, HandlerReadStep
<1>8. CASE HandlerUpdate
  BY <1>8, HandlerUpdateStep
<1>9. CASE HandlerError
  BY <1>9, HandlerErrorStep
<1>10. ASSUME NEW p \in Refreshers, Fetch(p) \/ FetchFails(p) \/ Swap(p) PROVE LinkInv'
  BY <1>10, FetchStep, FetchFailsStep, SwapStep
<1>11. CASE UNCHANGED linkVars
  BY <1>11, RoutineStep DEF linkVars
<1> QED
  BY <1>1, <1>2, <1>3, <1>4, <1>5, <1>6, <1>7, <1>8, <1>9, <1>10, <1>11, Zenon DEF LinkNext

\* The first refresh is done at the start.
LEMMA LinkInitInv == LinkInit => LinkInv
<1> SUFFICES ASSUME LinkInit PROVE LinkInv
  OBVIOUS
<1> DEFINE first == CHOOSE c \in Conns : TRUE
<1>1. first \in Conns
  BY LinkAssumption
<1>2. /\ eventConn \in {first, None}
      /\ \E up \in BOOLEAN : conn = [c \in Conns |-> IF up /\ c = first
                                                       THEN [Unused EXCEPT !.st = "open"] ELSE Unused]
  BY DEF LinkInit
<1>3. Unused \in Sock /\ [Unused EXCEPT !.st = "open"] \in Sock
  BY ZenonT(60) DEF Unused, Sock
<1> HIDE DEF first
<1>4. conn \in [Conns -> Sock]
  BY <1>2, <1>3
<1>5. /\ config = 0 /\ applied = 0 /\ updates = 0 /\ handler = NoRoutine
      /\ refresh = [p \in Refreshers |-> None] /\ steady = FALSE /\ undone = FALSE
  BY DEF LinkInit
<1>6. /\ handler \in [pc : {"idle", "read", "refresh"}, c : Conns \cup {None}]
      /\ handler.pc = "idle"
  BY <1>5 DEF NoRoutine
<1>7. refresh \in [Refreshers -> Nat] /\ \A p \in Refreshers : refresh[p] = 0
  BY <1>5 DEF None
<1>a. config \in Nat /\ updates \in Nat /\ applied \in Nat /\ applied <= config
  BY <1>5
<1>b. \A p \in Refreshers : refresh[p] <= config + 1
  BY <1>5, <1>7
<1>c. handler.pc = "read" => handler.c \in Conns
  BY <1>6
<1>d. eventConn \in Conns \cup {None} /\ steady \in BOOLEAN /\ undone \in BOOLEAN
  BY <1>1, <1>2, <1>5, Zenon
<1>8. LinkTyped
  BY <1>4, <1>6, <1>7, <1>a, <1>b, <1>c, <1>d, Zenon DEF LinkTyped
<1>9. Listens
  BY <1>5, <1>7, LinkAssumption DEF Listens, None
<1> QED
  BY <1>5, <1>8, <1>9 DEF LinkInv

\* While the event connection works, pushing is enough, whichever refreshes overlap.
THEOREM PushTheorem == LinkSpec => []PushReaches
<1>1. LinkInv => PushReaches
  <2> SUFFICES ASSUME LinkInv, steady, ~ undone, updates = 0, conn[eventConn].inbox = 0,
                      handler.pc # "refresh", \A p \in Refreshers : refresh[p] = None
               PROVE  applied = config
    BY DEF PushReaches
  <2>1. Underway /\ config \in Nat
    BY DEF LinkInv, LinkTyped
  <2>2. \A p \in Refreshers : refresh[p] # config + 1
    BY <2>1 DEF None
  <2> QED
    BY <2>1, <2>2 DEF Underway
<1> QED
  BY <1>1, LinkInitInv, LinkNextInv, PTL DEF LinkSpec

-----------------------------------------------------------------------------
(* Managed deployments *)

\* The instances a cache entry and a task may hold, and the tasks.
AnyInstance == [name : Names \cup {""}, conf : Nat]
Job == [act : {"none", "up", "down"}, inst : AnyInstance, at : Nat, looked : BOOLEAN, seen : Int]
Fits(j) ==
    /\ j.act = "none" => j = NoJob
    /\ j # NoJob => j.act \in {"up", "down"} /\ j.inst.name \in Names /\ j.at \in Objects

DeployTyped ==
    /\ platform \in {"docker", "kubernetes"} /\ exists \in BOOLEAN
    /\ oname \in Names /\ saving \in Names \cup {""} /\ saving # oname /\ oconf \in Nat
    /\ slot \in AnyInstance /\ (slot # NoInstance => slot.name \in Names)
    /\ downs \in Nat
    /\ deployed \in [Names -> [KObjects -> Int]]
    /\ doing \in [DWorkers -> Job] /\ \A w \in DWorkers : Fits(doing[w])
    /\ reading \subseteq DWorkers

\* The name is the outpost's, and no save is about to change it.
Standing(n) == exists /\ saving = "" /\ n = oname

\* A teardown under way will still come to the object, and take it away.
Covers(w, n, o) ==
    /\ doing[w].act = "down" /\ doing[w].inst.name = n
    /\ \/ doing[w].at < o
       \/ doing[w].at = o /\ (platform = "docker" \/ ~ doing[w].looked \/ doing[w].seen # Absent)

\* Whatever is deployed under a name the outpost no longer has is going to be torn down: by a
\* queued task that will find it in the slot, or by one that runs.
Cover ==
    \A n \in Names \ excused : \A o \in Objects : deployed[n][o] # Absent =>
      \/ Standing(n)
      \/ slot.name = n /\ downs > 0
      \/ \E w \in DWorkers : Covers(w, n, o)

\* What is in the slot is an instance of before, and tasks that have read it since it was put
\* there take all of it away.
SlotOld == slot # NoInstance => slot.name # saving /\ ~ Standing(slot.name)
ReadersCover ==
    \A w \in reading :
      /\ doing[w].act = "down" /\ doing[w].inst = slot
      /\ slot.name \notin excused =>
           \A o \in Objects : deployed[slot.name][o] # Absent => Covers(w, slot.name, o)

DeployInv == DeployTyped /\ Cover /\ SlotOld /\ ReadersCover

\* The objects are numbered from 1 to the last.
LEMMA ObjectsRange ==
    ASSUME platform \in {"docker", "kubernetes"}
    PROVE  Last \in Nat /\ Last \in Objects /\ Objects = 1..Last /\ Objects \subseteq KObjects
<1>1. PICK k \in KObjects : KObjects = 1..k /\ k \in Nat
  BY DeployAssumption, Zenon
<1>2. 1 \in KObjects
  <2>1. k \in 1..k
    BY <1>1, Zenon
  <2>2. 1 \in 1..k
    BY <1>1, <2>1
  <2> QED
    BY <1>1, <2>2, Zenon
<1>3. PICK m \in Nat : m \in Objects /\ Objects = 1..m
  <2>1. CASE platform = "docker"
    <3>1. Objects = {1}
      BY <2>1 DEF Objects
    <3>2. {1} = 1..1 /\ 1 \in Nat
      OBVIOUS
    <3> QED
      BY <3>1, <3>2, Zenon
  <2>2. CASE platform # "docker"
    <3>1. Objects = KObjects
      BY <2>2 DEF Objects
    <3> QED
      BY <1>1, <3>1, Zenon
  <2> QED
    BY <2>1, <2>2
<1>4. \A p \in Objects : p <= m
  BY <1>3
<1>5. Last \in Objects /\ \A p \in Objects : p <= Last
  <2>1. \E o \in Objects : \A p \in Objects : p <= o
    BY <1>3, <1>4, Zenon
  <2> QED
    BY <2>1, Zenon DEF Last
<1>6. Last = m
  BY <1>3, <1>4, <1>5
<1>7. Objects \subseteq KObjects
  BY <1>2 DEF Objects
<1> QED
  BY <1>3, <1>6, <1>7

\* No instance has no name.
LEMMA NoName == NoInstance.name = "" /\ "" \notin Names
BY DeployAssumption, ZenonT(60) DEF NoInstance

\* No task is no task.
LEMMA NoJobFacts == NoJob \in Job /\ NoJob.act = "none" /\ Fits(NoJob)
<1>1. NoJob \in Job /\ NoJob.act = "none"
  BY DEF NoJob, Job, NoInstance, AnyInstance, Absent
<1> QED
  BY <1>1, Zenon DEF Fits

\* The fields of a task.
LEMMA JobFields ==
    ASSUME NEW r \in Job
    PROVE  /\ r.act \in {"none", "up", "down"} /\ r.inst \in AnyInstance /\ r.at \in Nat
           /\ r.looked \in BOOLEAN /\ r.seen \in Int
BY DEF Job

\* The version of an instance is a number.
LEMMA InstanceFields == ASSUME NEW i \in AnyInstance PROVE i.conf \in Nat
BY ZenonT(60) DEF AnyInstance

\* Setting what a task does leaves its other fields.
LEMMA ActSet ==
    ASSUME NEW r \in Job, NEW a \in {"none", "up", "down"}, NEW q, q = [r EXCEPT !.act = a]
    PROVE  /\ q \in Job /\ q.act = a /\ q.inst = r.inst /\ q.at = r.at
           /\ q.looked = r.looked /\ q.seen = r.seen
BY DEF Job

\* Setting the instance of a task leaves its other fields.
LEMMA InstSet ==
    ASSUME NEW r \in Job, NEW i \in AnyInstance, NEW q, q = [r EXCEPT !.inst = i]
    PROVE  /\ q \in Job /\ q.act = r.act /\ q.inst = i /\ q.at = r.at
           /\ q.looked = r.looked /\ q.seen = r.seen
BY DEF Job

\* Setting the object a task is at leaves its other fields.
LEMMA AtSet ==
    ASSUME NEW r \in Job, NEW a \in Nat, NEW q, q = [r EXCEPT !.at = a]
    PROVE  /\ q \in Job /\ q.act = r.act /\ q.inst = r.inst /\ q.at = a
           /\ q.looked = r.looked /\ q.seen = r.seen
BY DEF Job

\* A task that has not looked yet is the same otherwise.
LEMMA LookedSet ==
    ASSUME NEW r \in Job, NEW q, q = [r EXCEPT !.looked = FALSE]
    PROVE  /\ q \in Job /\ q.act = r.act /\ q.inst = r.inst /\ q.at = r.at
           /\ q.looked = FALSE /\ q.seen = r.seen
BY ZenonT(60) DEF Job

\* A task that has looked is the same otherwise.
LEMMA LookedTrue ==
    ASSUME NEW r \in Job, NEW q, q = [r EXCEPT !.looked = TRUE]
    PROVE  /\ q \in Job /\ q.act = r.act /\ q.inst = r.inst /\ q.at = r.at
           /\ q.looked = TRUE /\ q.seen = r.seen
BY ZenonT(60) DEF Job

\* Setting what a task has seen leaves its other fields.
LEMMA SeenSet ==
    ASSUME NEW r \in Job, NEW v \in Int, NEW q, q = [r EXCEPT !.seen = v]
    PROVE  /\ q \in Job /\ q.act = r.act /\ q.inst = r.inst /\ q.at = r.at
           /\ q.looked = r.looked /\ q.seen = v
BY DEF Job

\* A task begins at the first object.
LEMMA TakenFacts ==
    ASSUME NEW a \in {"up", "down"}, NEW i \in AnyInstance
    PROVE  /\ Taken(a, i) \in Job /\ Taken(a, i).act = a /\ Taken(a, i).inst = i
           /\ Taken(a, i).at = 1 /\ Taken(a, i).looked = FALSE
<1>1. PICK q1 : q1 = [NoJob EXCEPT !.act = a]
  BY ZenonT(60)
<1>2. PICK q2 : q2 = [q1 EXCEPT !.inst = i]
  BY ZenonT(60)
<1>3. PICK q3 : q3 = [q2 EXCEPT !.at = 1]
  BY ZenonT(60)
<1>4. Taken(a, i) = q3
  BY <1>1, <1>2, <1>3, Zenon DEF Taken
<1>5. NoJob \in Job /\ NoJob.looked = FALSE
  BY NoJobFacts DEF NoJob
<1>6. q1 \in Job /\ q1.act = a /\ q1.looked = FALSE
  BY ONLY <1>1, <1>5, ActSet, SMT
<1>7. q2 \in Job /\ q2.act = a /\ q2.inst = i /\ q2.looked = FALSE
  BY ONLY <1>2, <1>6, InstSet, SMT
<1>8. 1 \in Nat
  OBVIOUS
<1>9. q3 \in Job /\ q3.act = a /\ q3.inst = i /\ q3.at = 1 /\ q3.looked = FALSE
  BY ONLY <1>3, <1>7, <1>8, AtSet, SMT
<1> QED
  BY <1>4, <1>9

\* Once nothing is to do, nothing is covered by a task any more.
LEMMA TornDownHolds == DeployInv => TornDown
<1> SUFFICES ASSUME DeployInv, NothingToDo, NEW n \in Names \ excused, Up(n)
             PROVE  exists /\ n = oname
  BY Zenon DEF TornDown
<1>1. PICK o \in Objects : deployed[n][o] # Absent
  BY DEF Up
<1>2. \A w \in DWorkers : ~ Covers(w, n, o)
  <2>1. \A w \in DWorkers : doing[w].act = "none"
    BY NoJobFacts, Zenon DEF NothingToDo
  <2>2. "none" # "down"
    OBVIOUS
  <2> QED
    BY <2>1, <2>2, Zenon DEF Covers
<1>3. ~ (slot.name = n /\ downs > 0)
  <2>1. downs = 0
    BY ZenonT(60) DEF NothingToDo
  <2>2. ~ (downs > 0)
    BY <2>1
  <2> QED
    BY <2>2
<1>4. Standing(n)
  BY <1>1, <1>2, <1>3, Zenon DEF DeployInv, Cover
<1> QED
  BY <1>4, ZenonT(60) DEF Standing

\* A task that does not move covers what it covered.
LEMMA StillCovers ==
    ASSUME NEW v, doing'[v] = doing[v], platform' = platform, NEW n, NEW o, Covers(v, n, o)
    PROVE  Covers(v, n, o)'
BY Zenon DEF Covers

\* One task moves.
LEMMA DoingStep ==
    ASSUME DeployTyped, NEW w \in DWorkers, NEW j \in Job, doing' = [doing EXCEPT ![w] = j]
    PROVE  /\ doing' \in [DWorkers -> Job] /\ doing'[w] = j
           /\ \A v \in DWorkers : v # w => doing'[v] = doing[v]
BY ZenonT(60) DEF DeployTyped

\* Tasks fit as long as the platform stays.
LEMMA FitsStep ==
    ASSUME DeployTyped, NEW w \in DWorkers, NEW j \in Job, Fits(j), platform' = platform,
           doing' = [doing EXCEPT ![w] = j]
    PROVE  doing' \in [DWorkers -> Job] /\ \A v \in DWorkers : Fits(doing[v])'
<1>1. /\ doing' \in [DWorkers -> Job] /\ doing'[w] = j
      /\ \A v \in DWorkers : v # w => doing'[v] = doing[v]
  BY DoingStep, ZenonT(60)
<1>2. Objects' = Objects
  BY Zenon DEF Objects
<1>3. ASSUME NEW v \in DWorkers PROVE Fits(doing[v])'
  <2>1. Fits(doing'[v])
    BY <1>1, Zenon DEF DeployTyped
  <2> QED
    BY <1>2, <2>1, Zenon DEF Fits
<1> QED
  BY <1>1, <1>3

\* A task that is no teardown moves: what it puts there stands, or is excused.
LEMMA UpMoves ==
    ASSUME DeployInv, NEW w \in DWorkers, NEW j \in Job, Fits(j), doing[w].act # "down",
           j.act # "down",
           doing' = [doing EXCEPT ![w] = j],
           UNCHANGED <<platform, exists, oname, oconf, saving, slot>>,
           downs' = downs, reading' \subseteq reading, excused \subseteq excused',
           deployed' \in [Names -> [KObjects -> Int]],
           \A n \in Names, o \in Objects : deployed'[n][o] # Absent =>
             deployed[n][o] # Absent \/ Standing(n) \/ n \in excused'
    PROVE  DeployInv'
<1>1. DeployTyped /\ Cover /\ SlotOld /\ ReadersCover
  BY DEF DeployInv
<1>2. /\ doing' \in [DWorkers -> Job] /\ doing'[w] = j
      /\ \A v \in DWorkers : v # w => doing'[v] = doing[v]
  BY <1>1, DoingStep, ZenonT(60)
<1>3. \A v \in DWorkers : Fits(doing[v])'
  BY <1>1, FitsStep, ZenonT(60)
<1>4. Objects' = Objects
  BY Zenon DEF Objects
<1>5. ASSUME NEW n PROVE Standing(n)' <=> Standing(n)
  BY Zenon DEF Standing
<1>6. DeployTyped'
  BY <1>1, <1>2, <1>3, ZenonT(60) DEF DeployTyped
<1>7. ASSUME NEW v \in DWorkers, NEW n, NEW o, Covers(v, n, o) PROVE Covers(v, n, o)'
  <2>1. v # w
    BY <1>7, Zenon DEF Covers
  <2> QED
    BY <1>2, <1>7, <2>1, StillCovers
<1>8. Cover'
  <2>1. ASSUME NEW n \in Names \ excused', NEW o \in Objects, deployed'[n][o] # Absent
        PROVE  \/ Standing(n)'
               \/ slot'.name = n /\ downs' > 0
               \/ \E v \in DWorkers : Covers(v, n, o)'
    <3>1. n \in Names \ excused /\ (deployed[n][o] # Absent \/ Standing(n))
      BY <2>1, Zenon
    <3>2. Standing(n) \/ (slot.name = n /\ downs > 0) \/ \E v \in DWorkers : Covers(v, n, o)
      BY <1>1, <3>1, Zenon DEF Cover
    <3> QED
      BY <1>5, <1>7, <3>2, Zenon
  <2> QED
    BY <1>4, <2>1, Zenon DEF Cover
<1>9. SlotOld'
  BY <1>1, <1>5, Zenon DEF SlotOld, Standing
<1>10. ReadersCover'
  <2>1. ASSUME NEW v \in reading'
        PROVE  /\ doing'[v].act = "down" /\ doing'[v].inst = slot'
               /\ slot'.name \notin excused' =>
                    \A o \in Objects : deployed'[slot'.name][o] # Absent => Covers(v, slot.name, o)'
    <3>1. v \in reading /\ v \in DWorkers
      BY <1>1, Zenon DEF DeployTyped
    <3>2. /\ doing[v].act = "down" /\ doing[v].inst = slot
          /\ slot.name \notin excused =>
               \A o \in Objects : deployed[slot.name][o] # Absent => Covers(v, slot.name, o)
      BY <1>1, <3>1, Zenon DEF ReadersCover
    <3>3. v # w
      BY <3>2, Zenon
    <3>4. doing'[v] = doing[v]
      BY <1>2, <3>1, <3>3, Zenon
    <3>5. ASSUME slot.name \notin excused', NEW o \in Objects, deployed'[slot.name][o] # Absent
          PROVE  Covers(v, slot.name, o)'
      <4>1. slot # NoInstance
        <5>1. Fits(doing[v]) /\ doing[v] # NoJob
          BY <1>1, <3>1, <3>2, NoJobFacts, ZenonT(60) DEF DeployTyped
        <5>2. slot.name \in Names
          BY <3>2, <5>1, Zenon DEF Fits
        <5> QED
          BY <5>2, NoName, Zenon
      <4>2. slot.name \in Names /\ ~ Standing(slot.name)
        BY <1>1, <4>1, Zenon DEF DeployTyped, SlotOld
      <4>3. deployed[slot.name][o] # Absent /\ slot.name \notin excused
        BY <3>5, <4>2, Zenon
      <4>4. Covers(v, slot.name, o)
        BY <3>2, <4>3, Zenon
      <4>5. PICK n : n = slot.name /\ n = slot'.name
        OBVIOUS
      <4>6. Covers(v, n, o)'
        BY <3>4, <4>4, <4>5, StillCovers
      <4> QED
        BY <4>5, <4>6, Zenon DEF Covers
    <3> QED
      BY <3>2, <3>4, <3>5, Zenon
  <2> QED
    BY <1>4, <2>1, Zenon DEF ReadersCover
<1> QED
  BY <1>6, <1>8, <1>9, <1>10 DEF DeployInv

\* The name in the slot, for a task that has read it.
LEMMA ReaderName ==
    ASSUME DeployInv, NEW v \in reading
    PROVE  /\ v \in DWorkers /\ slot # NoInstance /\ slot.name \in Names /\ ~ Standing(slot.name)
           /\ doing[v].act = "down" /\ doing[v].inst = slot
           /\ slot.name \notin excused =>
                \A o \in Objects : deployed[slot.name][o] # Absent => Covers(v, slot.name, o)
<1>1. v \in DWorkers /\ DeployTyped
  BY Zenon DEF DeployInv, DeployTyped
<1>2. /\ doing[v].act = "down" /\ doing[v].inst = slot
      /\ slot.name \notin excused =>
           \A o \in Objects : deployed[slot.name][o] # Absent => Covers(v, slot.name, o)
  BY Zenon DEF DeployInv, ReadersCover
<1>3. Fits(doing[v]) /\ doing[v] # NoJob
  BY <1>1, <1>2, NoJobFacts, ZenonT(60) DEF DeployTyped
<1>4. slot.name \in Names
  BY <1>2, <1>3, Zenon DEF Fits
<1>5. slot # NoInstance
  BY <1>4, NoName, Zenon
<1>6. ~ Standing(slot.name)
  BY <1>5, Zenon DEF DeployInv, SlotOld
<1> QED
  BY <1>1, <1>2, <1>4, <1>5, <1>6

\* The slot is filled with the outpost of now, by a save that changes the name or a deletion.
LEMMA SlotFilled ==
    ASSUME DeployInv, exists, saving = "",
           slot' = Instance, reading' = {}, downs' = downs + 1,
           excused' = excused \cup Overwritten,
           UNCHANGED <<platform, oname, oconf, deployed, doing>>, exists' \in BOOLEAN,
           \/ ~ exists' /\ saving' = ""
           \/ exists' /\ saving' \in Names /\ saving' # oname
    PROVE  DeployInv'
<1>1. DeployTyped /\ Cover /\ SlotOld /\ ReadersCover
  BY ZenonT(60) DEF DeployInv
<1>2. slot' \in AnyInstance /\ slot'.name = oname /\ oname \in Names /\ slot' # NoInstance
  BY <1>1, DeployAssumption, ZenonT(60) DEF DeployTyped, Instance, AnyInstance, NoInstance
<1>3. Objects' = Objects
  BY Zenon DEF Objects
<1>4. ASSUME NEW v \in DWorkers PROVE Fits(doing[v])'
  <2>1. Fits(doing[v])
    BY <1>1, Zenon DEF DeployTyped
  <2> QED
    BY <1>3, <2>1, Zenon DEF Fits
<1>5. downs \in Nat /\ downs' \in Nat /\ downs' > 0
  <2>1. downs \in Nat /\ downs' = downs + 1
    BY <1>1, Zenon DEF DeployTyped
  <2> QED
    BY ONLY <2>1
<1>6. saving' \in Names \cup {""} /\ saving' # oname /\ "" \notin Names
  BY <1>1, <1>2, DeployAssumption, Zenon DEF DeployTyped
<1>7. DeployTyped'
  BY <1>1, <1>2, <1>4, <1>5, <1>6, Zenon DEF DeployTyped
<1>8. ASSUME NEW n PROVE ~ Standing(n)'
  BY <1>6, Zenon DEF Standing
<1>9. Cover'
  <2>1. ASSUME NEW n \in Names \ excused', NEW o \in Objects, deployed[n][o] # Absent
        PROVE  (slot'.name = n /\ downs' > 0) \/ \E v \in DWorkers : Covers(v, n, o)'
    <3>1. n \in Names \ excused
      BY <2>1, Zenon
    <3>2. CASE Standing(n)
      BY <1>2, <1>5, <3>2, Zenon DEF Standing
    <3>3. CASE \E v \in DWorkers : Covers(v, n, o)
      <4>1. PICK v \in DWorkers : Covers(v, n, o)
        BY <3>3, ZenonT(60)
      <4>2. Covers(v, n, o)'
        BY <4>1, StillCovers, ZenonT(60)
      <4> QED
        BY <4>2, Zenon
    <3>4. CASE slot.name = n
      <4>1. slot # NoInstance
        BY <3>1, <3>4, NoName, Zenon
      <4>2. PICK v \in reading : TRUE
        BY <2>1, <3>4, <4>1, Zenon DEF Overwritten
      <4>3. v \in DWorkers /\ Covers(v, n, o)
        BY <2>1, <3>1, <3>4, <4>2, ReaderName, Zenon
      <4> QED
        BY <3>3, <4>3, Zenon
    <3> QED
      BY <1>1, <2>1, <3>1, <3>2, <3>3, <3>4, Zenon DEF Cover
  <2> QED
    BY <1>3, <2>1, Zenon DEF Cover
<1>10. SlotOld'
  BY <1>2, <1>6, <1>8, Zenon DEF SlotOld, Standing
<1>11. ReadersCover'
  BY Zenon DEF ReadersCover
<1> QED
  BY <1>7, <1>9, <1>10, <1>11, ZenonT(60) DEF DeployInv

\* The row is written: the name becomes the outpost's, the old one was given up before.
LEMMA PostSaved == ASSUME DeployInv, PostSave PROVE DeployInv'
<1>1. DeployTyped /\ Cover /\ SlotOld /\ ReadersCover
  BY DEF DeployInv
<1>2. /\ saving # "" /\ oname' = saving /\ saving' = ""
      /\ UNCHANGED <<platform, exists, oconf, slot, downs, deployed, doing, reading, excused>>
  BY ZenonT(60) DEF PostSave
<1>3. Objects' = Objects
  BY <1>2, Zenon DEF Objects
<1>4. ASSUME NEW v \in DWorkers PROVE Fits(doing[v])'
  <2>1. Fits(doing[v])
    BY <1>1, Zenon DEF DeployTyped
  <2> QED
    BY <1>2, <1>3, <2>1, Zenon DEF Fits
<1>5. saving \in Names /\ "" \notin Names
  BY <1>1, <1>2, DeployAssumption, Zenon DEF DeployTyped
<1>6. DeployTyped'
  BY <1>1, <1>2, <1>4, <1>5, Zenon DEF DeployTyped
<1>7. ASSUME NEW n PROVE ~ Standing(n)
  BY <1>2, Zenon DEF Standing
<1>8. ASSUME NEW v, NEW n, NEW o, Covers(v, n, o) PROVE Covers(v, n, o)'
  BY <1>2, <1>8, StillCovers, ZenonT(60)
<1>9. Cover'
  <2>1. ASSUME NEW n \in Names \ excused, NEW o \in Objects, deployed[n][o] # Absent
        PROVE  (slot'.name = n /\ downs' > 0) \/ \E v \in DWorkers : Covers(v, n, o)'
    <3>1. (slot.name = n /\ downs > 0) \/ \E v \in DWorkers : Covers(v, n, o)
      BY <1>1, <1>7, <2>1, Zenon DEF Cover
    <3> QED
      BY <1>2, <1>8, <3>1, Zenon
  <2> QED
    BY <1>2, <1>3, <2>1, Zenon DEF Cover
<1>10. SlotOld'
  <2>1. slot' # NoInstance => slot'.name # saving /\ slot'.name \in Names
    BY <1>1, <1>2, Zenon DEF SlotOld, DeployTyped
  <2> QED
    BY <1>2, <1>5, <2>1, Zenon DEF SlotOld, Standing
<1>11. ReadersCover'
  <2>1. ASSUME NEW v \in reading
        PROVE  /\ doing'[v].act = "down" /\ doing'[v].inst = slot'
               /\ slot'.name \notin excused' =>
                    \A o \in Objects : deployed'[slot'.name][o] # Absent => Covers(v, slot.name, o)'
    <3>1. /\ doing[v].act = "down" /\ doing[v].inst = slot
          /\ slot.name \notin excused =>
               \A o \in Objects : deployed[slot.name][o] # Absent => Covers(v, slot.name, o)
      BY ReaderName, Zenon
    <3>2. PICK n : n = slot.name /\ n = slot'.name
      BY <1>2, ZenonT(60)
    <3>3. ASSUME NEW o \in Objects, Covers(v, n, o) PROVE Covers(v, slot.name, o)'
      <4>1. Covers(v, n, o)'
        BY <1>8, <3>3
      <4> QED
        BY <3>2, <4>1, Zenon DEF Covers
    <3> QED
      BY <1>2, <3>1, <3>2, <3>3, Zenon
  <2> QED
    BY <1>2, <1>3, <2>1, Zenon DEF ReadersCover
<1> QED
  BY <1>6, <1>9, <1>10, <1>11 DEF DeployInv

\* A task that has read the slot covers what is in it, after a step as before.
LEMMA ReadersStep ==
    ASSUME DeployInv, slot' = slot, platform' = platform, reading' \subseteq DWorkers,
           \A v \in reading' : /\ doing'[v].act = "down" /\ doing'[v].inst = slot
                               /\ \A o \in Objects :
                                    slot.name \notin excused' /\ deployed'[slot.name][o] # Absent =>
                                      \A n : n = slot.name => Covers(v, n, o)'
    PROVE  ReadersCover'
<1>1. Objects' = Objects
  BY Zenon DEF Objects
<1>2. ASSUME NEW v \in reading', slot'.name \notin excused', NEW o \in Objects,
             deployed'[slot'.name][o] # Absent
      PROVE  Covers(v, slot.name, o)'
  <2>1. PICK n : n = slot.name /\ n = slot'.name
    OBVIOUS
  <2>2. Covers(v, n, o)'
    BY <1>2, <2>1, Zenon
  <2> QED
    BY <2>1, <2>2, Zenon DEF Covers
<1> QED
  BY <1>1, <1>2, Zenon DEF ReadersCover

\* A teardown moves on, and the slot stays.
LEMMA DownMoves ==
    ASSUME DeployInv, NEW w \in DWorkers, NEW j \in Job, Fits(j), doing[w].act = "down",
           j.act = "down", j.inst = doing[w].inst,
           doing' = [doing EXCEPT ![w] = j],
           UNCHANGED <<platform, exists, oname, oconf, saving, slot, downs, reading, excused>>,
           deployed' \in [Names -> [KObjects -> Int]],
           \A n \in Names, o \in Objects : deployed'[n][o] # Absent =>
             \/ deployed[n][o] # Absent
             \/ n = j.inst.name /\ \A v \in DWorkers :
                  doing'[v].act = "down" /\ doing'[v].inst.name = n => Covers(v, n, o)',
           \A n \in Names, o \in Objects :
             deployed'[n][o] # Absent /\ Covers(w, n, o) => Covers(w, n, o)'
    PROVE  DeployInv'
<1>1. DeployTyped /\ Cover /\ SlotOld /\ ReadersCover
  BY DEF DeployInv
<1>2. /\ doing' \in [DWorkers -> Job] /\ doing'[w] = j
      /\ \A v \in DWorkers : v # w => doing'[v] = doing[v]
  BY <1>1, DoingStep, ZenonT(60)
<1>3. \A v \in DWorkers : Fits(doing[v])'
  BY <1>1, FitsStep, ZenonT(60)
<1>4. Objects' = Objects
  BY Zenon DEF Objects
<1>5. ASSUME NEW n PROVE Standing(n)' <=> Standing(n)
  BY Zenon DEF Standing
<1>6. DeployTyped'
  BY <1>1, <1>2, <1>3, ZenonT(60) DEF DeployTyped
<1>7. ASSUME NEW v \in DWorkers, NEW n \in Names, NEW o \in Objects, deployed'[n][o] # Absent,
             Covers(v, n, o)
      PROVE  Covers(v, n, o)'
  <2>1. CASE v = w
    BY <1>7, <2>1, Zenon
  <2>2. CASE v # w
    BY <1>2, <1>7, <2>2, StillCovers
  <2> QED
    BY <2>1, <2>2
<1>8. Cover'
  <2>1. ASSUME NEW n \in Names \ excused, NEW o \in Objects, deployed'[n][o] # Absent
        PROVE  \/ Standing(n)'
               \/ slot'.name = n /\ downs' > 0
               \/ \E v \in DWorkers : Covers(v, n, o)'
    <3>1. CASE deployed[n][o] # Absent
      <4>1. Standing(n) \/ (slot.name = n /\ downs > 0) \/ \E v \in DWorkers : Covers(v, n, o)
        BY <1>1, <2>1, <3>1, Zenon DEF Cover
      <4> QED
        BY <1>5, <1>7, <2>1, <4>1, Zenon
    <3>2. CASE deployed[n][o] = Absent
      BY <1>2, <2>1, <3>2, Zenon
    <3> QED
      BY <3>1, <3>2
  <2> QED
    BY <1>4, <2>1, Zenon DEF Cover
<1>9. SlotOld'
  BY <1>1, <1>5, Zenon DEF SlotOld, Standing
<1>10. ReadersCover'
  <2>1. ASSUME NEW v \in reading'
        PROVE  /\ doing'[v].act = "down" /\ doing'[v].inst = slot
               /\ \A o \in Objects :
                    slot.name \notin excused' /\ deployed'[slot.name][o] # Absent =>
                      \A n : n = slot.name => Covers(v, n, o)'
    <3>1. /\ v \in DWorkers /\ slot.name \in Names
          /\ doing[v].act = "down" /\ doing[v].inst = slot
          /\ slot.name \notin excused =>
               \A o \in Objects : deployed[slot.name][o] # Absent => Covers(v, slot.name, o)
      BY ReaderName, Zenon
    <3>2. doing'[v].act = "down" /\ doing'[v].inst = slot
      BY <1>2, <3>1, Zenon
    <3>3. ASSUME NEW o \in Objects, slot.name \notin excused, deployed'[slot.name][o] # Absent,
                 NEW n, n = slot.name
          PROVE  Covers(v, n, o)'
      <4>1. CASE deployed[n][o] # Absent
        BY <1>7, <3>1, <3>3, <4>1, Zenon
      <4>2. CASE deployed[n][o] = Absent
        BY <3>1, <3>2, <3>3, <4>2, Zenon
      <4> QED
        BY <4>1, <4>2
    <3> QED
      BY <3>2, <3>3, Zenon
  <2>2. reading' \subseteq DWorkers
    BY <1>1, Zenon DEF DeployTyped
  <2> QED
    BY <2>1, <2>2, ReadersStep
<1> QED
  BY <1>6, <1>8, <1>9, <1>10 DEF DeployInv

\* A teardown comes to its end and clears the slot.
LEMMA DownEnds ==
    ASSUME DeployInv, NEW w \in DWorkers, doing[w].act = "down", doing[w].at = Last,
           doing' = [doing EXCEPT ![w] = NoJob], slot' = NoInstance, reading' = {},
           excused' = excused \cup Dropped(w),
           UNCHANGED <<platform, exists, oname, oconf, saving, downs>>,
           deployed' \in [Names -> [KObjects -> Int]],
           \A n \in Names, o \in Objects :
             deployed'[n][o] # Absent => deployed[n][o] # Absent /\ ~ Covers(w, n, o)
    PROVE  DeployInv'
<1>1. DeployTyped /\ Cover /\ SlotOld /\ ReadersCover
  BY DEF DeployInv
<1>2. /\ doing' \in [DWorkers -> Job] /\ doing'[w] = NoJob
      /\ \A v \in DWorkers : v # w => doing'[v] = doing[v]
  BY <1>1, DoingStep, NoJobFacts, ZenonT(60)
<1>3. \A v \in DWorkers : Fits(doing[v])'
  BY <1>1, FitsStep, NoJobFacts, ZenonT(60)
<1>4. Objects' = Objects
  BY Zenon DEF Objects
<1>5. ASSUME NEW n PROVE Standing(n)' <=> Standing(n)
  BY Zenon DEF Standing
<1>6. DeployTyped'
  <2>1. NoInstance \in AnyInstance
    BY ZenonT(60) DEF NoInstance, AnyInstance
  <2> QED
    BY <1>1, <1>2, <1>3, <2>1, Zenon DEF DeployTyped
<1>7. Cover'
  <2>1. ASSUME NEW n \in Names \ excused', NEW o \in Objects, deployed'[n][o] # Absent
        PROVE  Standing(n)' \/ \E v \in DWorkers : Covers(v, n, o)'
    <3>1. n \in Names \ excused /\ deployed[n][o] # Absent /\ ~ Covers(w, n, o)
      BY <2>1, Zenon
    <3>2. CASE Standing(n)
      BY <1>5, <3>2, Zenon
    <3>3. CASE \E v \in DWorkers : Covers(v, n, o)
      <4>1. PICK v \in DWorkers : Covers(v, n, o) /\ v # w
        BY <3>1, <3>3, Zenon
      <4>2. Covers(v, n, o)'
        BY <1>2, <4>1, StillCovers
      <4> QED
        BY <4>2, Zenon
    <3>4. CASE slot.name = n
      <4>1. slot # NoInstance
        BY <3>1, <3>4, NoName, Zenon
      <4>2. PICK v \in reading : TRUE
        BY <2>1, <3>4, <4>1, Zenon DEF Dropped
      <4>3. v \in DWorkers /\ Covers(v, n, o)
        BY <3>1, <3>4, <4>2, ReaderName, Zenon
      <4> QED
        BY <3>3, <4>3, Zenon
    <3> QED
      BY <1>1, <3>1, <3>2, <3>3, <3>4, Zenon DEF Cover
  <2> QED
    BY <1>4, <2>1, Zenon DEF Cover
<1>8. SlotOld' /\ ReadersCover'
  BY Zenon DEF SlotOld, ReadersCover
<1> QED
  BY <1>6, <1>7, <1>8 DEF DeployInv

\* A teardown fails or its worker dies: it is excused, or a task will find it in the slot again.
LEMMA DownGone ==
    ASSUME DeployInv, NEW w \in DWorkers, doing[w].act = "down",
           doing' = [doing EXCEPT ![w] = NoJob], reading' = reading \ {w},
           UNCHANGED <<platform, exists, oname, oconf, saving, slot, deployed>>,
           downs' = downs \/ downs' = downs + 1, excused \subseteq excused',
           doing[w].inst.name \in excused' \/ (slot.name = doing[w].inst.name /\ downs' = downs + 1)
    PROVE  DeployInv'
<1>1. DeployTyped /\ Cover /\ SlotOld /\ ReadersCover
  BY DEF DeployInv
<1>2. /\ doing' \in [DWorkers -> Job] /\ doing'[w] = NoJob
      /\ \A v \in DWorkers : v # w => doing'[v] = doing[v]
  BY <1>1, DoingStep, NoJobFacts, ZenonT(60)
<1>3. \A v \in DWorkers : Fits(doing[v])'
  BY <1>1, FitsStep, NoJobFacts, ZenonT(60)
<1>4. Objects' = Objects
  BY Zenon DEF Objects
<1>5. ASSUME NEW n PROVE Standing(n)' <=> Standing(n)
  BY Zenon DEF Standing
<1>6. downs' \in Nat /\ (downs > 0 => downs' > 0) /\ (downs' = downs + 1 => downs' > 0)
  <2>1. downs \in Nat
    BY <1>1, Zenon DEF DeployTyped
  <2> QED
    BY ONLY <2>1, downs' = downs \/ downs' = downs + 1
<1>7. DeployTyped'
  BY <1>1, <1>2, <1>3, <1>6, Zenon DEF DeployTyped
<1>8. Cover'
  <2>1. ASSUME NEW n \in Names \ excused', NEW o \in Objects, deployed[n][o] # Absent
        PROVE  \/ Standing(n)'
               \/ slot'.name = n /\ downs' > 0
               \/ \E v \in DWorkers : Covers(v, n, o)'
    <3>1. Standing(n) \/ (slot.name = n /\ downs > 0) \/ \E v \in DWorkers : Covers(v, n, o)
      BY <1>1, <2>1, Zenon DEF Cover
    <3>2. ASSUME NEW v \in DWorkers, Covers(v, n, o)
          PROVE  (slot'.name = n /\ downs' > 0) \/ Covers(v, n, o)'
      <4>1. CASE v = w
        <5>1. doing[w].inst.name = n
          BY <3>2, <4>1, Zenon DEF Covers
        <5> QED
          BY <1>6, <2>1, <5>1, Zenon
      <4>2. CASE v # w
        BY <1>2, <3>2, <4>2, StillCovers
      <4> QED
        BY <4>1, <4>2
    <3> QED
      BY <1>5, <1>6, <3>1, <3>2, Zenon
  <2> QED
    BY <1>4, <2>1, Zenon DEF Cover
<1>9. SlotOld'
  BY <1>1, <1>5, Zenon DEF SlotOld, Standing
<1>10. ReadersCover'
  <2>1. ASSUME NEW v \in reading'
        PROVE  /\ doing'[v].act = "down" /\ doing'[v].inst = slot
               /\ \A o \in Objects :
                    slot.name \notin excused' /\ deployed'[slot.name][o] # Absent =>
                      \A n : n = slot.name => Covers(v, n, o)'
    <3>1. /\ v \in DWorkers /\ v # w
          /\ doing[v].act = "down" /\ doing[v].inst = slot
          /\ slot.name \notin excused =>
               \A o \in Objects : deployed[slot.name][o] # Absent => Covers(v, slot.name, o)
      BY ReaderName, Zenon
    <3>2. doing'[v] = doing[v]
      BY <1>2, <3>1, Zenon
    <3>3. ASSUME NEW o \in Objects, slot.name \notin excused', deployed'[slot.name][o] # Absent,
                 NEW n, n = slot.name
          PROVE  Covers(v, n, o)'
      <4>1. Covers(v, n, o)
        BY <3>1, <3>3, Zenon
      <4> QED
        BY <3>2, <4>1, StillCovers, ZenonT(60)
    <3> QED
      BY <3>1, <3>2, <3>3, Zenon
  <2>2. reading' \subseteq DWorkers
    BY <1>1, Zenon DEF DeployTyped
  <2> QED
    BY <2>1, <2>2, ReadersStep
<1> QED
  BY <1>7, <1>8, <1>9, <1>10 DEF DeployInv

\* A teardown reads the slot: it comes to every object.
LEMMA DownBegins == ASSUME DeployInv, NEW w \in DWorkers, BeginDown(w) PROVE DeployInv'
<1> DEFINE j == IF slot = NoInstance THEN NoJob ELSE Taken("down", slot)
<1>1. DeployTyped /\ Cover /\ SlotOld /\ ReadersCover
  BY DEF DeployInv
<1>2. /\ doing[w] = NoJob /\ downs > 0 /\ downs' = downs - 1
      /\ doing' = [doing EXCEPT ![w] = j]
      /\ reading' = (IF slot = NoInstance THEN reading ELSE reading \cup {w})
      /\ UNCHANGED <<platform, exists, oname, oconf, saving, slot, deployed, excused>>
  BY DEF BeginDown
<1>3. downs' \in Nat
  <2>1. downs \in Nat
    BY <1>1, Zenon DEF DeployTyped
  <2> QED
    BY ONLY <1>2, <2>1
<1>4. Last \in Nat /\ Objects = 1..Last /\ Last \in Objects
  BY <1>1, ObjectsRange, Zenon DEF DeployTyped
<1>5. 1 \in Objects /\ \A o \in Objects : o = 1 \/ 1 < o
  BY <1>4
<1>6. slot # NoInstance =>
        j \in Job /\ j.act = "down" /\ j.inst = slot /\ j.at = 1 /\ j.looked = FALSE
  <2>1. slot \in AnyInstance
    BY <1>1, Zenon DEF DeployTyped
  <2> QED
    BY <2>1, TakenFacts, Zenon
<1>7. slot = NoInstance => j = NoJob
  OBVIOUS
<1> HIDE DEF j
<1>8. j \in Job /\ Fits(j)
  <2>1. CASE slot = NoInstance
    BY <1>7, <2>1, NoJobFacts
  <2>2. CASE slot # NoInstance
    <3>1. slot.name \in Names
      BY <1>1, <2>2, Zenon DEF DeployTyped
    <3>2. "down" # "none"
      OBVIOUS
    <3>3. Fits(j)
      BY <1>5, <1>6, <2>2, <3>1, <3>2, Zenon DEF Fits
    <3> QED
      BY <1>6, <2>2, <3>3
  <2> QED
    BY <2>1, <2>2
<1>9. /\ doing' \in [DWorkers -> Job] /\ doing'[w] = j
      /\ \A v \in DWorkers : v # w => doing'[v] = doing[v]
  BY <1>1, <1>2, <1>8, DoingStep, ZenonT(60)
<1>10. \A v \in DWorkers : Fits(doing[v])'
  BY <1>1, <1>2, <1>8, FitsStep, ZenonT(60)
<1>11. Objects' = Objects
  BY <1>2, Zenon DEF Objects
<1>12. ASSUME NEW n PROVE Standing(n)' <=> Standing(n)
  BY <1>2, Zenon DEF Standing
<1>13. DeployTyped'
  BY <1>1, <1>2, <1>3, <1>9, <1>10, Zenon DEF DeployTyped
<1>14. ASSUME NEW v \in DWorkers, NEW n, NEW o, Covers(v, n, o) PROVE v # w /\ Covers(v, n, o)'
  <2>1. v # w
    <3>1. "none" # "down"
      OBVIOUS
    <3> QED
      BY <1>2, <1>14, <3>1, NoJobFacts, Zenon DEF Covers
  <2> QED
    BY <1>2, <1>9, <1>14, <2>1, StillCovers
<1>15. ASSUME slot # NoInstance, NEW n, n = slot.name, NEW o \in Objects PROVE Covers(w, n, o)'
  BY <1>5, <1>6, <1>9, <1>15, Zenon DEF Covers
<1>16. Cover'
  <2>1. ASSUME NEW n \in Names \ excused, NEW o \in Objects, deployed[n][o] # Absent
        PROVE  Standing(n)' \/ \E v \in DWorkers : Covers(v, n, o)'
    <3>1. Standing(n) \/ slot.name = n \/ \E v \in DWorkers : Covers(v, n, o)
      BY <1>1, <2>1, Zenon DEF Cover
    <3>2. slot.name = n => slot # NoInstance
      BY <2>1, NoName, Zenon
    <3> QED
      BY <1>12, <1>14, <1>15, <2>1, <3>1, <3>2, Zenon
  <2> QED
    BY <1>2, <1>11, <2>1, Zenon DEF Cover
<1>17. SlotOld'
  BY <1>1, <1>2, <1>12, Zenon DEF SlotOld, Standing
<1>18. ReadersCover'
  <2>1. ASSUME NEW v \in reading'
        PROVE  /\ doing'[v].act = "down" /\ doing'[v].inst = slot
               /\ \A o \in Objects :
                    slot.name \notin excused' /\ deployed'[slot.name][o] # Absent =>
                      \A n : n = slot.name => Covers(v, n, o)'
    <3>1. CASE v \in reading
      <4>1. /\ v \in DWorkers
            /\ doing[v].act = "down" /\ doing[v].inst = slot
            /\ slot.name \notin excused =>
                 \A o \in Objects : deployed[slot.name][o] # Absent => Covers(v, slot.name, o)
        BY <3>1, ReaderName, Zenon
      <4>2. v # w
        <5>1. "none" # "down"
          OBVIOUS
        <5> QED
          BY <1>2, <4>1, <5>1, NoJobFacts, Zenon
      <4>3. doing'[v] = doing[v]
        BY <1>9, <4>1, <4>2, Zenon
      <4>4. ASSUME NEW o \in Objects, slot.name \notin excused', deployed'[slot.name][o] # Absent,
                   NEW n, n = slot.name
            PROVE  Covers(v, n, o)'
        BY <1>2, <1>14, <4>1, <4>4, Zenon
      <4> QED
        BY <4>1, <4>3, <4>4, Zenon
    <3>2. CASE v \notin reading
      <4>1. v = w /\ slot # NoInstance
        BY <1>2, <2>1, <3>2, Zenon
      <4> QED
        BY <1>6, <1>9, <1>15, <4>1, Zenon
    <3> QED
      BY <3>1, <3>2
  <2>2. reading' \subseteq DWorkers
    BY <1>13, Zenon DEF DeployTyped
  <2> QED
    BY <1>2, <2>1, <2>2, ReadersStep
<1> QED
  BY <1>13, <1>16, <1>17, <1>18 DEF DeployInv

\* What putting a version under the name and at the object of a task changes.
LEMMA PutFacts ==
    ASSUME DeployTyped, NEW w \in DWorkers, doing[w] # NoJob, NEW v \in Int, Put(w, v)
    PROVE  /\ deployed' \in [Names -> [KObjects -> Int]]
           /\ deployed'[doing[w].inst.name][doing[w].at] = v
           /\ \A n \in Names, o \in KObjects :
                n # doing[w].inst.name \/ o # doing[w].at => deployed'[n][o] = deployed[n][o]
<1>1. doing[w].inst.name \in Names /\ doing[w].at \in KObjects
  <2>1. Fits(doing[w]) /\ platform \in {"docker", "kubernetes"}
    BY Zenon DEF DeployTyped
  <2>2. doing[w].inst.name \in Names /\ doing[w].at \in Objects
    BY <2>1, Zenon DEF Fits
  <2> QED
    BY <2>1, <2>2, ObjectsRange, Zenon
<1>2. PICK n0, o0 : n0 = doing[w].inst.name /\ o0 = doing[w].at
  OBVIOUS
<1>3. deployed \in [Names -> [KObjects -> Int]]
  BY Zenon DEF DeployTyped
<1>4. deployed' = [deployed EXCEPT ![n0][o0] = v]
  BY <1>2 DEF Put
<1>5. n0 \in Names /\ o0 \in KObjects
  BY <1>1, <1>2
<1>6. /\ deployed' \in [Names -> [KObjects -> Int]] /\ deployed'[n0][o0] = v
      /\ \A n \in Names, o \in KObjects : n # n0 \/ o # o0 => deployed'[n][o] = deployed[n][o]
  BY ONLY <1>3, <1>4, <1>5, v \in Int
<1> QED
  BY <1>2, <1>6, Zenon

\* What a task knows of its place.
LEMMA JobFacts ==
    ASSUME DeployTyped, NEW w \in DWorkers, doing[w].act # "none"
    PROVE  /\ doing[w] # NoJob /\ doing[w] \in Job /\ doing[w].inst.name \in Names
           /\ doing[w].at \in Objects /\ doing[w].at \in Nat /\ doing[w].inst.conf \in Nat
<1>1. doing[w] \in Job /\ Fits(doing[w]) /\ doing[w] # NoJob
  BY NoJobFacts, Zenon DEF DeployTyped
<1>2. doing[w].inst.name \in Names /\ doing[w].at \in Objects
  BY <1>1, Zenon DEF Fits
<1>3. doing[w].at \in Nat /\ doing[w].inst \in AnyInstance
  BY <1>1, JobFields, Zenon
<1>4. doing[w].inst.conf \in Nat
  BY <1>3, InstanceFields
<1> QED
  BY <1>1, <1>2, <1>3, <1>4

\* The next object of a task.
LEMMA NextJob ==
    ASSUME DeployTyped, NEW w \in DWorkers, doing[w].act # "none", doing[w].at # Last, NEW j,
           j = Onward(doing[w])
    PROVE  /\ j \in Job /\ Fits(j) /\ j.act = doing[w].act /\ j.inst = doing[w].inst
           /\ j.at = doing[w].at + 1 /\ j.looked = FALSE
<1>1. /\ doing[w] \in Job /\ doing[w].inst.name \in Names /\ doing[w].at \in Objects
      /\ doing[w].at \in Nat
  BY JobFacts
<1>2. Last \in Nat /\ Objects = 1..Last
  BY ObjectsRange, Zenon DEF DeployTyped
<1>3. doing[w].at + 1 \in Objects
  BY <1>1, <1>2
<1>4. /\ j \in Job /\ j.act = doing[w].act /\ j.inst = doing[w].inst
      /\ j.at = doing[w].at + 1 /\ j.looked = FALSE
  <2>1. PICK r : r = doing[w]
    OBVIOUS
  <2>2. PICK q1 : q1 = [r EXCEPT !.at = r.at + 1]
    BY ZenonT(60)
  <2>3. PICK q2 : q2 = [q1 EXCEPT !.looked = FALSE]
    BY ZenonT(60)
  <2>4. j = [q2 EXCEPT !.seen = Absent]
    BY <2>1, <2>2, <2>3, Zenon DEF Onward
  <2>5. r \in Job /\ r.at + 1 \in Nat /\ Absent \in Int
    BY ONLY <1>1, <2>1 DEF Absent
  <2>6. q1 \in Job /\ q1.act = r.act /\ q1.inst = r.inst /\ q1.at = r.at + 1
    BY ONLY <2>2, <2>5, AtSet, SMT
  <2>7. q2 \in Job /\ q2.act = r.act /\ q2.inst = r.inst /\ q2.at = r.at + 1 /\ q2.looked = FALSE
    <3>1. q1 \in Job
      BY <2>6, Zenon
    <3>2. q2 \in Job /\ q2.act = q1.act /\ q2.inst = q1.inst /\ q2.at = q1.at /\ q2.looked = FALSE
      BY ONLY <2>3, <3>1, LookedSet, ZenonT(60)
    <3> QED
      BY <2>6, <3>2, Zenon
  <2>8. j \in Job /\ j.act = r.act /\ j.inst = r.inst /\ j.at = r.at + 1 /\ j.looked = FALSE
    BY ONLY <2>4, <2>5, <2>7, SeenSet, SMT
  <2> QED
    BY <2>1, <2>8, Zenon
<1>5. doing[w].act \in {"up", "down"}
  <2>1. doing[w].act \in {"none", "up", "down"}
    BY <1>1, JobFields, Zenon
  <2> QED
    BY <2>1, Zenon
<1>6. Fits(j)
  BY <1>1, <1>3, <1>4, <1>5, Zenon DEF Fits
<1> QED
  BY <1>4, <1>6

\* Where a task stands after Advance.
LEMMA AdvanceFacts ==
    ASSUME DeployTyped, NEW w \in DWorkers, doing[w].act # "none", Advance(w)
    PROVE  \E j \in Job :
             /\ doing' = [doing EXCEPT ![w] = j] /\ Fits(j)
             /\ doing[w].at = Last => j = NoJob
             /\ doing[w].at # Last => /\ j.act = doing[w].act /\ j.inst = doing[w].inst
                                      /\ j.at = doing[w].at + 1 /\ j.looked = FALSE
             /\ doing[w].act # "down" => slot' = slot /\ reading' = reading
             /\ doing[w].act = "down" /\ doing[w].at = Last => slot' = NoInstance /\ reading' = {}
             /\ doing[w].at # Last => slot' = slot /\ reading' = reading
<1>1. /\ slot' = (IF doing[w].at = Last /\ doing[w].act = "down" THEN NoInstance ELSE slot)
      /\ reading' = (IF doing[w].at = Last /\ doing[w].act = "down" THEN {} ELSE reading)
  BY Zenon DEF Advance
<1>2. CASE doing[w].at = Last
  <2>1. doing' = [doing EXCEPT ![w] = NoJob]
    BY <1>2 DEF Advance
  <2> QED
    BY <1>1, <1>2, <2>1, NoJobFacts, Zenon
<1>3. CASE doing[w].at # Last
  <2> DEFINE j == Onward(doing[w])
  <2>1. doing' = [doing EXCEPT ![w] = j]
    <3>1. doing' = [doing EXCEPT ![w] = IF doing[w].at = Last THEN NoJob ELSE j]
      BY Zenon DEF Advance
    <3> QED
      BY <1>3, <3>1, Zenon
  <2>2. /\ j \in Job /\ Fits(j) /\ j.act = doing[w].act /\ j.inst = doing[w].inst
        /\ j.at = doing[w].at + 1 /\ j.looked = FALSE
    BY <1>3, NextJob, Zenon
  <2> HIDE DEF j
  <2> QED
    BY <1>1, <1>3, <2>1, <2>2, Zenon
<1> QED
  BY <1>2, <1>3, ZenonT(60)

\* Nothing that matters to the teardowns changes.
LEMMA NothingMoves ==
    ASSUME DeployInv, oconf' \in Nat,
           UNCHANGED <<platform, exists, oname, saving, slot, downs, deployed, doing, reading, excused>>
    PROVE  DeployInv'
<1>1. DeployTyped /\ Cover /\ SlotOld /\ ReadersCover
  BY DEF DeployInv
<1>2. Objects' = Objects
  BY Zenon DEF Objects
<1>3. ASSUME NEW v \in DWorkers PROVE Fits(doing[v])'
  <2>1. Fits(doing[v])
    BY <1>1, Zenon DEF DeployTyped
  <2> QED
    BY <1>2, <2>1, Zenon DEF Fits
<1>4. DeployTyped'
  BY <1>1, <1>3, Zenon DEF DeployTyped
<1>5. ASSUME NEW v, NEW n, NEW o, Covers(v, n, o) PROVE Covers(v, n, o)'
  BY <1>5, StillCovers
<1>6. ASSUME NEW n PROVE Standing(n)' <=> Standing(n)
  BY Zenon DEF Standing
<1>7. Cover'
  <2>1. ASSUME NEW n \in Names \ excused, NEW o \in Objects, deployed[n][o] # Absent
        PROVE  Standing(n)' \/ (slot'.name = n /\ downs' > 0) \/ \E v \in DWorkers : Covers(v, n, o)'
    <3>1. Standing(n) \/ (slot.name = n /\ downs > 0) \/ \E v \in DWorkers : Covers(v, n, o)
      BY <1>1, <2>1, Zenon DEF Cover
    <3> QED
      BY <1>5, <1>6, <3>1, Zenon
  <2> QED
    BY <1>2, <2>1, Zenon DEF Cover
<1>8. SlotOld'
  BY <1>1, <1>6, Zenon DEF SlotOld, Standing
<1>9. ReadersCover'
  <2>1. ASSUME NEW v \in reading'
        PROVE  /\ doing'[v].act = "down" /\ doing'[v].inst = slot
               /\ \A o \in Objects :
                    slot.name \notin excused' /\ deployed'[slot.name][o] # Absent =>
                      \A n : n = slot.name => Covers(v, n, o)'
    <3>1. /\ doing[v].act = "down" /\ doing[v].inst = slot
          /\ slot.name \notin excused =>
               \A o \in Objects : deployed[slot.name][o] # Absent => Covers(v, slot.name, o)
      BY ReaderName, Zenon
    <3> QED
      BY <1>5, <3>1, Zenon
  <2>2. reading' \subseteq DWorkers
    BY <1>1, Zenon DEF DeployTyped
  <2> QED
    BY <2>1, <2>2, ReadersStep
<1> QED
  BY <1>4, <1>7, <1>8, <1>9 DEF DeployInv

\* A task fails: if it was a teardown, its name is excused.
LEMMA Failed ==
    ASSUME DeployInv, NEW w \in DWorkers, doing[w].act # "none", Error(w),
           UNCHANGED <<platform, exists, oname, oconf, saving, downs>>
    PROVE  DeployInv'
<1>1. /\ doing' = [doing EXCEPT ![w] = NoJob] /\ reading' = reading \ {w}
      /\ UNCHANGED <<slot, deployed>>
      /\ excused' = excused \cup (IF doing[w].act = "down" THEN {doing[w].inst.name} ELSE {})
  BY Zenon DEF Error
<1>2. DeployTyped
  BY DEF DeployInv
<1>3. CASE doing[w].act = "down"
  <2>1. excused \subseteq excused' /\ doing[w].inst.name \in excused'
    BY <1>1, <1>3, Zenon
  <2> QED
    BY <1>1, <1>3, <2>1, DownGone, ZenonT(60)
<1>4. CASE doing[w].act # "down"
  <2>1. NoJob \in Job /\ Fits(NoJob) /\ NoJob.act # "down"
    BY NoJobFacts
  <2>2. deployed' \in [Names -> [KObjects -> Int]] /\ reading' \subseteq reading /\ excused \subseteq excused'
    BY <1>1, <1>2, Zenon DEF DeployTyped
  <2>3. \A n \in Names, o \in Objects : deployed'[n][o] # Absent =>
          deployed[n][o] # Absent \/ Standing(n) \/ n \in excused'
    BY <1>1, Zenon
  <2> QED
    BY <1>1, <1>4, <2>1, <2>2, <2>3, UpMoves, ZenonT(60)
<1> QED
  BY <1>3, <1>4

\* A task "up" goes on to the next object.
LEMMA UpAdvances ==
    ASSUME DeployInv, NEW w \in DWorkers, doing[w].act = "up", Advance(w),
           UNCHANGED <<platform, exists, oname, oconf, saving, downs>>,
           excused \subseteq excused', deployed' \in [Names -> [KObjects -> Int]],
           \A n \in Names, o \in Objects : deployed'[n][o] # Absent =>
             deployed[n][o] # Absent \/ Standing(n) \/ n \in excused'
    PROVE  DeployInv'
<1>1. DeployTyped
  BY DEF DeployInv
<1>2. "up" # "none" /\ "up" # "down" /\ "none" # "down"
  OBVIOUS
<1>3. PICK j \in Job :
        /\ doing' = [doing EXCEPT ![w] = j] /\ Fits(j)
        /\ doing[w].at = Last => j = NoJob
        /\ doing[w].at # Last => j.act = doing[w].act
        /\ slot' = slot /\ reading' = reading
  BY <1>1, <1>2, AdvanceFacts, Zenon
<1>4. j.act # "down"
  BY <1>2, <1>3, NoJobFacts, Zenon
<1>5. reading' \subseteq reading /\ doing[w].act # "down"
  BY <1>2, <1>3, Zenon
<1> QED
  BY <1>3, <1>4, <1>5, UpMoves, ZenonT(60)

\* A teardown goes on: the object it leaves behind is gone.
LEMMA DownAdvances ==
    ASSUME DeployInv, NEW w \in DWorkers, Looked(w, "down"), Advance(w),
           excused' = excused \cup Dropped(w),
           UNCHANGED <<platform, exists, oname, oconf, saving, downs>>,
           deployed' \in [Names -> [KObjects -> Int]],
           \A n \in Names, o \in Objects : deployed'[n][o] # Absent =>
             /\ deployed[n][o] # Absent
             /\ \/ n # doing[w].inst.name \/ o # doing[w].at
                \/ platform # "docker" /\ doing[w].seen = Absent
    PROVE  DeployInv'
<1>1. DeployTyped
  BY DEF DeployInv
<1>2. doing[w].act = "down" /\ doing[w].looked /\ "down" # "none"
  BY DEF Looked
<1>3. PICK j \in Job :
        /\ doing' = [doing EXCEPT ![w] = j] /\ Fits(j)
        /\ doing[w].at = Last => j = NoJob
        /\ doing[w].at # Last => /\ j.act = doing[w].act /\ j.inst = doing[w].inst
                                 /\ j.at = doing[w].at + 1 /\ j.looked = FALSE
        /\ doing[w].at = Last => slot' = NoInstance /\ reading' = {}
        /\ doing[w].at # Last => slot' = slot /\ reading' = reading
  BY <1>1, <1>2, AdvanceFacts, Zenon
<1>4. ASSUME NEW n \in Names, NEW o \in Objects, deployed'[n][o] # Absent, Covers(w, n, o)
      PROVE  doing[w].at < o
  BY <1>2, <1>4, Zenon DEF Covers
<1>5. Last \in Nat /\ Objects = 1..Last /\ doing[w].at \in Nat
  <2>1. doing[w].at \in Nat
    BY <1>1, <1>2, JobFacts, Zenon
  <2> QED
    BY <1>1, <2>1, ObjectsRange, Zenon DEF DeployTyped
<1>6. CASE doing[w].at = Last
  <2>1. ASSUME NEW n \in Names, NEW o \in Objects, deployed'[n][o] # Absent
        PROVE  deployed[n][o] # Absent /\ ~ Covers(w, n, o)
    <3>1. ~ (Last < o)
      BY ONLY <1>5, o \in Objects
    <3> QED
      BY <1>4, <1>6, <2>1, <3>1, Zenon
  <2> QED
    BY <1>2, <1>3, <1>6, <2>1, DownEnds, ZenonT(60)
<1>7. CASE doing[w].at # Last
  <2>1. excused' = excused
    BY <1>7, Zenon DEF Dropped
  <2>2. doing'[w] = j
    BY <1>1, <1>3, DoingStep, ZenonT(60)
  <2>3. ASSUME NEW n \in Names, NEW o \in Objects, deployed'[n][o] # Absent, Covers(w, n, o)
        PROVE  Covers(w, n, o)'
    <3>1. doing[w].at < o /\ o \in Nat
      BY <1>4, <1>5, <2>3
    <3>2. doing[w].at + 1 < o \/ doing[w].at + 1 = o
      BY ONLY <1>5, <3>1
    <3>3. doing[w].inst.name = n
      BY <2>3, Zenon DEF Covers
    <3> QED
      BY <1>2, <1>3, <1>7, <2>2, <3>2, <3>3, Zenon DEF Covers
  <2>4. \A n \in Names, o \in Objects : deployed'[n][o] # Absent => deployed[n][o] # Absent
    BY Zenon
  <2>5. j.act = "down" /\ j.inst = doing[w].inst
    BY <1>2, <1>3, <1>7, Zenon
  <2> QED
    BY <1>2, <1>3, <1>7, <2>1, <2>3, <2>4, <2>5, DownMoves, ZenonT(60)
<1> QED
  BY <1>6, <1>7

\* The retrieved object is what is there.
LEMMA Retrieved == ASSUME DeployInv, NEW w \in DWorkers, Retrieve(w) PROVE DeployInv'
<1>1. DeployTyped
  BY DEF DeployInv
<1>2. /\ doing[w] # NoJob
      /\ UNCHANGED <<platform, exists, oname, oconf, saving, slot, downs, deployed, reading, excused>>
  BY DEF Retrieve
<1>3. doing[w].act # "none"
  BY <1>1, <1>2, Zenon DEF DeployTyped, Fits
<1>4. /\ doing[w] \in Job /\ doing[w].inst.name \in Names /\ doing[w].at \in Objects
      /\ doing[w].at \in KObjects
  BY <1>1, <1>3, JobFacts, ObjectsRange, Zenon DEF DeployTyped
<1>5. There(w) \in Int
  <2>1. deployed[doing[w].inst.name] \in [KObjects -> Int]
    BY <1>1, <1>4, ZenonT(60) DEF DeployTyped
  <2> QED
    BY <1>4, <2>1 DEF There
<1>6. PICK r : r = doing[w]
  OBVIOUS
<1>7. PICK q1 : q1 = [r EXCEPT !.looked = TRUE]
  BY ZenonT(60)
<1>8. PICK j : j = [q1 EXCEPT !.seen = There(w)]
  BY ZenonT(60)
<1>9. doing' = [doing EXCEPT ![w] = j]
  <2>1. doing' = [doing EXCEPT ![w].looked = TRUE, ![w].seen = There(w)]
    BY DEF Retrieve
  <2>2. doing \in [DWorkers -> Job]
    BY <1>1, Zenon DEF DeployTyped
  <2> QED
    BY ONLY <1>6, <1>7, <1>8, <2>1, <2>2, w \in DWorkers, ZenonT(60)
<1>10. q1 \in Job /\ q1.act = r.act /\ q1.inst = r.inst /\ q1.at = r.at
  <2>1. r \in Job
    BY <1>4, <1>6, Zenon
  <2> QED
    BY ONLY <1>7, <2>1, LookedTrue, ZenonT(60)
<1>11. j \in Job /\ j.act = r.act /\ j.inst = r.inst /\ j.at = r.at /\ j.seen = There(w)
  BY ONLY <1>5, <1>8, <1>10, SeenSet, SMT
<1>12. j.act \in {"up", "down"}
  <2>1. r.act \in {"none", "up", "down"}
    BY <1>4, <1>6, JobFields, Zenon
  <2> QED
    BY <1>3, <1>6, <1>11, <2>1, Zenon
<1>13. Fits(j)
  BY <1>4, <1>6, <1>11, <1>12, <1>3, Zenon DEF Fits
<1>14. deployed' \in [Names -> [KObjects -> Int]]
  BY <1>1, <1>2, Zenon DEF DeployTyped
<1>15. CASE doing[w].act = "down"
  <2>1. ASSUME NEW n \in Names, NEW o \in Objects, deployed'[n][o] # Absent, Covers(w, n, o)
        PROVE  Covers(w, n, o)'
    <3>1. /\ doing[w].act = "down" /\ doing[w].inst.name = n
          /\ doing[w].at < o \/ doing[w].at = o
      BY <2>1, Zenon DEF Covers
    <3>2. doing[w].at = o => There(w) # Absent
      BY <1>2, <2>1, <3>1, Zenon DEF There
    <3>3. doing'[w] = j
      BY <1>1, <1>9, <1>11, DoingStep, ZenonT(60)
    <3>4. /\ doing'[w].act = "down" /\ doing'[w].inst.name = n /\ doing'[w].at = doing[w].at
          /\ doing'[w].seen = There(w)
      BY <1>6, <1>11, <3>1, <3>3, Zenon
    <3> QED
      BY <3>1, <3>2, <3>4, Zenon DEF Covers
  <2>2. \A n \in Names, o \in Objects : deployed'[n][o] # Absent => deployed[n][o] # Absent
    BY <1>2, Zenon
  <2>3. j.act = "down" /\ j.inst = doing[w].inst
    BY <1>6, <1>11, <1>15, Zenon
  <2> QED
    BY <1>2, <1>9, <1>11, <1>13, <1>14, <1>15, <2>1, <2>2, <2>3, DownMoves, ZenonT(60)
<1>16. CASE doing[w].act # "down"
  <2>1. j.act # "down" /\ reading' \subseteq reading /\ excused \subseteq excused'
    BY <1>2, <1>6, <1>11, <1>16, Zenon
  <2>2. \A n \in Names, o \in Objects : deployed'[n][o] # Absent =>
          deployed[n][o] # Absent \/ Standing(n) \/ n \in excused'
    BY <1>2, Zenon
  <2> QED
    BY <1>2, <1>9, <1>11, <1>13, <1>14, <1>16, <2>1, <2>2, UpMoves, ZenonT(60)
<1> QED
  BY <1>15, <1>16

\* A version put by a task "up" stands, or its name is excused.
LEMMA UpPuts ==
    ASSUME DeployInv, NEW w \in DWorkers, doing[w].act = "up", Put(w, doing[w].inst.conf),
           excused' = excused \cup Stale(w)
    PROVE  /\ excused \subseteq excused' /\ deployed' \in [Names -> [KObjects -> Int]]
           /\ \A n \in Names, o \in Objects : deployed'[n][o] # Absent =>
                deployed[n][o] # Absent \/ Standing(n) \/ n \in excused'
<1>1. DeployTyped /\ doing[w].act # "none"
  BY DEF DeployInv
<1>2. doing[w] # NoJob /\ doing[w].inst.conf \in Nat
  BY <1>1, JobFacts, Zenon
<1>3. doing[w].inst.conf \in Int
  BY <1>2
<1>4. /\ deployed' \in [Names -> [KObjects -> Int]]
      /\ \A n \in Names, o \in KObjects :
           n # doing[w].inst.name \/ o # doing[w].at => deployed'[n][o] = deployed[n][o]
  BY <1>1, <1>2, <1>3, PutFacts, Zenon
<1>5. Objects \subseteq KObjects
  BY <1>1, ObjectsRange, Zenon DEF DeployTyped
<1>6. Standing(doing[w].inst.name) \/ doing[w].inst.name \in excused'
  BY Zenon DEF Stale, Standing
<1> QED
  BY <1>4, <1>5, <1>6, Zenon

\* What a step takes away was there.
LEMMA Removes ==
    ASSUME DeployInv, NEW w \in DWorkers, doing[w].act # "none", Put(w, Absent)
    PROVE  /\ deployed' \in [Names -> [KObjects -> Int]]
           /\ \A n \in Names, o \in Objects : deployed'[n][o] # Absent =>
                deployed[n][o] # Absent /\ (n # doing[w].inst.name \/ o # doing[w].at)
<1>1. DeployTyped
  BY DEF DeployInv
<1>2. doing[w] # NoJob /\ Absent \in Int
  BY <1>1, JobFacts DEF Absent
<1>3. /\ deployed' \in [Names -> [KObjects -> Int]]
      /\ deployed'[doing[w].inst.name][doing[w].at] = Absent
      /\ \A n \in Names, o \in KObjects :
           n # doing[w].inst.name \/ o # doing[w].at => deployed'[n][o] = deployed[n][o]
  BY <1>1, <1>2, PutFacts, Zenon
<1>4. Objects \subseteq KObjects
  BY <1>1, ObjectsRange, Zenon DEF DeployTyped
<1> QED
  BY <1>3, <1>4, Zenon

\* create()
LEMMA Created == ASSUME DeployInv, NEW w \in DWorkers, Create(w) PROVE DeployInv'
<1>1. doing[w].act = "up" /\ UNCHANGED <<platform, exists, oname, oconf, saving, downs>>
  BY DEF Create, Looked
<1>2. doing[w].act # "none"
  BY <1>1, ZenonT(60)
<1>3. CASE Put(w, doing[w].inst.conf) /\ Advance(w) /\ excused' = excused \cup Stale(w)
  <2>1. /\ excused \subseteq excused' /\ deployed' \in [Names -> [KObjects -> Int]]
        /\ \A n \in Names, o \in Objects : deployed'[n][o] # Absent =>
             deployed[n][o] # Absent \/ Standing(n) \/ n \in excused'
    BY <1>1, <1>3, UpPuts, Zenon
  <2> QED
    BY <1>1, <1>3, <2>1, UpAdvances
<1>4. CASE Error(w)
  BY <1>1, <1>2, <1>4, Failed, ZenonT(60)
<1> QED
  BY <1>3, <1>4, Zenon DEF Create

\* An object that is current.
LEMMA Kept == ASSUME DeployInv, NEW w \in DWorkers, Keep(w) PROVE DeployInv'
<1>1. doing[w].act = "up"
  BY DEF Keep, Looked
<1>2. /\ Advance(w)
      /\ UNCHANGED <<platform, exists, oname, oconf, saving, downs, deployed, excused>>
  BY DEF Keep
<1>3. /\ excused \subseteq excused' /\ deployed' \in [Names -> [KObjects -> Int]]
      /\ \A n \in Names, o \in Objects : deployed'[n][o] # Absent =>
           deployed[n][o] # Absent \/ Standing(n) \/ n \in excused'
  BY <1>2, Zenon DEF DeployInv, DeployTyped
<1> QED
  BY <1>1, <1>2, <1>3, UpAdvances

\* A task looks again at the object it is at.
LEMMA LooksAgain ==
    ASSUME DeployTyped, NEW w \in DWorkers, doing[w].act # "none",
           doing' = [doing EXCEPT ![w].looked = FALSE, ![w].seen = Absent]
    PROVE  \E j \in Job : doing' = [doing EXCEPT ![w] = j] /\ Fits(j) /\ j.act = doing[w].act
<1>1. /\ doing[w] \in Job /\ doing[w].inst.name \in Names /\ doing[w].at \in Objects
      /\ doing \in [DWorkers -> Job]
  BY JobFacts, Zenon DEF DeployTyped
<1>2. PICK r : r = doing[w]
  OBVIOUS
<1>3. PICK q1 : q1 = [r EXCEPT !.looked = FALSE]
  BY ZenonT(60)
<1>4. PICK j : j = [q1 EXCEPT !.seen = Absent]
  BY ZenonT(60)
<1>5. doing' = [doing EXCEPT ![w] = j]
  BY ONLY <1>1, <1>2, <1>3, <1>4, w \in DWorkers,
          doing' = [doing EXCEPT ![w].looked = FALSE, ![w].seen = Absent], ZenonT(60)
<1>6. Absent \in Int
  BY DEF Absent
<1>7. q1 \in Job /\ q1.act = r.act /\ q1.inst = r.inst /\ q1.at = r.at
  <2>1. r \in Job
    BY <1>1, <1>2, Zenon
  <2> QED
    BY ONLY <1>3, <2>1, LookedSet, ZenonT(60)
<1>8. j \in Job /\ j.act = r.act /\ j.inst = r.inst /\ j.at = r.at
  BY ONLY <1>4, <1>6, <1>7, SeenSet, SMT
<1>9. r.act \in {"none", "up", "down"}
  BY <1>1, <1>2, JobFields, Zenon
<1>10. Fits(j)
  BY <1>1, <1>2, <1>8, <1>9, Zenon DEF Fits
<1> QED
  BY <1>2, <1>5, <1>8, <1>10, Zenon

\* An object that is outdated.
LEMMA Changed == ASSUME DeployInv, NEW w \in DWorkers, Change(w) PROVE DeployInv'
<1>1. doing[w].act = "up" /\ UNCHANGED <<platform, exists, oname, oconf, saving, downs>>
  BY DEF Change, Looked
<1>2. doing[w].act # "none" /\ doing[w].act # "down"
  BY <1>1
<1>3. CASE Put(w, doing[w].inst.conf) /\ Advance(w) /\ excused' = excused \cup Stale(w)
  <2>1. /\ excused \subseteq excused' /\ deployed' \in [Names -> [KObjects -> Int]]
        /\ \A n \in Names, o \in Objects : deployed'[n][o] # Absent =>
             deployed[n][o] # Absent \/ Standing(n) \/ n \in excused'
    BY <1>1, <1>3, UpPuts, Zenon
  <2> QED
    BY <1>1, <1>3, <2>1, UpAdvances
<1>4. CASE Error(w)
  BY <1>1, <1>2, <1>4, Failed
<1>5. CASE /\ Put(w, Absent)
           /\ doing' = [doing EXCEPT ![w].looked = FALSE, ![w].seen = Absent]
           /\ UNCHANGED <<slot, reading, excused>>
  <2>1. /\ deployed' \in [Names -> [KObjects -> Int]]
        /\ \A n \in Names, o \in Objects : deployed'[n][o] # Absent => deployed[n][o] # Absent
    BY <1>2, <1>5, Removes, Zenon
  <2>2. DeployTyped
    BY DEF DeployInv
  <2>3. PICK j \in Job : doing' = [doing EXCEPT ![w] = j] /\ Fits(j) /\ j.act = doing[w].act
    BY <1>2, <1>5, <2>2, LooksAgain, Zenon
  <2>4. j.act # "down" /\ reading' \subseteq reading /\ excused \subseteq excused'
    BY <1>2, <1>5, <2>3, Zenon
  <2>5. \A n \in Names, o \in Objects : deployed'[n][o] # Absent =>
          deployed[n][o] # Absent \/ Standing(n) \/ n \in excused'
    BY <2>1, Zenon
  <2> QED
    BY <1>1, <1>2, <1>5, <2>1, <2>3, <2>4, <2>5, UpMoves, ZenonT(60)
<1> QED
  BY <1>3, <1>4, <1>5, Zenon DEF Change

\* down() of an object that was found.
LEMMA Removed == ASSUME DeployInv, NEW w \in DWorkers, Remove(w) PROVE DeployInv'
<1>1. Looked(w, "down") /\ UNCHANGED <<platform, exists, oname, oconf, saving, downs>>
  BY DEF Remove
<1>2. doing[w].act # "none"
  BY <1>1 DEF Looked
<1>3. CASE Error(w)
  BY <1>1, <1>2, <1>3, Failed, ZenonT(60)
<1>4. CASE Put(w, Absent) /\ Advance(w) /\ excused' = excused \cup Dropped(w)
  <2>1. /\ deployed' \in [Names -> [KObjects -> Int]]
        /\ \A n \in Names, o \in Objects : deployed'[n][o] # Absent =>
             deployed[n][o] # Absent /\ (n # doing[w].inst.name \/ o # doing[w].at)
    BY <1>2, <1>4, Removes, Zenon
  <2>2. \A n \in Names, o \in Objects : deployed'[n][o] # Absent =>
             /\ deployed[n][o] # Absent
             /\ \/ n # doing[w].inst.name \/ o # doing[w].at
                \/ platform # "docker" /\ doing[w].seen = Absent
    BY <2>1, Zenon
  <2> QED
    BY <1>1, <1>4, <2>1, <2>2, DownAdvances
<1> QED
  BY <1>3, <1>4, Zenon DEF Remove

\* _get_container makes the container, to be removed next.
LEMMA MadeToRemove ==
    ASSUME DeployInv, NEW w \in DWorkers, doing[w].act = "down", platform = "docker",
           Put(w, doing[w].inst.conf),
           doing' = [doing EXCEPT ![w].seen = doing[w].inst.conf],
           UNCHANGED <<platform, exists, oname, oconf, saving, slot, downs, reading, excused>>
    PROVE  DeployInv'
<1>1. DeployTyped /\ doing[w].act # "none"
  BY DEF DeployInv
<1>2. /\ doing[w] # NoJob /\ doing[w] \in Job /\ doing[w].inst.name \in Names
      /\ doing[w].at \in Objects /\ doing[w].inst.conf \in Nat
  BY <1>1, JobFacts, Zenon
<1>3. doing[w].inst.conf \in Int
  BY <1>2
<1>4. /\ deployed' \in [Names -> [KObjects -> Int]]
      /\ \A n \in Names, o \in KObjects :
           n # doing[w].inst.name \/ o # doing[w].at => deployed'[n][o] = deployed[n][o]
  BY <1>1, <1>2, <1>3, PutFacts, Zenon
<1>5. Objects \subseteq KObjects
  BY <1>1, ObjectsRange, Zenon DEF DeployTyped
<1>6. PICK r : r = doing[w]
  OBVIOUS
<1>7. PICK j : j = [r EXCEPT !.seen = r.inst.conf]
  BY ZenonT(60)
<1>8. doing' = [doing EXCEPT ![w] = j]
  <2>1. doing \in [DWorkers -> Job]
    BY <1>1, Zenon DEF DeployTyped
  <2> QED
    BY ONLY <1>6, <1>7, <2>1, w \in DWorkers, doing' = [doing EXCEPT ![w].seen = doing[w].inst.conf]
<1>9. j \in Job /\ j.act = r.act /\ j.inst = r.inst /\ j.at = r.at
  BY ONLY <1>2, <1>3, <1>6, <1>7, SeenSet, SMT
<1>10. j.act = "down" /\ j.inst = doing[w].inst /\ j.at \in Objects /\ j.inst.name \in Names
  BY <1>2, <1>6, <1>9, Zenon
<1>11. Fits(j)
  BY <1>1, <1>6, <1>9, <1>10, Zenon DEF Fits
<1>12. \A v \in DWorkers : Fits(doing[v])'
  BY <1>1, <1>8, <1>9, <1>11, FitsStep, ZenonT(60)
<1>13. Objects' = Objects
  BY Zenon DEF Objects
<1>14. ASSUME NEW v \in DWorkers, doing'[v].act = "down", NEW n, doing'[v].inst.name = n,
              NEW o \in Objects
       PROVE  Covers(v, n, o)'
  <2>1. doing'[v] # NoJob
    BY <1>14, NoJobFacts, ZenonT(60)
  <2>2. doing'[v].at \in Objects
    BY <1>12, <1>13, <2>1, Zenon DEF Fits
  <2>3. doing'[v].at = o
    <3>1. Objects = {1}
      BY DEF Objects
    <3>2. doing'[v].at \in {1} /\ o \in {1}
      BY <2>2, <3>1
    <3> QED
      BY <3>2, Zenon
  <2> QED
    BY <1>14, <2>3, Zenon DEF Covers
<1>15. \A n \in Names, o \in Objects : deployed'[n][o] # Absent =>
         \/ deployed[n][o] # Absent
         \/ n = j.inst.name /\ \A v \in DWorkers :
              doing'[v].act = "down" /\ doing'[v].inst.name = n => Covers(v, n, o)'
  BY <1>4, <1>5, <1>10, <1>14, Zenon
<1>16. ASSUME NEW n \in Names, NEW o \in Objects, deployed'[n][o] # Absent, Covers(w, n, o)
       PROVE  Covers(w, n, o)'
  <2>1. doing[w].inst.name = n
    BY <1>16, Zenon DEF Covers
  <2>2. doing'[w] = j
    BY <1>1, <1>8, <1>9, DoingStep, ZenonT(60)
  <2> QED
    BY <1>10, <1>14, <2>1, <2>2, Zenon
<1> QED
  BY <1>4, <1>8, <1>9, <1>10, <1>11, <1>15, <1>16, DownMoves, ZenonT(60)

\* down() of an object that is not there.
LEMMA MissingDone == ASSUME DeployInv, NEW w \in DWorkers, Missing(w) PROVE DeployInv'
<1>1. /\ Looked(w, "down") /\ doing[w].seen = Absent
      /\ UNCHANGED <<platform, exists, oname, oconf, saving, downs>>
  BY DEF Missing
<1>2. doing[w].act = "down" /\ doing[w].act # "none"
  BY <1>1, ZenonT(60) DEF Looked
<1>3. CASE platform = "kubernetes" /\ Advance(w) /\ excused' = excused \cup Dropped(w) /\ UNCHANGED deployed
  <2>1. platform # "docker"
    BY <1>3
  <2>2. deployed' \in [Names -> [KObjects -> Int]]
    BY <1>3, Zenon DEF DeployInv, DeployTyped
  <2>3. \A n \in Names, o \in Objects : deployed'[n][o] # Absent =>
             /\ deployed[n][o] # Absent
             /\ \/ n # doing[w].inst.name \/ o # doing[w].at
                \/ platform # "docker" /\ doing[w].seen = Absent
    BY <1>1, <1>3, <2>1, Zenon
  <2> QED
    BY <1>1, <1>3, <2>2, <2>3, DownAdvances
<1>4. CASE /\ platform = "docker" /\ Put(w, doing[w].inst.conf)
           /\ doing' = [doing EXCEPT ![w].seen = doing[w].inst.conf]
           /\ UNCHANGED <<slot, reading, excused>>
  BY <1>1, <1>2, <1>4, MadeToRemove, ZenonT(60)
<1>5. CASE Error(w)
  BY <1>1, <1>2, <1>5, Failed
<1> QED
  BY <1>3, <1>4, <1>5, Zenon DEF Missing

\* The platform does not answer.
LEMMA PlatformFailed == ASSUME DeployInv, NEW w \in DWorkers, PlatformFails(w) PROVE DeployInv'
<1>1. /\ doing[w] # NoJob /\ Error(w)
      /\ UNCHANGED <<platform, exists, oname, oconf, saving, downs>>
  BY DEF PlatformFails
<1>2. doing[w].act # "none"
  BY <1>1, Zenon DEF DeployInv, DeployTyped, Fits
<1> QED
  BY <1>1, <1>2, Failed

\* The worker dies.
LEMMA WorkerDied == ASSUME DeployInv, NEW w \in DWorkers, WorkerDies(w) PROVE DeployInv'
<1>1. /\ doing[w] # NoJob
      /\ doing' = [doing EXCEPT ![w] = NoJob] /\ reading' = reading \ {w}
      /\ UNCHANGED <<platform, exists, oname, oconf, saving, slot, deployed>>
  BY DEF WorkerDies
<1>2. /\ doing[w].act = "up" => downs' = downs
      /\ doing[w].act # "up" => downs' = downs + 1
  BY DEF WorkerDies
<1>3. excused' = excused \cup (IF doing[w].act = "down" /\ slot # doing[w].inst
                                 THEN {doing[w].inst.name} ELSE {})
  BY Zenon DEF WorkerDies
<1>4. doing[w].act \in {"up", "down"} /\ "up" # "down"
  <2>1. Fits(doing[w])
    BY Zenon DEF DeployInv, DeployTyped
  <2> QED
    BY <1>1, <2>1 DEF Fits
<1>5. CASE doing[w].act = "down"
  <2>1. excused \subseteq excused' /\ downs' = downs + 1
    BY <1>2, <1>3, <1>4, <1>5, Zenon
  <2>2. doing[w].inst.name \in excused' \/ (slot.name = doing[w].inst.name /\ downs' = downs + 1)
    BY <1>3, <1>5, <2>1, Zenon
  <2> QED
    BY <1>1, <1>5, <2>1, <2>2, DownGone, ZenonT(60)
<1>6. CASE doing[w].act = "up"
  <2>1. downs' = downs /\ excused' = excused /\ doing[w].act # "down"
    BY <1>2, <1>3, <1>4, <1>6, Zenon
  <2>2. NoJob \in Job /\ Fits(NoJob) /\ NoJob.act # "down"
    BY NoJobFacts
  <2>3. deployed' \in [Names -> [KObjects -> Int]] /\ reading' \subseteq reading /\ excused \subseteq excused'
    BY <1>1, <2>1, Zenon DEF DeployInv, DeployTyped
  <2>4. \A n \in Names, o \in Objects : deployed'[n][o] # Absent =>
          deployed[n][o] # Absent \/ Standing(n) \/ n \in excused'
    BY <1>1, Zenon
  <2> QED
    BY <1>1, <2>1, <2>2, <2>3, <2>4, UpMoves, ZenonT(60)
<1> QED
  BY <1>4, <1>5, <1>6, Zenon

\* An "up" begins with the outpost of the database.
LEMMA UpBegins == ASSUME DeployInv, NEW w \in DWorkers, BeginUp(w) PROVE DeployInv'
<1> DEFINE j == IF exists THEN Taken("up", Instance) ELSE NoJob
<1>1. DeployTyped
  BY DEF DeployInv
<1>2. /\ doing[w] = NoJob /\ doing' = [doing EXCEPT ![w] = j]
      /\ UNCHANGED <<platform, exists, oname, oconf, saving, slot, downs, deployed, reading, excused>>
  BY DEF BeginUp
<1>3. Instance \in AnyInstance /\ Instance.name \in Names
  <2>1. oname \in Names /\ oconf \in Nat
    BY <1>1, Zenon DEF DeployTyped
  <2> QED
    BY ONLY <2>1, ZenonT(60) DEF Instance, AnyInstance
<1>4. 1 \in Objects
  <2>1. Last \in Nat /\ Last \in Objects /\ Objects = 1..Last
    BY <1>1, ObjectsRange, Zenon DEF DeployTyped
  <2> QED
    BY ONLY <2>1
<1>5. "up" # "none" /\ "up" # "down" /\ "none" # "down"
  OBVIOUS
<1>6. ASSUME exists PROVE j \in Job /\ Fits(j) /\ j.act # "down"
  <2>1. j \in Job /\ j.act = "up" /\ j.inst = Instance /\ j.at = 1
    BY <1>3, <1>6, TakenFacts, Zenon
  <2> HIDE DEF j
  <2>2. Fits(j)
    BY <1>3, <1>4, <1>5, <2>1, Zenon DEF Fits
  <2> QED
    BY <1>5, <2>1, <2>2, Zenon
<1>7. ASSUME ~ exists PROVE j \in Job /\ Fits(j) /\ j.act # "down"
  BY <1>5, <1>7, NoJobFacts, Zenon
<1>8. j \in Job /\ Fits(j) /\ j.act # "down"
  BY <1>6, <1>7
<1> HIDE DEF j
<1>9. /\ doing[w].act # "down" /\ reading' \subseteq reading /\ excused \subseteq excused'
      /\ deployed' \in [Names -> [KObjects -> Int]]
  BY <1>1, <1>2, <1>5, NoJobFacts, Zenon DEF DeployTyped
<1>10. \A n \in Names, o \in Objects : deployed'[n][o] # Absent =>
         deployed[n][o] # Absent \/ Standing(n) \/ n \in excused'
  BY <1>2, Zenon
<1> QED
  BY <1>2, <1>8, <1>9, <1>10, UpMoves, ZenonT(60)

\* A save with another name fills the slot with the outpost of now.
LEMMA PreSaved == ASSUME DeployInv, NEW n \in Names, PreSave(n) PROVE DeployInv'
<1>1. /\ exists /\ saving = "" /\ n # oname /\ saving' = n /\ slot' = Instance
      /\ excused' = excused \cup Overwritten /\ reading' = {} /\ downs' = downs + 1
      /\ UNCHANGED <<platform, exists, oname, oconf, deployed, doing>>
  BY ZenonT(60) DEF PreSave
<1>2. exists' \in BOOLEAN /\ exists' /\ saving' \in Names /\ saving' # oname
  BY <1>1, Zenon DEF DeployInv, DeployTyped
<1> QED
  BY <1>1, <1>2, SlotFilled, ZenonT(60)

\* A deletion fills the slot with the outpost of now.
LEMMA Deleted == ASSUME DeployInv, Delete PROVE DeployInv'
<1>1. /\ exists /\ saving = "" /\ exists' = FALSE /\ slot' = Instance
      /\ excused' = excused \cup Overwritten /\ reading' = {} /\ downs' = downs + 1
      /\ UNCHANGED <<platform, oname, oconf, saving, deployed, doing>>
  BY ZenonT(60) DEF Delete
<1>2. exists' \in BOOLEAN /\ ~ exists' /\ saving' = ""
  BY <1>1, Zenon
<1> QED
  BY <1>1, <1>2, SlotFilled, ZenonT(60)

\* To begin with, nothing is deployed and nothing runs.
LEMMA DeployInitInv == DeployInit => DeployInv
<1> SUFFICES ASSUME DeployInit PROVE DeployInv
  OBVIOUS
<1>1. oname \in Names /\ "" \notin Names /\ platform \in {"docker", "kubernetes"}
  BY DeployAssumption, Zenon DEF DeployInit
<1>2. /\ exists = TRUE /\ oconf = 0 /\ saving = "" /\ slot = NoInstance /\ downs = 0
      /\ deployed = [n \in Names |-> [o \in KObjects |-> Absent]]
      /\ doing = [w \in DWorkers |-> NoJob] /\ reading = {} /\ excused = {}
  BY ZenonT(60) DEF DeployInit
<1>3. deployed \in [Names -> [KObjects -> Int]]
  <2>1. Absent \in Int
    BY DEF Absent
  <2> QED
    BY <1>2, <2>1, Zenon
<1>4. doing \in [DWorkers -> Job] /\ \A w \in DWorkers : Fits(doing[w])
  BY <1>2, NoJobFacts, Zenon
<1>5. NoInstance \in AnyInstance /\ 0 \in Nat
  BY DEF NoInstance, AnyInstance
<1>6. DeployTyped
  BY <1>1, <1>2, <1>3, <1>4, <1>5, Zenon DEF DeployTyped
<1>7. Objects \subseteq KObjects
  BY <1>1, ObjectsRange, Zenon
<1>8. \A n \in Names : \A o \in Objects : deployed[n][o] = Absent
  BY <1>2, <1>7, ZenonT(60)
<1>9. Cover
  BY <1>8, Zenon DEF Cover
<1>10. SlotOld /\ ReadersCover
  BY <1>2, Zenon DEF SlotOld, ReadersCover
<1> QED
  BY <1>6, <1>9, <1>10 DEF DeployInv

\* Every step keeps the invariant.
LEMMA DeployNextInv == DeployInv /\ [DeployNext]_deployVars => DeployInv'
<1> SUFFICES ASSUME DeployInv, [DeployNext]_deployVars PROVE DeployInv'
  OBVIOUS
<1>1. oconf \in Nat
  BY Zenon DEF DeployInv, DeployTyped
<1>2. CASE UNCHANGED deployVars
  BY <1>1, <1>2, NothingMoves DEF deployVars
<1>3. CASE SaveConfig
  <2>1. oconf' \in Nat
    <3>1. oconf' = oconf + 1
      BY <1>3, Zenon DEF SaveConfig
    <3> QED
      BY ONLY <1>1, <3>1
  <2> QED
    BY <1>3, <2>1, NothingMoves, ZenonT(60) DEF SaveConfig
<1>4. CASE ScheduleUp
  BY <1>1, <1>4, NothingMoves DEF ScheduleUp
<1>5. CASE PostSave
  BY <1>5, PostSaved
<1>6. CASE Delete
  BY <1>6, Deleted
<1>7. ASSUME NEW n \in Names, PreSave(n) PROVE DeployInv'
  BY <1>7, PreSaved
<1>8. ASSUME NEW w \in DWorkers,
             \/ BeginUp(w) \/ BeginDown(w) \/ Retrieve(w)
             \/ Create(w) \/ Keep(w) \/ Change(w) \/ Remove(w) \/ Missing(w)
             \/ PlatformFails(w) \/ WorkerDies(w)
      PROVE  DeployInv'
  BY <1>8, UpBegins, DownBegins, Retrieved, Created, Kept, Changed, Removed, MissingDone,
     PlatformFailed, WorkerDied
<1> QED
  BY <1>2, <1>3, <1>4, <1>5, <1>6, <1>7, <1>8, Zenon DEF DeployNext

(* Once all tasks have run, nothing is deployed under a name the outpost no
   longer has, but for the four excuses: for any number of names, workers,
   Kubernetes objects, saves, failures and crashes. *)
THEOREM TornDownTheorem == DeploySpec => []TornDown
<1>1. DeployInit => DeployInv
  BY DeployInitInv
<1>2. DeployInv /\ [DeployNext]_deployVars => DeployInv'
  BY DeployNextInv
<1>3. DeployInv => TornDown
  BY TornDownHolds
<1> QED
  BY <1>1, <1>2, <1>3, PTL DEF DeploySpec
=============================================================================
