------------------------------ MODULE OutpostLink ------------------------------
(* How a change of an outpost's configuration reaches the running outpost.

   The server (authentik/outposts: signals.py, tasks.py, consumer.py) saves the
   configuration, queues a task, and the task publishes an update to the channel
   group of the outpost's websockets.  The outpost (internal/outpost/ak: api.go,
   api_event.go) runs several goroutines around one APIController: the event
   handler reads the websocket, the health loop writes to it, either may start
   the reconnection, and the interval updater, the event handler and the USR1
   signal each refresh the configuration over the HTTP API. *)
EXTENDS Integers, FiniteSets

CONSTANTS
    Conns,      \* websockets the outpost may have at the same time, numbered
    Refreshers, \* who calls OnRefresh: "event", "interval", and "signal" (USR1)
    Routines,   \* goroutines running recentEvents at the same time
    MaxSaves,   \* bound on changes of the configuration
    MaxFailures \* bound on saves, broken connections, lost messages and failed requests together

ASSUME LinkAssumption == Conns \subseteq Nat \ {0} /\ Conns # {} /\ "event" \in Refreshers

VARIABLES
    config,       \* the version of the configuration in the database
    updates,      \* outpost_send_update tasks in the queue
    conn,         \* websocket -> [st, group, inbox]
    eventConn,    \* ac.eventConn: a websocket, or None
    isReconnecting, \* ac.wsIsReconnecting
    routine,      \* goroutine -> [pc, c]: recentEvents
    handler,      \* [pc, c]: startEventHandler
    refresh,      \* caller of OnRefresh -> the version it has fetched, or None
    applied,      \* the version the outpost serves
    failures,
    steady,       \* history: the event connection has worked since before the last save
    undone        \* history: a slower refresh put an older version back since the last save

linkVars == <<config, updates, conn, eventConn, isReconnecting, routine, handler,
              refresh, applied, failures, steady, undone>>

None == 0
Unused == [st |-> "unused", group |-> FALSE, inbox |-> 0]
NoRoutine == [pc |-> "idle", c |-> None]

Reaches(c) == c # None /\ conn[c].st = "open" /\ conn[c].group

\* The handler listens on an event connection that is in the group and stays.
Settled ==
    /\ Reaches(eventConn)
    /\ handler.c = eventConn
    /\ \A r \in Routines : routine[r] = NoRoutine

Fails == config + failures < MaxFailures /\ failures' = failures + 1

-----------------------------------------------------------------------------
(* The server. *)

\* outpost_post_save and outpost_related_post_save: the row is saved, a task queued.
SaveOutpost ==
    /\ config < MaxSaves /\ config + failures < MaxFailures
    /\ config' = config + 1
    /\ updates' = updates + 1
    /\ steady' = Settled /\ undone' = FALSE
    /\ UNCHANGED <<conn, eventConn, isReconnecting, routine, handler, refresh, applied,
                   failures>>


(* outpost_send_update: group_send publishes to the channels that are in the
   group now, and event_update writes to each of their websockets. *)
SendUpdate ==
    /\ updates > 0
    /\ updates' = updates - 1
    /\ conn' = [c \in Conns |-> IF Reaches(c) THEN [conn[c] EXCEPT !.inbox = @ + 1] ELSE conn[c]]
    /\ UNCHANGED <<config, eventConn, isReconnecting, routine, handler, refresh, applied,
                   failures, steady, undone>>

\* OutpostConsumer.connect after accept(): the channel joins the group.
Join(c) ==
    /\ conn[c].st = "open" /\ ~ conn[c].group
    /\ conn' = [conn EXCEPT ![c].group = TRUE]
    /\ UNCHANGED <<config, updates, eventConn, isReconnecting, routine, handler, refresh,
                   applied, failures, steady, undone>>

\* OutpostConsumer.disconnect: the server notices that the websocket is gone.
Leave(c) ==
    /\ conn[c].st = "broken" /\ conn[c].group
    /\ conn' = [conn EXCEPT ![c].group = FALSE]
    /\ UNCHANGED <<config, updates, eventConn, isReconnecting, routine, handler, refresh,
                   applied, failures, steady, undone>>

\* The network breaks a websocket; what was sent on it may be read or be lost.
Break(c) ==
    /\ Fails
    /\ conn[c].st = "open"
    /\ \E kept \in {0, conn[c].inbox} :
         conn' = [conn EXCEPT ![c].st = "broken", ![c].inbox = kept]
    /\ steady' = FALSE
    /\ UNCHANGED <<config, updates, eventConn, isReconnecting, routine, handler, refresh,
                   applied, undone>>

\* A websocket nothing refers to any more is closed when it is collected.
Collect(c) ==
    /\ c # eventConn /\ c # handler.c /\ \A r \in Routines : routine[r].c # c
    /\ \/ conn[c].st = "open" /\ conn' = [conn EXCEPT ![c].st = "broken", ![c].inbox = 0]
       \/ conn[c].st = "broken" /\ ~ conn[c].group /\ conn' = [conn EXCEPT ![c] = Unused]
    /\ UNCHANGED <<config, updates, eventConn, isReconnecting, routine, handler, refresh,
                   applied, failures, steady, undone>>

-----------------------------------------------------------------------------
(* recentEvents and initEvent: the reconnection. *)

Free == {r \in Routines : routine[r] = NoRoutine}

(* go ac.recentEvents(): a goroutine that finds a reconnection running ends at
   once.  Another one may pass the check before this one sets the flag. *)
Spawn ==
    \/ isReconnecting /\ UNCHANGED routine
    \/ /\ ~ isReconnecting
       /\ Free # {}
       /\ routine' = [routine EXCEPT ![CHOOSE r \in Free : TRUE].pc = "set"]

\* Mutant: the flag is left set when the connection is back.
HelloKeepsFlag(r) ==
    /\ routine[r].pc = "hello" /\ conn[routine[r].c].st = "open"
    /\ routine' = [routine EXCEPT ![r] = NoRoutine]
    /\ UNCHANGED <<config, updates, conn, eventConn, isReconnecting, handler, refresh,
                   applied, failures, steady, undone>>

SetFlag(r) ==
    /\ routine[r].pc = "set"
    /\ isReconnecting' = TRUE
    /\ routine' = [routine EXCEPT ![r].pc = "dial"]
    /\ UNCHANGED <<config, updates, conn, eventConn, handler, refresh, applied, failures, steady, undone>>

(* One attempt of retry.Do: the server accepts the websocket, which becomes the
   event connection whatever that was.  A failed Dial leaves everything as it is
   and is retried. *)
Dial(r) ==
    /\ routine[r].pc = "dial"
    /\ \E c \in Conns :
         /\ conn[c].st = "unused" /\ \A d \in Conns : conn[d].st = "unused" => c <= d
         /\ conn' = [conn EXCEPT ![c].st = "open"]
         /\ eventConn' = c
         /\ routine' = [routine EXCEPT ![r] = [pc |-> "hello", c |-> c]]
    /\ steady' = FALSE
    /\ UNCHANGED <<config, updates, isReconnecting, handler, refresh, applied, failures, undone>>

\* The hello message is written and the goroutine ends.
Hello(r) ==
    /\ routine[r].pc = "hello" /\ conn[routine[r].c].st = "open"
    /\ isReconnecting' = FALSE
    /\ routine' = [routine EXCEPT ![r] = NoRoutine]
    /\ UNCHANGED <<config, updates, conn, eventConn, handler, refresh, applied, failures,
                   steady, undone>>

HelloFails(r) ==
    /\ routine[r].pc = "hello" /\ conn[routine[r].c].st = "broken"
    /\ routine' = [routine EXCEPT ![r] = [pc |-> "dial", c |-> None]]
    /\ UNCHANGED <<config, updates, conn, eventConn, isReconnecting, handler, refresh,
                   applied, failures, steady, undone>>

\* One round of startEventHealth: a hello on the event connection, or a reconnection.
Health ==
    /\ IF eventConn # None /\ conn[eventConn].st = "open"
         THEN UNCHANGED routine
         ELSE Spawn
    /\ UNCHANGED <<config, updates, conn, eventConn, isReconnecting, handler, refresh,
                   applied, failures, steady, undone>>

-----------------------------------------------------------------------------
(* startEventHandler: it blocks in ReadJSON on the connection it found, even when
   that is replaced meanwhile. *)

HandlerRead ==
    /\ handler.pc = "idle"
    /\ IF eventConn = None
         THEN Spawn /\ UNCHANGED handler
         ELSE handler' = [pc |-> "read", c |-> eventConn] /\ UNCHANGED routine
    /\ UNCHANGED <<config, updates, conn, eventConn, isReconnecting, refresh, applied,
                   failures, steady, undone>>

\* Mutant: an update is skipped while another refresh is running.
HandlerUpdateSkips ==
    /\ handler.pc = "read" /\ conn[handler.c].inbox > 0
    /\ conn' = [conn EXCEPT ![handler.c].inbox = @ - 1]
    /\ handler' = IF \E p \in Refreshers : refresh[p] # None THEN NoRoutine
                                                           ELSE [handler EXCEPT !.pc = "refresh"]
    /\ UNCHANGED <<config, updates, eventConn, isReconnecting, routine, refresh, applied,
                   failures, steady, undone>>

\* TRIGGER_UPDATE: the handler goes on to OnRefresh.
HandlerUpdate ==
    /\ handler.pc = "read" /\ conn[handler.c].inbox > 0
    /\ conn' = [conn EXCEPT ![handler.c].inbox = @ - 1]
    /\ handler' = [handler EXCEPT !.pc = "refresh"]
    /\ UNCHANGED <<config, updates, eventConn, isReconnecting, routine, refresh, applied,
                   failures, steady, undone>>

HandlerError ==
    /\ handler.pc = "read"
    /\ conn[handler.c].st = "broken" /\ conn[handler.c].inbox = 0
    /\ Spawn
    /\ handler' = NoRoutine
    /\ UNCHANGED <<config, updates, conn, eventConn, isReconnecting, refresh, applied,
                   failures, steady, undone>>

-----------------------------------------------------------------------------
(* OnRefresh, by three callers at the same time. *)

MayRefresh(p) == p = "event" => handler.pc = "refresh"

\* The handler goes back to reading once its OnRefresh has returned.
Returned(p) == handler' = IF p = "event" THEN NoRoutine ELSE handler

\* The outpost and its providers are fetched.
Fetch(p) ==
    /\ MayRefresh(p) /\ refresh[p] = None
    /\ refresh' = [refresh EXCEPT ![p] = config + 1]
    /\ UNCHANGED <<config, updates, conn, eventConn, isReconnecting, routine, handler,
                   applied, failures, steady, undone>>

\* A request of the refresh fails: what is served stays.
FetchFails(p) ==
    /\ Fails
    /\ MayRefresh(p) /\ refresh[p] = None
    /\ steady' = (steady /\ p # "event")
    /\ Returned(p)
    /\ UNCHANGED <<config, updates, conn, eventConn, isReconnecting, routine, refresh,
                   applied, undone>>

\* Mutant: the interval updater only refreshes the outpost, not what it serves.
SwapDropped(p) ==
    /\ refresh[p] # None
    /\ applied' = IF p = "event" THEN refresh[p] - 1 ELSE applied
    /\ undone' = (undone \/ refresh[p] - 1 < applied)
    /\ refresh' = [refresh EXCEPT ![p] = None]
    /\ Returned(p)
    /\ UNCHANGED <<config, updates, conn, eventConn, isReconnecting, routine, failures, steady>>

\* Server.Refresh ends by swapping in what it has built.
Swap(p) ==
    /\ refresh[p] # None
    /\ applied' = refresh[p] - 1
    /\ undone' = (undone \/ refresh[p] - 1 < applied)
    /\ refresh' = [refresh EXCEPT ![p] = None]
    /\ Returned(p)
    /\ UNCHANGED <<config, updates, conn, eventConn, isReconnecting, routine, failures, steady>>

-----------------------------------------------------------------------------
\* NewAPIController and Start: the first refresh is done, the first websocket open or not.
LinkInit ==
    /\ config = 0 /\ applied = 0 /\ updates = 0
    /\ \E up \in BOOLEAN :
         LET first == CHOOSE c \in Conns : TRUE  r == CHOOSE q \in Routines : TRUE IN
         /\ eventConn = IF up THEN first ELSE None
         /\ conn = [c \in Conns |-> IF up /\ c = first THEN [Unused EXCEPT !.st = "open"] ELSE Unused]
         /\ routine = [q \in Routines |-> IF ~ up /\ q = r THEN [pc |-> "set", c |-> None] ELSE NoRoutine]
         /\ failures = IF up THEN 0 ELSE 1
    /\ isReconnecting = FALSE
    /\ handler = NoRoutine
    /\ refresh = [p \in Refreshers |-> None]
    /\ steady = FALSE /\ undone = FALSE

LinkNext ==
    \/ SaveOutpost \/ SendUpdate
    \/ \E c \in Conns : Join(c) \/ Leave(c) \/ Break(c) \/ Collect(c)
    \/ \E r \in Routines : SetFlag(r) \/ Dial(r) \/ Hello(r) \/ HelloFails(r)
    \/ Health
    \/ HandlerRead \/ HandlerUpdate \/ HandlerError
    \/ \E p \in Refreshers : Fetch(p) \/ FetchFails(p) \/ Swap(p)

(* Every goroutine goes on, the broker runs its tasks, and the server notices
   what happens to its websockets; nobody need save, signal or break anything. *)
Socket(c) == Join(c) \/ Leave(c) \/ Collect(c)
Reconnect(r) == SetFlag(r) \/ Dial(r) \/ Hello(r) \/ HelloFails(r)
EventHandler == HandlerRead \/ HandlerUpdate \/ HandlerError
OnRefresh(p) == Fetch(p) \/ Swap(p)

LinkFairness ==
    /\ WF_linkVars(SendUpdate) /\ WF_linkVars(Health) /\ WF_linkVars(EventHandler)
    /\ \A c \in Conns : WF_linkVars(Socket(c))
    /\ \A r \in Routines : WF_linkVars(Reconnect(r))
    /\ \A p \in Refreshers : WF_linkVars(OnRefresh(p))

LinkSpec == LinkInit /\ [][LinkNext]_linkVars /\ LinkFairness

-----------------------------------------------------------------------------
(* Properties. *)

(* Type invariant: goroutines only hold websockets that were opened, and nobody
   serves or has fetched a version that was never saved. *)
LinkTypeOK ==
    /\ config \in 0..MaxSaves /\ updates \in 0..MaxSaves
    /\ conn \in [Conns -> [st : {"unused", "open", "broken"}, group : BOOLEAN, inbox : 0..MaxSaves]]
    /\ \A c \in {eventConn, handler.c} \cup {routine[r].c : r \in Routines} :
         c # None => conn[c].st # "unused"
    /\ routine \in [Routines -> [pc : {"idle", "set", "dial", "hello"}, c : Conns \cup {None}]]
    /\ handler \in [pc : {"idle", "read", "refresh"}, c : Conns \cup {None}]
    /\ applied \in 0..config
    /\ refresh \in [Refreshers -> 0..config + 1]
    /\ failures \in 0..MaxFailures

(* While the event connection works, pushing is enough: once the update of the
   last save has been handled and no refresh is running, the outpost serves the
   last save (outpost_send_update, event_update, startEventHandler), unless a
   refresh that had started earlier finished later and put an older version back. *)
PushReaches ==
    /\ steady /\ ~ undone
    /\ updates = 0 /\ conn[eventConn].inbox = 0 /\ handler.pc # "refresh"
    /\ \A p \in Refreshers : refresh[p] = None
    => applied = config

(* However many updates are lost or undone, the interval updater brings the
   outpost to the saved configuration in the end (startIntervalUpdater). *)
Current == applied = config
ConfigConverges == <>[]Current

(* The reconnection that two goroutines may start at the same time ends with an
   event connection that is open and in the group (recentEvents, initEvent,
   startEventHealth). *)
Reconnects == <>[]Reaches(eventConn)
=============================================================================
