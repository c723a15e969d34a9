---------------------------- MODULE RemoteAccess ----------------------------
(***************************************************************************)
(* The remote access provider: authentik/providers/rac and the Go outpost   *)
(* internal/outpost/rac.  The last stage of the authorization flow counts   *)
(* the connection tokens of the endpoint and creates one; the browser tab   *)
(* opens a websocket with that token (RACClientConsumer); authentik asks    *)
(* one instance of every outpost of the provider for a connection; the      *)
(* instance connects to guacd and back to authentik (RACOutpostConsumer),   *)
(* which broadcasts the channel to all waiting tabs; the tab takes the      *)
(* first channel that is for it.  From then on the two consumers mirror     *)
(* data, until one of them is told to disconnect.                           *)
(*                                                                          *)
(* Channel layer messages reach a consumer in the order they were sent, and *)
(* a consumer handles one at a time, after its connect() has returned.      *)
(***************************************************************************)
EXTENDS Integers, FiniteSets, Sequences

CONSTANTS
  Sessions,        \* authenticated sessions, each of a browser
  Tabs,            \* the websocket connections of browsers
  Instances,       \* instances of outposts with the provider assigned, numbered from 1
  Assignments,     \* the functions from the running instances to their outposts
  MaxTokens,       \* bound: connection tokens ever created
  Limit            \* endpoint.maximum_connections, -1 for none

ASSUME RemoteAssumption == Limit \in Int /\ MaxTokens \in Nat

VARIABLES
  deletes,   \* provider.delete_token_on_disconnect
  outpost,   \* running instance -> the outpost it is an instance of
  session,   \* session -> "open", "ending" (pre_delete sent), "gone"
  tokens,    \* sequence of the ConnectionTokens ever created
  stage,     \* session -> the RACFinalStage request: "idle", "counted", "stale"
  tab,       \* tab -> the RACClientConsumer
  inbox,     \* tab -> messages of its channel
  link,      \* tab, instance -> the outpost's connection for the tab
  active,    \* instance -> the active_connections of its last hello
  overrun    \* a token was created after a count that another one made stale

racVars == <<deletes, outpost, session, tokens, stage, tab, inbox, link, active, overrun>>

\* dest_channel_id before an outpost's channel was taken, and the event.disconnect message; the
\* other messages of a tab name the instance whose event.outpost.connected they are.
NoInstance == 0
Disconnect == -1

Idle == [at |-> "none", token |-> 0, dest |-> NoInstance, waiting |-> FALSE, late |-> FALSE]

RemoteInit ==
  /\ deletes \in BOOLEAN
  /\ outpost \in Assignments
  /\ session \in [Sessions -> {"open", "gone"}]
  /\ tokens = <<>>
  /\ stage = [s \in Sessions |-> "idle"]
  /\ tab = [c \in Tabs |-> Idle]
  /\ inbox = [c \in Tabs |-> <<>>]
  /\ link = [c \in Tabs, i \in Instances |-> "none"]
  /\ active = [i \in Instances |-> 0]
  /\ overrun = FALSE

-----------------------------------------------------------------------------
(* Tokens and sessions                                                       *)

There(t) == tokens[t].state = "there"
SessionOf(c) == tokens[tab[c].token].session

\* ExpiringModel.filter_not_expired deletes the expired rows it meets.
Purged == [t \in DOMAIN tokens |->
             IF There(t) /\ tokens[t].lapsed THEN [tokens[t] EXCEPT !.state = "deleted"]
                                             ELSE tokens[t]]
Usable == {t \in DOMAIN tokens : There(t) /\ ~tokens[t].lapsed}

\* Variant: the limit itself is still let through.
CheckLimitExceeded(s) ==
  /\ stage[s] = "idle"
  /\ session[s] = "open"
  /\ Len(tokens) < MaxTokens
  /\ tokens' = Purged
  /\ stage' = [stage EXCEPT ![s] = IF Limit > -1 /\ Cardinality(Usable) > Limit
                                     THEN "idle" ELSE "counted"]
  /\ UNCHANGED <<deletes, outpost, session, tab, inbox, link, active, overrun>>

\* RACFinalStage.dispatch.  A request the policies of the endpoint or the limit refuse
\* ends at stage_invalid and only leaves the expired tokens deleted.
CheckLimit(s) ==
  /\ stage[s] = "idle"
  /\ session[s] = "open"
  /\ Len(tokens) < MaxTokens
  /\ tokens' = Purged
  /\ stage' = [stage EXCEPT ![s] = IF Limit > -1 /\ Cardinality(Usable) >= Limit
                                     THEN "idle" ELSE "counted"]
  /\ UNCHANGED <<deletes, outpost, session, tab, inbox, link, active, overrun>>

\* RACFinalStage.get_challenge: create the token.  Its row needs the row of the session.
CreateToken(s) ==
  /\ stage[s] \in {"counted", "stale"}
  /\ Len(tokens) < MaxTokens
  /\ stage' = [r \in Sessions |-> CASE r = s -> "idle"
                                    [] stage[r] = "counted" /\ r # s /\ session[s] # "gone" -> "stale"
                                    [] OTHER -> stage[r]]
  /\ IF session[s] = "gone"
       THEN UNCHANGED <<tokens, overrun>>
       ELSE /\ tokens' = Append(tokens, [session |-> s, state |-> "there", lapsed |-> FALSE,
                                         missed |-> session[s] = "ending"])
            /\ overrun' = (overrun \/ stage[s] = "stale")
  /\ UNCHANGED <<deletes, outpost, session, tab, inbox, link, active>>

\* Time passes the token's expiry.
Lapse(t) ==
  /\ ~tokens[t].lapsed
  /\ tokens' = [tokens EXCEPT ![t].lapsed = TRUE]
  /\ UNCHANGED <<deletes, outpost, session, stage, tab, inbox, link, active, overrun>>

\* A token is deleted through the API or by the cleanup of expired models.  The signal sends a
\* disconnect to the group of the token, which no consumer ever joins.
DeleteToken(t) ==
  /\ There(t)
  /\ tokens' = [tokens EXCEPT ![t].state = "deleted"]
  /\ UNCHANGED <<deletes, outpost, session, stage, tab, inbox, link, active, overrun>>

\* Variant: the consumer joins the group of its session after it asked for a connection.
InSessionGroupLate(c, s) == tab[c].at = "live" /\ SessionOf(c) = s

\* The members of the channel layer group of a session.
InSessionGroup(c, s) == tab[c].at \in {"joined", "live"} /\ SessionOf(c) = s

\* Deleting a session collects what it cascades to and sends pre_delete, whose handler
\* disconnects the members of the group of the session...
EndSession(s) ==
  /\ session[s] = "open"
  /\ session' = [session EXCEPT ![s] = "ending"]
  /\ inbox' = [c \in Tabs |-> IF InSessionGroup(c, s) THEN Append(inbox[c], Disconnect)
                                                      ELSE inbox[c]]
  /\ UNCHANGED <<deletes, outpost, tokens, stage, tab, link, active, overrun>>

\* ...and then deletes the rows.  A token row inserted in between was not collected and still
\* refers to the session, so the database refuses and the deletion is rolled back.
SessionDeleted(s) ==
  LET mine == {t \in DOMAIN tokens : tokens[t].session = s}
      refused == \E t \in mine : tokens[t].missed /\ There(t)
  IN
  /\ session[s] = "ending"
  /\ session' = [session EXCEPT ![s] = IF refused THEN "open" ELSE "gone"]
  /\ tokens' = [t \in DOMAIN tokens |->
                  IF t \in mine THEN [tokens[t] EXCEPT !.missed = FALSE,
                                                       !.state = IF refused THEN @ ELSE "deleted"]
                                ELSE tokens[t]]
  /\ UNCHANGED <<deletes, outpost, stage, tab, inbox, link, active, overrun>>

-----------------------------------------------------------------------------
(* The consumer of the browser                                               *)

\* RACInterface.dispatch: the page of a token of the browser's own session.
OpenPage(c, t) ==
  /\ tab[c].at = "none"
  /\ t \in Usable
  /\ session[tokens[t].session] # "gone"
  /\ tab' = [tab EXCEPT ![c].at = "page", ![c].token = t]
  /\ UNCHANGED <<deletes, outpost, session, tokens, stage, inbox, link, active, overrun>>

\* RACClientConsumer.connect: accept and join the broadcast group,
Accept(c) ==
  /\ tab[c].at = "page"
  /\ tab' = [tab EXCEPT ![c].at = "accepted", ![c].waiting = TRUE]
  /\ UNCHANGED <<deletes, outpost, session, tokens, stage, inbox, link, active, overrun>>

\* join the group of the session, perhaps while that session is being deleted,
JoinSession(c) ==
  /\ tab[c].at = "accepted"
  /\ tab' = [tab EXCEPT ![c].at = "joined", ![c].late = session[SessionOf(c)] = "ending"]
  /\ UNCHANGED <<deletes, outpost, session, tokens, stage, inbox, link, active, overrun>>

\* The instance of an outpost with the fewest active connections.
Chosen(o, i) ==
  /\ outpost[i] = o
  /\ \A j \in DOMAIN outpost : outpost[j] = o => active[i] <= active[j]

\* and init_outpost_connection: look the token up, ask one instance of every outpost, and
\* delete the token if the provider says so.
InitOutpost(c) ==
  /\ tab[c].at = "joined"
  /\ IF tab[c].token \in Usable
       THEN \E asked \in SUBSET DOMAIN outpost :
              /\ \A i \in asked : Chosen(outpost[i], i)
              /\ \A i \in DOMAIN outpost : \E j \in asked : outpost[j] = outpost[i]
              /\ \A i, j \in asked : outpost[i] = outpost[j] => i = j
              /\ link' = [p \in DOMAIN link |->
                            IF p[1] = c /\ p[2] \in asked THEN "asked" ELSE link[p]]
              /\ tab' = [tab EXCEPT ![c].at = "live"]
              /\ tokens' = IF deletes THEN [tokens EXCEPT ![tab[c].token].state = "deleted"]
                                      ELSE tokens
              /\ UNCHANGED inbox
       ELSE /\ tab' = [tab EXCEPT ![c] = [Idle EXCEPT !.at = "closed"]]
            /\ inbox' = [inbox EXCEPT ![c] = <<>>]
            /\ UNCHANGED <<link, tokens>>
  /\ UNCHANGED <<deletes, outpost, session, stage, active, overrun>>

\* Variant: disconnect() leaves its groups and tells no outpost.
CloseQuietly(c) ==
  /\ tab' = [tab EXCEPT ![c].at = "closed", ![c].waiting = FALSE]
  /\ inbox' = [inbox EXCEPT ![c] = <<>>]
  /\ UNCHANGED <<deletes, outpost, session, tokens, stage, link, active, overrun>>

\* disconnect(): tell the chosen outpost channel.  With none chosen the send raises, and
\* messages not yet handled are dropped with the consumer.
Close(c) ==
  /\ tab' = [tab EXCEPT ![c].at = "closed", ![c].waiting = FALSE]
  /\ inbox' = [inbox EXCEPT ![c] = <<>>]
  /\ link' = [p \in DOMAIN link |-> IF p = <<c, tab[c].dest>> /\ link[p] = "open"
                                      THEN "told" ELSE link[p]]
  /\ UNCHANGED <<deletes, outpost, session, tokens, stage, active, overrun>>

\* The consumer waits for its next message: event_outpost_connected has left the group.
Ready(c) == tab[c].at = "live" /\ (tab[c].waiting => tab[c].dest = NoInstance)

\* The browser closes the tab.
CloseTab(c) == Ready(c) /\ Close(c)

\* receive and event_send: data from either side, once the token has expired.
DataAfterExpiry(c) ==
  /\ Ready(c)
  /\ \E i \in Instances : link[c, i] = "open"
  /\ tokens[tab[c].token].lapsed
  /\ Close(c)

\* event_disconnect
OnDisconnect(c) ==
  /\ Ready(c)
  /\ inbox[c] # <<>> /\ Head(inbox[c]) = Disconnect
  /\ Close(c)

\* event_outpost_connected: take the channel, or tell a second one to disconnect...
OnOutpostConnected(c) ==
  /\ Ready(c)
  /\ inbox[c] # <<>> /\ Head(inbox[c]) \in Instances
  /\ inbox' = [inbox EXCEPT ![c] = Tail(@)]
  /\ IF tab[c].dest = NoInstance
       THEN /\ tab' = [tab EXCEPT ![c].dest = Head(inbox[c])]
            /\ UNCHANGED link
       ELSE /\ link' = [link EXCEPT ![<<c, Head(inbox[c])>>] =
                          IF @ = "open" THEN "told" ELSE @]
            /\ UNCHANGED tab
  /\ UNCHANGED <<deletes, outpost, session, tokens, stage, active, overrun>>

\* ...and leave the broadcast group.
LeaveGroup(c) ==
  /\ tab[c].at = "live" /\ tab[c].waiting /\ tab[c].dest # NoInstance
  /\ tab' = [tab EXCEPT ![c].waiting = FALSE]
  /\ UNCHANGED <<deletes, outpost, session, tokens, stage, inbox, link, active, overrun>>

-----------------------------------------------------------------------------
(* The outpost                                                               *)

\* RACServer.wsHandler: the connection is registered under the conn_id of the message, which the
\* server never sends, so an instance counts at most one.
Register(i) == active' = [active EXCEPT ![i] = 1]
Deregister(i) == active' = [active EXCEPT ![i] = 0]

\* NewConnection: guacd and the websocket are reached, and RACOutpostConsumer.connect broadcasts
\* the channel to the group of the waiting tabs...
Dial(c, i) ==
  /\ link[c, i] = "asked"
  /\ link' = [link EXCEPT ![<<c, i>>] = "open"]
  /\ inbox' = IF tab[c].waiting THEN [inbox EXCEPT ![c] = Append(@, i)] ELSE inbox
  /\ Register(i)
  /\ UNCHANGED <<deletes, outpost, session, tokens, stage, tab, overrun>>

\* ...or one of the two is not reached.
DialFails(c, i) ==
  /\ link[c, i] = "asked"
  /\ link' = [link EXCEPT ![<<c, i>>] = "ended"]
  /\ UNCHANGED <<deletes, outpost, session, tokens, stage, tab, inbox, active, overrun>>

\* event_disconnect of the RACOutpostConsumer: wsToGuacd passes the disconnect on and
\* onError closes the tunnel.
OutpostDisconnects(c, i) ==
  /\ link[c, i] = "told"
  /\ link' = [link EXCEPT ![<<c, i>>] = "ended"]
  /\ Deregister(i)
  /\ UNCHANGED <<deletes, outpost, session, tokens, stage, tab, inbox, overrun>>

\* guacdToWs fails: onError closes the tunnel, nobody closes the websocket or tells the tab.
GuacdFails(c, i) ==
  /\ link[c, i] = "open"
  /\ link' = [link EXCEPT ![<<c, i>>] = "dead"]
  /\ Deregister(i)
  /\ UNCHANGED <<deletes, outpost, session, tokens, stage, tab, inbox, overrun>>

-----------------------------------------------------------------------------
RemoteNext ==
  \/ \E s \in Sessions : CheckLimit(s) \/ CreateToken(s) \/ EndSession(s) \/ SessionDeleted(s)
  \/ \E t \in DOMAIN tokens : Lapse(t) \/ DeleteToken(t)
  \/ \E c \in Tabs :
       \/ \E t \in DOMAIN tokens : OpenPage(c, t)
       \/ Accept(c) \/ JoinSession(c) \/ InitOutpost(c)
       \/ OnDisconnect(c) \/ OnOutpostConnected(c) \/ LeaveGroup(c)
       \/ CloseTab(c) \/ DataAfterExpiry(c)
  \/ \E c \in Tabs, i \in Instances :
       Dial(c, i) \/ DialFails(c, i) \/ OutpostDisconnects(c, i) \/ GuacdFails(c, i)

\* The consumers, the outpost and the database finish what they have begun; guacd sends data on
\* every open connection (its sync instructions), so an expired token is noticed.
RemoteFairness ==
  /\ \A s \in Sessions : WF_racVars(SessionDeleted(s))
  /\ \A c \in Tabs :
       /\ WF_racVars(InitOutpost(c))
       /\ WF_racVars(OnDisconnect(c) \/ OnOutpostConnected(c) \/ LeaveGroup(c))
       /\ WF_racVars(DataAfterExpiry(c))
  /\ \A c \in Tabs, i \in Instances :
       /\ WF_racVars(Dial(c, i) \/ DialFails(c, i))
       /\ WF_racVars(OutpostDisconnects(c, i))

RemoteSpec == RemoteInit /\ [][RemoteNext]_racVars /\ RemoteFairness

-----------------------------------------------------------------------------
\* The rows, consumers, messages and connections are of the shapes above.
RemoteTypeOK ==
  /\ deletes \in BOOLEAN
  /\ outpost \in Assignments
  /\ session \in [Sessions -> {"open", "ending", "gone"}]
  /\ tokens \in Seq([session : Sessions, state : {"there", "deleted"}, lapsed : BOOLEAN,
                      missed : BOOLEAN])
  /\ stage \in [Sessions -> {"idle", "counted", "stale"}]
  /\ tab \in [Tabs -> [at : {"none", "page", "accepted", "joined", "live", "closed"},
                       token : 0..MaxTokens, dest : Instances \cup {NoInstance},
                       waiting : BOOLEAN, late : BOOLEAN]]
  /\ inbox \in [Tabs -> Seq(Instances \cup {Disconnect})]
  /\ link \in [Tabs \X Instances -> {"none", "asked", "open", "told", "ended", "dead"}]
  /\ active \in [Instances -> 0..1]
  /\ overrun \in BOOLEAN

\* RACFinalStage: an endpoint has no more usable tokens than its maximum_connections, unless
\* two requests were between their count and their insert at the same time.
LimitKept == Limit > -1 /\ ~overrun => Cardinality(Usable) <= Limit

Connected(c, i) == tab[c].at = "live" /\ link[c, i] = "open"

\* signals.user_session_deleted and the expiry checks of the consumers: a tab does not stay
\* connected once its session is gone or its token has expired, unless it joined the group of
\* the session between the signal and the deletion.
TabsClosed ==
  \A c \in Tabs, i \in Instances :
    []<>~(Connected(c, i) /\ (\/ tokens[tab[c].token].lapsed
                             \/ (session[SessionOf(c)] = "gone" /\ ~tab[c].late)))

\* RACClientConsumer.disconnect: when a tab that had taken an outpost's channel closes, the
\* connection to guacd behind that channel ends; with one outpost it is the only one of the tab.
GuacdReleased ==
  \A c \in Tabs, i \in Instances :
    []<>~(/\ tab[c].at = "closed" /\ tab[c].dest # NoInstance
          /\ link[c, i] = "open"
          /\ (i = tab[c].dest \/ \A j \in DOMAIN outpost : outpost[j] = outpost[i]))

\* The comment on RAC_CLIENT_GROUP_TOKEN: a connection ends when its token is deleted.
TokenEndsConnection ==
  \A c \in Tabs, i \in Instances :
    []<>~(Connected(c, i) /\ tokens[tab[c].token].state = "deleted")
=============================================================================
