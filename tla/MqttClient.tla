----------------------------- MODULE MqttClient -----------------------------
(***************************************************************************)
(* The MQTT client's connection (mqtt/mqtt.c) with the station watch that  *)
(* starts and stops it (modules/wifi.c, user/user_main.c): the callbacks   *)
(* of espconn and the resolver, the 1 s timer, the application's calls and *)
(* the task they all post to, through a queue of one event.  Messages are  *)
(* counted; MqttMsg and MqttQueue say what they are.                       *)
(***************************************************************************)
EXTENDS Integers, FiniteSets

CONSTANTS
  Keepalive,     \* connect_info.keepalive, in ticks of the timer
  ReconnTimeout, \* MQTT_RECONNECT_TIMEOUT
  SendTimeout,   \* MQTT_SEND_TIMOUT
  MaxQueue,      \* bound: messages in msgQueue
  MaxFreed       \* bound: lookups whose espconn has been freed

ClientAssumption ==
  {Keepalive, ReconnTimeout, SendTimeout, MaxQueue} \subseteq Nat \ {0} /\ MaxFreed \in Nat

VARIABLES
  client,   \* the MQTT_Client
  link,     \* the espconn behind client->pCon: "null", "none", "lookup",
            \* "connecting", "up" or "closing"
  unacked,  \* a packet has been sent whose sent callback is still to come
  posted,   \* MQTT_Task has an event
  named,    \* the broker is given by name, not by address
  freed,    \* lookups under way whose argument is a freed espconn
  ap,       \* the station has an address
  last,     \* lastWifiStatus: what the application was told of it
  cause     \* history: why nothing will happen on its own

vars == <<client, link, unacked, posted, named, freed, ap, last, cause>>

Init ==
  /\ client = [connState |-> "WIFI_INIT", keepAliveTick |-> 0, reconnectTick |-> 0,
               sendTimeout |-> 0, timer |-> FALSE, queue |-> 0,
               pending |-> "none"]
  /\ link = "null"
  /\ posted = TRUE                         \* MQTT_InitClient posts once
  /\ named \in BOOLEAN
  /\ unacked = FALSE /\ ap = FALSE /\ last = FALSE
  /\ freed = 0
  /\ cause = "none"

\* What MQTT_Task and the callbacks rely on: the memory they are handed.
Sane == cause # "freed"

-----------------------------------------------------------------------------
\* mqtt_tcpclient_delete frees the espconn; a lookup keeps its address.
Deleted ==
  /\ freed' = IF link = "lookup" THEN freed + 1 ELSE freed
  /\ freed' <= MaxFreed

\* MQTT_Connect: a fresh espconn, then espconn_connect or the resolver, whose
\* results are not looked at: either may fail, and then makes no callback.
MQTT_Connect(c, outcome) ==
  /\ Deleted
  /\ client' = [c EXCEPT !.keepAliveTick = 0, !.reconnectTick = 0, !.timer = TRUE,
                         !.connState = "TCP_CONNECTING"]
  /\ \/ outcome = "lookup" /\ named /\ link' = "lookup" /\ cause' = "none"
     \/ outcome = "connect" /\ ~ named /\ link' = "connecting" /\ cause' = "none"
     \/ outcome = "refused" /\ link' = "none" /\ cause' = "refused"
  /\ unacked' = FALSE

Outcomes == {"lookup", "connect", "refused"}

\* MQTT_Disconnect: the task does it; the timer stops.
MQTT_Disconnect ==
  /\ client' = [client EXCEPT !.connState = "TCP_DISCONNECTING", !.timer = FALSE]
  /\ posted' = TRUE
  /\ UNCHANGED <<link, unacked, freed, cause>>

\* wifi_check_ip, every 0.5 or 2 s, tells the application of a change.  The
\* task and the close of a connection are done long before.
wifi_check_ip(outcome) ==
  /\ Sane /\ ap # last /\ ~ posted /\ link # "closing"
  /\ last' = ap
  /\ IF ap THEN MQTT_Connect(client, outcome) /\ UNCHANGED posted ELSE MQTT_Disconnect
  /\ UNCHANGED <<named, ap>>

StationChanges ==
  /\ ap' = ~ ap
  /\ UNCHANGED <<client, link, unacked, posted, named, freed, last, cause>>

-----------------------------------------------------------------------------
(* The callbacks.                                                           *)

\* mqtt_dns_found.
mqtt_dns_found(found, refused) ==
  /\ Sane /\ link = "lookup"
  /\ IF ~ found
       THEN /\ client' = [client EXCEPT !.connState = "TCP_RECONNECT_REQ"]
            /\ link' = "none"
            /\ UNCHANGED <<posted, cause>>
       ELSE /\ posted' = TRUE
            /\ client' = [client EXCEPT !.connState = "TCP_CONNECTING"]
            /\ link' = IF refused THEN "none" ELSE "connecting"
            /\ cause' = IF refused THEN "refused" ELSE cause
  /\ UNCHANGED <<unacked, named, freed, ap, last>>

\* The same for an espconn that has been freed: what it reads is undefined.
LateLookup ==
  /\ Sane /\ freed > 0
  /\ freed' = freed - 1
  /\ cause' = "freed"
  /\ UNCHANGED <<client, link, unacked, posted, named, ap, last>>

mqtt_tcpclient_connect_cb ==
  /\ Sane /\ link = "connecting"
  /\ link' = "up" /\ unacked' = TRUE /\ posted' = TRUE
  /\ client' = [client EXCEPT !.sendTimeout = SendTimeout, !.pending = "CONNECT",
                              !.connState = "MQTT_CONNECT_SENDING"]
  /\ UNCHANGED <<named, freed, ap, last, cause>>

\* The connection failed or was reset.
mqtt_tcpclient_recon_cb ==
  /\ Sane /\ link \in {"connecting", "up", "closing"}
  /\ link' = "none" /\ unacked' = FALSE /\ posted' = TRUE
  /\ client' = [client EXCEPT !.connState = "TCP_RECONNECT_REQ"]
  /\ UNCHANGED <<named, freed, ap, last, cause>>

\* The connection was closed, by the broker or by espconn_disconnect.
mqtt_tcpclient_discon_cb ==
  /\ Sane /\ link \in {"up", "closing"}
  /\ link' = "none" /\ unacked' = FALSE /\ posted' = TRUE
  /\ client' = [client EXCEPT !.connState = IF @ = "TCP_DISCONNECTING" THEN "TCP_DISCONNECTED"
                                            ELSE "TCP_RECONNECT_REQ"]
  /\ UNCHANGED <<named, freed, ap, last, cause>>

\* Messages queued by the application from its callbacks, as far as they fit.
Queued(q, n) == IF q + n <= MaxQueue THEN q + n ELSE MaxQueue

\* mqtt_tcpclient_recv: the CONNACK, or a message with n answers to queue.
mqtt_tcpclient_recv(connack, n) ==
  /\ Sane /\ link = "up" /\ posted' = TRUE
  /\ client' =
       IF connack /\ client.connState = "MQTT_CONNECT_SENDING" /\ client.pending = "CONNECT"
         THEN [client EXCEPT !.keepAliveTick = 0, !.connState = "MQTT_DATA",
                             !.queue = Queued(@, n)]
       ELSE IF ~ connack /\ client.connState \in {"MQTT_DATA", "MQTT_KEEPALIVE_SEND"}
         THEN [client EXCEPT !.keepAliveTick = 0, !.queue = Queued(@, n)]
       ELSE [client EXCEPT !.keepAliveTick = 0]
  /\ UNCHANGED <<link, unacked, named, freed, ap, last, cause>>

mqtt_tcpclient_sent_cb ==
  /\ Sane /\ link = "up" /\ unacked
  /\ unacked' = FALSE /\ posted' = TRUE
  /\ client' = [client EXCEPT !.sendTimeout = 0, !.keepAliveTick = 0]
  /\ UNCHANGED <<link, named, freed, ap, last, cause>>

\* MQTT_Publish, MQTT_Subscribe, MQTT_UnSubscribe, MQTT_Ping.
MQTT_Publish ==
  /\ Sane
  /\ client' = [client EXCEPT !.queue = Queued(@, 1)]
  /\ posted' = TRUE
  /\ UNCHANGED <<link, unacked, named, freed, ap, last, cause>>

-----------------------------------------------------------------------------
\* The timer changes the state but leaves the task asleep.
mqtt_timerSilent ==
  /\ Sane /\ client.timer /\ ~ posted
  /\ client' = [client EXCEPT
       !.sendTimeout = IF @ > 0 THEN @ - 1 ELSE 0,
       !.keepAliveTick = IF client.connState = "MQTT_DATA" /\ @ <= Keepalive THEN @ + 1 ELSE @,
       !.reconnectTick = IF client.connState = "TCP_RECONNECT_REQ" /\ @ <= ReconnTimeout
                           THEN @ + 1 ELSE @,
       !.connState = IF @ = "TCP_RECONNECT_REQ" /\ client.reconnectTick >= ReconnTimeout
                       THEN "TCP_RECONNECT" ELSE @]
  /\ UNCHANGED <<link, unacked, posted, named, freed, ap, last, cause>>

\* The timer's second is long enough for the task.
mqtt_timer ==
  LET c == [client EXCEPT !.sendTimeout = IF @ > 0 THEN @ - 1 ELSE 0]
      alive == client.connState = "MQTT_DATA" /\ client.keepAliveTick >= Keepalive
      again == client.connState = "TCP_RECONNECT_REQ" /\ client.reconnectTick >= ReconnTimeout
  IN  /\ Sane /\ client.timer /\ ~ posted
      /\ client' =
           CASE alive -> [c EXCEPT !.keepAliveTick = @ + 1, !.connState = "MQTT_KEEPALIVE_SEND"]
             [] again -> [c EXCEPT !.reconnectTick = 0, !.connState = "TCP_RECONNECT"]
             [] ~ alive /\ client.connState = "MQTT_DATA" -> [c EXCEPT !.keepAliveTick = @ + 1]
             [] ~ again /\ client.connState = "TCP_RECONNECT_REQ" ->
                  [c EXCEPT !.reconnectTick = @ + 1]
             [] OTHER -> c
      /\ posted' = (posted \/ alive \/ again)
      /\ UNCHANGED <<link, unacked, named, freed, ap, last, cause>>

(* MQTT_Task, by the state it finds.  espconn_send fails when the previous  *)
(* packet is still being sent, or for want of memory.                       *)

TaskReconnect(outcome) ==
  /\ client.connState = "TCP_RECONNECT"
  /\ MQTT_Connect(client, outcome)
  /\ posted' = FALSE

\* espconn_disconnect does nothing for a connection that is not there, or
\* that is being closed.
TaskDisconnect ==
  /\ client.connState \in {"TCP_DISCONNECTING", "TCP_RECONNECT_DISCONNECTING"}
  /\ link' = IF link \in {"connecting", "up"} THEN "closing" ELSE link
  /\ posted' = FALSE
  /\ UNCHANGED <<client, unacked, freed, cause>>

TaskDisconnected ==
  /\ client.connState = "TCP_DISCONNECTED"
  /\ Deleted
  /\ link' = "null" /\ posted' = FALSE
  /\ UNCHANGED <<client, unacked, cause>>

\* mqtt_send_keepalive
TaskKeepalive(sent) ==
  /\ client.connState = "MQTT_KEEPALIVE_SEND"
  /\ sent => link = "up"
  /\ client' = [client EXCEPT !.pending = "PINGREQ", !.sendTimeout = SendTimeout,
                              !.keepAliveTick = IF sent THEN 0 ELSE @,
                              !.connState = IF sent THEN "MQTT_DATA"
                                            ELSE "TCP_RECONNECT_DISCONNECTING"]
  /\ unacked' = (unacked \/ sent)
  /\ posted' = TRUE
  /\ UNCHANGED <<link, freed, cause>>

\* One message of the queue, unless one is on its way.
TaskData(sent) ==
  /\ client.connState = "MQTT_DATA"
  /\ sent => link = "up"
  /\ IF client.queue = 0 \/ client.sendTimeout # 0
       THEN UNCHANGED <<client, unacked>>
       ELSE /\ client' = [client EXCEPT !.queue = @ - 1, !.sendTimeout = SendTimeout,
                                        !.pending = "message"]
            /\ unacked' = (unacked \/ sent)
  /\ posted' = FALSE
  /\ UNCHANGED <<link, freed, cause>>

TaskNothing ==
  /\ client.connState \in {"WIFI_INIT", "TCP_RECONNECT_REQ", "TCP_CONNECTING",
                           "MQTT_CONNECT_SENDING"}
  /\ posted' = FALSE
  /\ UNCHANGED <<client, link, unacked, freed, cause>>

MQTT_Task ==
  /\ Sane /\ posted
  /\ \/ \E outcome \in Outcomes : TaskReconnect(outcome)
     \/ TaskDisconnect
     \/ TaskDisconnected
     \/ \E sent \in BOOLEAN : TaskKeepalive(sent)
     \/ \E sent \in BOOLEAN : TaskData(sent)
     \/ TaskNothing
  /\ UNCHANGED <<named, ap, last>>

-----------------------------------------------------------------------------
Next ==
  \/ MQTT_Task
  \/ mqtt_timer
  \/ MQTT_Publish
  \/ mqtt_tcpclient_sent_cb
  \/ \E connack \in BOOLEAN, n \in 0 .. 1 : mqtt_tcpclient_recv(connack, n)
  \/ mqtt_tcpclient_discon_cb
  \/ mqtt_tcpclient_recon_cb
  \/ mqtt_tcpclient_connect_cb
  \/ \E found, refused \in BOOLEAN : mqtt_dns_found(found, refused)
  \/ LateLookup
  \/ \E outcome \in Outcomes : wifi_check_ip(outcome)
  \/ StationChanges

\* The task and the timers run; the stack ends what it has begun; a broker that
\* can be reached again and again accepts, and acknowledges what it is sent,
\* not always in the very moment the keep-alive falls due.
Fairness ==
  /\ WF_vars(MQTT_Task) /\ SF_vars(mqtt_timer)
  /\ SF_vars(\E outcome \in Outcomes : wifi_check_ip(outcome))
  /\ WF_vars(link = "closing" /\ (mqtt_tcpclient_discon_cb \/ mqtt_tcpclient_recon_cb))
  /\ SF_vars(mqtt_tcpclient_connect_cb)
  /\ SF_vars(mqtt_tcpclient_recv(TRUE, 0))
  /\ SF_vars(client.connState = "MQTT_DATA" /\ mqtt_tcpclient_sent_cb)
  /\ SF_vars(mqtt_dns_found(TRUE, FALSE))

Spec == Init /\ [][Next]_vars /\ Fairness

-----------------------------------------------------------------------------
\* A station that keeps its address keeps getting its client on line: after
\* every failure the timer, the task or a callback takes the next step.  It
\* is over only if a connect or a lookup was over before it began, whose
\* result MQTT_Connect does not look at, or if a lookup ended after its
\* espconn had been freed.  And a client that stays on line does not sit on a
\* full queue, although mqtt_timer, which ends the wait for a lost sent
\* callback, does not wake the task; unless MQTT_Disconnect had stopped the
\* timer and the connect callback came before the task could disconnect.
KeepsInTouch ==
  /\ <>[](ap /\ cause = "none") => []<>(client.connState = "MQTT_DATA")
  /\ <>[](/\ Sane /\ client.timer
          /\ client.connState \in {"MQTT_DATA", "MQTT_KEEPALIVE_SEND"})
       => []<>(client.queue < MaxQueue)
=============================================================================
