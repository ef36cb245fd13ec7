----------------------------- MODULE CloudLink ------------------------------
(***************************************************************************)
(* The cloud connection of the gateway: app/user/user_tcp_client.c with    *)
(* its 100 ms loop, its DNS lookups, its espconn callbacks and the Xlink   *)
(* status callback, together with what interferes with it: smartconfig     *)
(* (app/user/user_smartconfig.c), the key's handlers (app/user/user_key.c) *)
(* and the espconn layer it drives (lwip/app/espconn.c, espconn_tcp.c).    *)
(*                                                                         *)
(* Everything runs in the SDK's tasks: a callback is one step, and espconn *)
(* delivers its disconnect and reconnect callbacks later, by a posted      *)
(* event.  The Wi-Fi, the TCP peer, the DNS server and the Xlink library   *)
(* are external: they answer or fail at any time.                          *)
(***************************************************************************)
EXTENDS Integers, TLAPS

CONSTANTS
  MaxReconn,      \* 5, the literal in user_tcp_reconnect
  DNS_TABLE_SIZE, \* the lookups that may be outstanding (DnsClient)
  Keys            \* whether the key is pressed (smartconfig, soft-AP)

ASSUME LinkAssumption ==
  /\ MaxReconn \in Nat \ {0}
  /\ DNS_TABLE_SIZE \in Nat \ {0}
  /\ Keys \in BOOLEAN

VARIABLES
  opmode, wifi,          \* wifi: STATION_GOT_IP with an address
  short,                 \* memory is short: espconn calls may fail on the spot
  link,                  \* the espconn: see Links
  remote,                \* proto.tcp->remote_ip has been set
  reconn_cnt, isConnectServer, flag_dns_discovery, isDnsFound,
  dns_timer,             \* armed
  queries,               \* lookups whose callback is still to come
  smartconfig_status, sc_timer,
  xlink,                 \* the Xlink library: "off", "tcp" or "login"
  restarting             \* user_restart is due

(* History, used by the properties only. *)
VARIABLES
  gaveup,   \* the last attempt to connect was skipped or failed on the spot
  late      \* the login flag was cleared by other than a disconnect

app == <<reconn_cnt, isConnectServer, flag_dns_discovery, isDnsFound>>
sc == <<smartconfig_status, sc_timer>>
vars == <<opmode, wifi, short, link, remote, reconn_cnt, isConnectServer,
          flag_dns_discovery, isDnsFound, dns_timer, queries,
          smartconfig_status, sc_timer, xlink, restarting, gaveup, late>>

\* no node in plink_active; ESPCONN_WAIT; a node whose tcp_connect failed
\* without ERR_RTE, which no event will ever touch; connected; and a node
\* with SIG_ESPCONN_CLOSE or SIG_ESPCONN_ERRER posted for it.
Links == {"none", "wait", "dead", "conn", "close", "err"}

Init ==
  /\ opmode \in {"STATION", "SOFTAP"} /\ wifi = FALSE /\ short = FALSE
  /\ link = "none" /\ remote = FALSE
  /\ reconn_cnt = 0 /\ isConnectServer = FALSE
  /\ flag_dns_discovery = FALSE /\ isDnsFound = FALSE
  /\ dns_timer = FALSE /\ queries = 0
  /\ smartconfig_status = FALSE /\ sc_timer = FALSE
  /\ xlink = "off" /\ restarting = FALSE
  /\ gaveup = FALSE /\ late = FALSE

-----------------------------------------------------------------------------
(* espconn: the links each call may leave behind *)

\* espconn_connect: ESPCONN_RTE without an address, ESPCONN_ISCONN while a
\* node holds the local port, else espconn_tcp_client.
espconn_connect(l) ==
  IF l # "none" \/ ~ (wifi \/ opmode = "SOFTAP") THEN {l}
  ELSE IF short THEN {"wait", "dead", "none"} ELSE {"wait"}

\* espconn_disconnect: ESPCONN_ARG without a node, ESPCONN_INPROGRESS once it
\* is closing, else espconn_client_close, whose tcp_close may fail.
espconn_disconnect(l) ==
  CASE l \in {"none", "close", "err"} -> {l}
    [] l \in {"wait", "dead"} -> {"close"}
    [] l = "conn" -> IF short THEN {"close", "conn"} ELSE {"close"}

\* The link is lost unless somebody tries again.
Abandoned(l) == l \in {"none", "dead"}

-----------------------------------------------------------------------------
(* user_tcp_client.c *)

\* reconn_cnt++; if( reconn_cnt > 5 )
LimitReached(cnt) == cnt + 1 > MaxReconn

\* user_tcp_reconnect, called by a handler that has already brought the
\* variables to the values given: nothing during smartconfig, a new lookup
\* after MaxReconn attempts, else disconnect and connect.
user_tcp_reconnect(l, cnt, server, flag, found) ==
  IF smartconfig_status
  THEN /\ reconn_cnt' = 0
       /\ isConnectServer' = server
       /\ flag_dns_discovery' = flag
       /\ isDnsFound' = found
       /\ link' = l
       /\ gaveup' = TRUE
  ELSE \E d \in espconn_disconnect(l) :
         IF LimitReached(cnt)
         THEN /\ reconn_cnt' = 0
              /\ isConnectServer' = FALSE
              /\ flag_dns_discovery' = FALSE
              /\ isDnsFound' = FALSE
              /\ link' = d
              /\ gaveup' = FALSE
         ELSE /\ reconn_cnt' = cnt + 1
              /\ isConnectServer' = server
              /\ flag_dns_discovery' = flag
              /\ isDnsFound' = found
              /\ link' \in espconn_connect(d)
              /\ gaveup' = Abandoned(link')

\* user_tcp_func_process in station mode with an address: start the lookup
\* (user_tcp_start_dns) if none was made, then XlinkSystemLoop, which may
\* report XLINK_WIFI_STA_DISCONNCT_SERVER.  (user_tcp_send_loop: see Uplink.)
FuncProcessStation(reports) ==
  LET starts == ~ flag_dns_discovery /\ ~ isDnsFound
      flag   == flag_dns_discovery \/ starts
      cnt    == IF starts THEN 0 ELSE reconn_cnt
  IN  /\ opmode = "STATION" /\ wifi
      /\ dns_timer' = (dns_timer \/ starts)
      /\ \/ /\ ~ reports
            /\ reconn_cnt' = cnt
            /\ flag_dns_discovery' = flag
            /\ UNCHANGED <<isConnectServer, isDnsFound, link, xlink, gaveup>>
         \/ /\ reports
            /\ xlink # "off"
            /\ xlink' = "off"
            /\ user_tcp_reconnect(link, cnt, FALSE, flag, isDnsFound)
      /\ UNCHANGED <<opmode, wifi, short, remote, queries, restarting, late>>
      /\ UNCHANGED sc

\* In any other mode: forget the connection.  dns_timer is left as it is.
FuncProcessOther ==
  /\ opmode # "STATION"
  /\ reconn_cnt' = 0
  /\ isConnectServer' = FALSE
  /\ flag_dns_discovery' = FALSE
  /\ isDnsFound' = FALSE
  /\ late' = (late \/ isConnectServer)
  /\ UNCHANGED <<opmode, wifi, short, link, remote, dns_timer, queries,
                 xlink, restarting, gaveup>>
  /\ UNCHANGED sc

user_tcp_func_process ==
  (\E reports \in BOOLEAN : FuncProcessStation(reports)) \/ FuncProcessOther

\* The repeating 1 s timer asks again, answer or not; a full table refuses.
user_tcp_dns_check_cb ==
  /\ dns_timer
  /\ queries < DNS_TABLE_SIZE
  /\ queries' = queries + 1
  /\ UNCHANGED <<opmode, wifi, short, link, remote, dns_timer, xlink,
                 restarting, gaveup, late>>
  /\ UNCHANGED app /\ UNCHANGED sc

\* user_tcp_dns_found with an address ...
DnsFound ==
  /\ queries > 0
  /\ queries' = queries - 1
  /\ reconn_cnt' = 0
  /\ isConnectServer' = FALSE
  /\ flag_dns_discovery' = FALSE
  /\ dns_timer' = FALSE
  /\ isDnsFound' = TRUE
  /\ remote' = TRUE
  /\ link' \in espconn_connect(link)
  /\ gaveup' = Abandoned(link')
  /\ late' = (late \/ isConnectServer)
  /\ UNCHANGED <<opmode, wifi, short, xlink, restarting>>
  /\ UNCHANGED sc

DnsFailedFound ==
  /\ queries > 0
  /\ queries' = queries - 1
  /\ reconn_cnt' = 0 /\ isConnectServer' = FALSE
  /\ flag_dns_discovery' = FALSE /\ isDnsFound' = TRUE
  /\ late' = (late \/ isConnectServer)
  /\ UNCHANGED <<opmode, wifi, short, link, remote, dns_timer, xlink,
                 restarting, gaveup>>
  /\ UNCHANGED sc

\* ... and without one.
DnsFailed ==
  /\ queries > 0
  /\ queries' = queries - 1
  /\ reconn_cnt' = 0
  /\ isConnectServer' = FALSE
  /\ flag_dns_discovery' = FALSE
  /\ late' = (late \/ isConnectServer)
  /\ UNCHANGED <<opmode, wifi, short, link, remote, isDnsFound, dns_timer,
                 xlink, restarting, gaveup>>
  /\ UNCHANGED sc

ConnectedOnce ==
  /\ link = "wait" /\ wifi
  /\ link' = "conn"
  /\ xlink' = IF xlink = "off" THEN "tcp" ELSE xlink
  /\ reconn_cnt' = 0
  /\ UNCHANGED <<opmode, wifi, short, remote, isConnectServer,
                 flag_dns_discovery, isDnsFound, dns_timer, queries,
                 restarting, gaveup, late>>
  /\ UNCHANGED sc

\* espconn_client_connect and user_tcp_connect_cb.
Connected ==
  /\ link = "wait" /\ wifi
  /\ link' = "conn"
  /\ xlink' = "tcp"
  /\ reconn_cnt' = 0
  /\ UNCHANGED <<opmode, wifi, short, remote, isConnectServer,
                 flag_dns_discovery, isDnsFound, dns_timer, queries,
                 restarting, gaveup, late>>
  /\ UNCHANGED sc

\* espconn_client_err: the attempt timed out or the connection was reset.
LinkError ==
  /\ link \in {"wait", "conn"}
  /\ link' = "err"
  /\ UNCHANGED <<opmode, wifi, short, remote, dns_timer, queries, xlink,
                 restarting, gaveup, late>>
  /\ UNCHANGED app /\ UNCHANGED sc

\* espconn_client_recv with no pbuf: the server closed the connection.
ServerCloses ==
  /\ link = "conn"
  /\ link' \in espconn_disconnect("conn")
  /\ UNCHANGED <<opmode, wifi, short, remote, dns_timer, queries, xlink,
                 restarting, gaveup, late>>
  /\ UNCHANGED app /\ UNCHANGED sc

\* SIG_ESPCONN_CLOSE: the node goes, then user_tcp_disconnect_cb.
TaskClose ==
  /\ link = "close"
  /\ xlink' = "off"
  /\ user_tcp_reconnect("none", reconn_cnt, isConnectServer,
                        flag_dns_discovery, isDnsFound)
  /\ UNCHANGED <<opmode, wifi, short, remote, dns_timer, queries, restarting,
                 late>>
  /\ UNCHANGED sc

TaskErrorIgnored ==
  /\ link = "err"
  /\ link' = "none"
  /\ UNCHANGED <<opmode, wifi, short, remote, dns_timer, queries, xlink,
                 restarting, gaveup, late>>
  /\ UNCHANGED app /\ UNCHANGED sc

\* SIG_ESPCONN_ERRER: the node goes, then user_tcp_reconnect_cb, which does
\* not tell the Xlink library.
TaskError ==
  /\ link = "err"
  /\ user_tcp_reconnect("none", reconn_cnt, isConnectServer,
                        flag_dns_discovery, isDnsFound)
  /\ UNCHANGED <<opmode, wifi, short, remote, dns_timer, queries, xlink,
                 restarting, late>>
  /\ UNCHANGED sc

\* The library, fed by user_tcp_recv_cb, reports XLINK_WIFI_STA_LOGIN_SUCCESS.
Login ==
  /\ link = "conn" /\ xlink = "tcp"
  /\ xlink' = "login"
  /\ isConnectServer' = TRUE
  /\ late' = FALSE
  /\ UNCHANGED <<opmode, wifi, short, link, remote, reconn_cnt,
                 flag_dns_discovery, isDnsFound, dns_timer, queries,
                 restarting, gaveup>>
  /\ UNCHANGED sc

-----------------------------------------------------------------------------
(* The key and smartconfig *)

\* espconn_disconnect, and xsdk_closeTCP tells the library.
user_tcp_disconnect ==
  /\ link' \in espconn_disconnect(link)
  /\ xlink' = "off"

user_smartconfig_start ==
  /\ smartconfig_status' = TRUE
  /\ sc_timer' = TRUE
  /\ opmode' = "STATION"

user_key_short_press ==
  /\ Keys
  /\ user_tcp_disconnect
  /\ user_smartconfig_start
  /\ UNCHANGED <<wifi, short, remote, dns_timer, queries, restarting, gaveup,
                 late>>
  /\ UNCHANGED app

\* user_key_long_press; the restart follows 100 ms later.
user_key_long_press ==
  /\ Keys
  /\ opmode' = "SOFTAP"
  /\ wifi' = FALSE
  /\ restarting' = TRUE
  /\ UNCHANGED <<short, link, remote, dns_timer, queries, xlink, gaveup,
                 late>>
  /\ UNCHANGED app /\ UNCHANGED sc

\* system_restart: only the mode survives, in flash.
user_restart ==
  /\ restarting
  /\ wifi' = FALSE /\ link' = "none" /\ remote' = FALSE
  /\ reconn_cnt' = 0 /\ isConnectServer' = FALSE
  /\ flag_dns_discovery' = FALSE /\ isDnsFound' = FALSE
  /\ dns_timer' = FALSE /\ queries' = 0
  /\ smartconfig_status' = FALSE /\ sc_timer' = FALSE
  /\ xlink' = "off" /\ restarting' = FALSE
  /\ gaveup' = FALSE /\ late' = FALSE
  /\ short' = FALSE
  /\ UNCHANGED opmode

\* SC_STATUS_LINK: drop the access point and join the one received.
ScLink ==
  /\ smartconfig_status
  /\ wifi' = FALSE
  /\ UNCHANGED <<opmode, short, link, remote, dns_timer, queries, xlink,
                 restarting, gaveup, late>>
  /\ UNCHANGED app /\ UNCHANGED sc

\* SC_STATUS_LINK_OVER (in user_smartconfig_done), or the 60 s are over
\* (user_smartconfig_timeout_cb): both disarm, stop and clear the status.
ScStop ==
  /\ sc_timer' = FALSE
  /\ smartconfig_status' = FALSE
  /\ UNCHANGED <<opmode, wifi, short, link, remote, dns_timer, queries,
                 xlink, restarting, gaveup, late>>
  /\ UNCHANGED app

ScLinkOver == smartconfig_status /\ wifi /\ ScStop

user_smartconfig_timeout_cb == sc_timer /\ ScStop

-----------------------------------------------------------------------------
(* The access point and the heap (external) *)

WifiChanges(b) ==
  /\ opmode = "STATION"
  /\ wifi' = b
  /\ UNCHANGED <<opmode, short, link, remote, dns_timer, queries, xlink,
                 restarting, gaveup, late>>
  /\ UNCHANGED app /\ UNCHANGED sc

MemoryChanges(b) ==
  /\ short' = b
  /\ UNCHANGED <<opmode, wifi, link, remote, dns_timer, queries, xlink,
                 restarting, gaveup, late>>
  /\ UNCHANGED app /\ UNCHANGED sc

Timers ==
  \/ user_tcp_func_process
  \/ user_tcp_dns_check_cb
  \/ user_smartconfig_timeout_cb
  \/ user_restart

Next ==
  \/ Timers
  \/ DnsFound \/ DnsFailed
  \/ Connected \/ LinkError \/ ServerCloses \/ TaskClose \/ TaskError \/ Login
  \/ user_key_short_press \/ user_key_long_press
  \/ ScLink \/ ScLinkOver
  \/ \E b \in BOOLEAN : WifiChanges(b) \/ MemoryChanges(b)

\* The SDK runs due timers and posted events.  The peers answer if they are
\* asked again and again, and the library notices in the end that it hears
\* nothing from the server.
Fairness ==
  /\ WF_vars(user_tcp_func_process)
  /\ WF_vars(user_tcp_dns_check_cb)
  /\ WF_vars(user_smartconfig_timeout_cb)
  /\ WF_vars(user_restart)
  /\ WF_vars(TaskClose \/ TaskError)
  /\ WF_vars(link # "conn" /\ FuncProcessStation(TRUE))
  /\ SF_vars(DnsFound)
  /\ SF_vars(Connected)
  /\ SF_vars(Login)

Spec == Init /\ [][Next]_vars /\ Fairness

-----------------------------------------------------------------------------
(* Properties *)

\* The reconnect counter never passes the limit that makes user_tcp_reconnect
\* look the server up again.
TypeOK ==
  /\ opmode \in {"STATION", "SOFTAP"}
  /\ link \in Links
  /\ reconn_cnt \in 0 .. MaxReconn
  /\ queries \in 0 .. DNS_TABLE_SIZE
  /\ xlink \in {"off", "tcp", "login"}
  /\ wifi \in BOOLEAN /\ short \in BOOLEAN /\ remote \in BOOLEAN
  /\ isConnectServer \in BOOLEAN /\ flag_dns_discovery \in BOOLEAN
  /\ isDnsFound \in BOOLEAN /\ dns_timer \in BOOLEAN
  /\ smartconfig_status \in BOOLEAN /\ sc_timer \in BOOLEAN
  /\ restarting \in BOOLEAN /\ gaveup \in BOOLEAN /\ late \in BOOLEAN

\* flag_dns_discovery keeps user_tcp_func_process from starting a lookup: as
\* long as it is set, the timer that repeats the lookup is running, so that
\* discovery can never be switched off for good.  And no lookup goes on
\* behind an address that has been found.
DiscoveryAlive ==
  /\ flag_dns_discovery => dns_timer
  /\ dns_timer => ~ isDnsFound

\* espconn_connect is only ever called with a resolved address: not from a
\* reconnect before the first lookup, nor from the Xlink callback.
ConnectsToResolved == (link # "none" \/ isDnsFound) => remote

\* Smartconfig suspends reconnecting, so it must end: its status is set only
\* while the 60 s timer that clears it runs.
SmartconfigTimed == smartconfig_status <=> sc_timer

\* The gateway sits without a connection, and without a lookup that would
\* bring one, only if the last attempt to reconnect was skipped for
\* smartconfig or failed on the spot: user_tcp_reconnect ignores what
\* espconn_connect returns.
NoSilentStall == (isDnsFound /\ Abandoned(link)) => gaveup

\* The library is logged in, and the gateway discards the uplink.
Forgotten == link = "conn" /\ xlink = "login" /\ ~ isConnectServer

\* That happens only if a late DNS callback, or a spell in another mode,
\* cleared isConnectServer behind the library's back.
LoginForgotten == Forgotten => late

\* The last attempt to connect was skipped or failed on the spot, and nothing
\* is left that would call user_tcp_reconnect or user_tcp_dns_found again.
Stalled ==
  gaveup /\ isDnsFound /\ Abandoned(link) /\ queries = 0 /\ xlink = "off"

\* The library has given the connection up, but it is still there: the
\* reconnect was skipped for smartconfig, or tcp_close failed.
Orphaned == link = "conn" /\ xlink = "off"

\* Once the access point stays and memory is no longer short, the gateway
\* keeps coming back on line whatever keys are pressed, unless it ends in one
\* of the three states above: there is no other way to lose the cloud for
\* good.
ComesBack ==
  <>[](/\ wifi /\ opmode = "STATION" /\ ~ short
       /\ ~ Stalled /\ ~ Forgotten /\ ~ Orphaned)
    => []<>(isConnectServer /\ link = "conn")
-----------------------------------------------------------------------------
(* Proofs.  All properties but one are inductive together with TypeOK.      *)
(* ConnectsToResolved is not: a disconnect that the Xlink library reports   *)
(* makes user_tcp_func_process connect even when there is no link, so       *)
(* Resolved says that the library too knows of a connection only once there *)
(* was one to a resolved address.                                           *)

Resolved == (link # "none" \/ isDnsFound \/ xlink # "off") => remote

\* What user_tcp_reconnect does to the variables it may change, whatever
\* the values its caller brought them to.
LEMMA Reconnect ==
  ASSUME LinkAssumption,
         NEW STATE l, l \in Links,
         NEW STATE cnt, cnt \in 0 .. MaxReconn,
         NEW STATE server, server \in BOOLEAN,
         NEW STATE flag, flag \in BOOLEAN,
         NEW STATE found, found \in BOOLEAN,
         user_tcp_reconnect(l, cnt, server, flag, found)
  PROVE  /\ reconn_cnt' \in 0 .. MaxReconn
         /\ isConnectServer' \in BOOLEAN /\ (isConnectServer' => server)
         /\ flag_dns_discovery' \in BOOLEAN /\ (flag_dns_discovery' => flag)
         /\ isDnsFound' \in BOOLEAN /\ (isDnsFound' => found)
         /\ link' \in Links
         /\ link' = "conn" => l = "conn"
         /\ gaveup' \in BOOLEAN
         /\ (isDnsFound' /\ Abandoned(link')) => gaveup'
<1> USE DEF Links
<1>1. CASE smartconfig_status
  BY <1>1 DEF user_tcp_reconnect
<1>2. CASE ~ smartconfig_status
  <2>1. PICK d \in espconn_disconnect(l) :
          IF LimitReached(cnt)
          THEN /\ reconn_cnt' = 0
               /\ isConnectServer' = FALSE
               /\ flag_dns_discovery' = FALSE
               /\ isDnsFound' = FALSE
               /\ link' = d
               /\ gaveup' = FALSE
          ELSE /\ reconn_cnt' = cnt + 1
               /\ isConnectServer' = server
               /\ flag_dns_discovery' = flag
               /\ isDnsFound' = found
               /\ link' \in espconn_connect(d)
               /\ gaveup' = Abandoned(link')
    BY <1>2, Zenon DEF user_tcp_reconnect
  <2>2. d \in Links /\ (d = "conn" => l = "conn")
    BY DEF espconn_disconnect
  <2>3. CASE LimitReached(cnt)
    <3>1. 0 \in 0 .. MaxReconn
      BY LinkAssumption
    <3> QED
      BY <2>1, <2>2, <2>3, <3>1, Zenon
  <2>4. CASE ~ LimitReached(cnt)
    <3>1. cnt + 1 \in 0 .. MaxReconn
      BY <2>4, LinkAssumption DEF LimitReached
    <3>2. link' \in Links /\ (link' = "conn" => d = "conn")
      BY <2>1, <2>2, <2>4 DEF espconn_connect
    <3>3. Abandoned(link') \in BOOLEAN
      BY DEF Abandoned
    <3>4. /\ gaveup' \in BOOLEAN
          /\ (isDnsFound' /\ Abandoned(link')) => gaveup'
      BY <2>1, <2>4, <3>3, Zenon
    <3>5. /\ reconn_cnt' \in 0 .. MaxReconn
          /\ isConnectServer' \in BOOLEAN /\ (isConnectServer' => server)
          /\ flag_dns_discovery' \in BOOLEAN /\ (flag_dns_discovery' => flag)
          /\ isDnsFound' \in BOOLEAN /\ (isDnsFound' => found)
      BY <2>1, <2>4, <3>1, Zenon
    <3> QED
      BY <2>2, <3>2, <3>4, <3>5, Zenon
  <2> QED
    BY <2>3, <2>4
<1> QED
  BY <1>1, <1>2

IInv ==
  /\ TypeOK
  /\ DiscoveryAlive
  /\ Resolved
  /\ SmartconfigTimed
  /\ NoSilentStall
  /\ LoginForgotten

\* The state after power-on, in either mode, satisfies the invariant.
LEMMA InitInv == Init => IInv
<1> SUFFICES ASSUME Init PROVE IInv
  OBVIOUS
<1> USE DEF Init
<1>1. 0 \in 0 .. MaxReconn /\ 0 \in 0 .. DNS_TABLE_SIZE
  BY LinkAssumption
<1>2. TypeOK
  BY <1>1, Zenon DEF TypeOK, Links
<1>3. DiscoveryAlive /\ SmartconfigTimed
  BY Zenon DEF DiscoveryAlive, SmartconfigTimed
<1>4. Resolved /\ NoSilentStall /\ LoginForgotten
  BY DEF Resolved, NoSilentStall, LoginForgotten, Forgotten
<1> QED
  BY <1>2, <1>3, <1>4 DEF IInv

\* Every callback, timer, key press and network event preserves it.
LEMMA StepInv == IInv /\ [Next]_vars => IInv'
<1> SUFFICES ASSUME IInv, [Next]_vars PROVE IInv'
  OBVIOUS
<1> USE LinkAssumption DEF IInv
<1>0. 0 \in 0 .. MaxReconn
  OBVIOUS
<1>1. CASE FuncProcessStation(FALSE)
  <2>1. TypeOK'
    BY <1>0, <1>1 DEF FuncProcessStation, TypeOK, sc
  <2>2. DiscoveryAlive'
    BY <1>1 DEF FuncProcessStation, TypeOK, DiscoveryAlive
  <2>3. Resolved' /\ SmartconfigTimed' /\ NoSilentStall' /\ LoginForgotten'
    BY <1>1 DEF FuncProcessStation, sc, Resolved, SmartconfigTimed,
       NoSilentStall, Abandoned, LoginForgotten, Forgotten
  <2> QED BY <2>1, <2>2, <2>3
<1>2. CASE FuncProcessStation(TRUE)
  <2> DEFINE starts == ~ flag_dns_discovery /\ ~ isDnsFound
             flag   == flag_dns_discovery \/ starts
             cnt    == IF starts THEN 0 ELSE reconn_cnt
  <2>1. /\ dns_timer' = (dns_timer \/ starts)
        /\ xlink # "off" /\ xlink' = "off"
        /\ user_tcp_reconnect(link, cnt, FALSE, flag, isDnsFound)
        /\ UNCHANGED <<opmode, wifi, short, remote, queries, restarting,
                       late>>
        /\ UNCHANGED sc
    BY <1>2, Zenon DEF FuncProcessStation
  <2>2. link \in Links /\ cnt \in 0 .. MaxReconn /\ flag \in BOOLEAN
        /\ isDnsFound \in BOOLEAN
    BY <1>0 DEF TypeOK
  <2> HIDE DEF flag, cnt
  <2>3. /\ reconn_cnt' \in 0 .. MaxReconn
        /\ isConnectServer' = FALSE
        /\ flag_dns_discovery' \in BOOLEAN /\ (flag_dns_discovery' => flag)
        /\ isDnsFound' \in BOOLEAN /\ (isDnsFound' => isDnsFound)
        /\ link' \in Links
        /\ gaveup' \in BOOLEAN
        /\ (isDnsFound' /\ Abandoned(link')) => gaveup'
    BY <2>1, <2>2, Reconnect
  <2> USE DEF flag
  <2>4. TypeOK'
    BY <2>1, <2>2, <2>3 DEF TypeOK, sc
  <2>5. DiscoveryAlive'
    <3>1. flag => dns_timer'
      BY <2>1, Zenon DEF DiscoveryAlive
    <3>2. dns_timer' => ~ isDnsFound
      BY <2>1, Zenon DEF DiscoveryAlive
    <3> QED
      BY <2>3, <3>1, <3>2, Zenon DEF DiscoveryAlive
  <2>6. Resolved' /\ SmartconfigTimed' /\ NoSilentStall' /\ LoginForgotten'
    BY <2>1, <2>3 DEF sc, Resolved, SmartconfigTimed, NoSilentStall,
       LoginForgotten, Forgotten
  <2> QED BY <2>4, <2>5, <2>6
<1>3. CASE FuncProcessOther
  BY <1>0, <1>3 DEF FuncProcessOther, sc, TypeOK, DiscoveryAlive, Resolved,
     SmartconfigTimed, NoSilentStall, LoginForgotten, Forgotten
<1>4. CASE user_tcp_dns_check_cb
  BY <1>4 DEF user_tcp_dns_check_cb, app, sc, TypeOK, DiscoveryAlive,
     Resolved, SmartconfigTimed, NoSilentStall, LoginForgotten, Forgotten
<1>5. CASE DnsFound
  <2>1. link' \in Links /\ (link' = "conn" => link = "conn")
    BY <1>5 DEF DnsFound, espconn_connect, TypeOK, Links
  <2>2. Abandoned(link') \in BOOLEAN
    BY DEF Abandoned
  <2>3. TypeOK'
    <3>1. queries' \in 0 .. DNS_TABLE_SIZE
      BY <1>5 DEF DnsFound, TypeOK
    <3>2. /\ smartconfig_status' = smartconfig_status
          /\ sc_timer' = sc_timer
      BY <1>5 DEF DnsFound, sc
    <3>3. late' \in BOOLEAN
      BY <1>5, Zenon DEF DnsFound
    <3> QED
      BY <1>0, <1>5, <2>1, <2>2, <3>1, <3>2, <3>3, Zenon DEF DnsFound, TypeOK
  <2>4. DiscoveryAlive' /\ Resolved' /\ SmartconfigTimed' /\ NoSilentStall'
    BY <1>5 DEF DnsFound, sc, DiscoveryAlive, Resolved, SmartconfigTimed,
       NoSilentStall
  <2>5. LoginForgotten'
    BY <1>5, <2>1 DEF DnsFound, TypeOK, LoginForgotten, Forgotten
  <2> QED BY <2>3, <2>4, <2>5
<1>6. CASE DnsFailed
  <2>1. queries' \in 0 .. DNS_TABLE_SIZE
    BY <1>6 DEF DnsFailed, TypeOK
  <2>2. smartconfig_status' = smartconfig_status /\ sc_timer' = sc_timer
    BY <1>6 DEF DnsFailed, sc
  <2>3. late' \in BOOLEAN
    BY <1>6, Zenon DEF DnsFailed
  <2>4. TypeOK'
    <3>1. /\ opmode' \in {"STATION", "SOFTAP"} /\ link' \in Links
          /\ reconn_cnt' \in 0 .. MaxReconn
          /\ xlink' \in {"off", "tcp", "login"}
      BY <1>0, <1>6 DEF DnsFailed, TypeOK
    <3>2. isConnectServer' \in BOOLEAN /\ flag_dns_discovery' \in BOOLEAN
      BY <1>6, Zenon DEF DnsFailed
    <3>3. /\ wifi' \in BOOLEAN /\ short' \in BOOLEAN /\ remote' \in BOOLEAN
          /\ isDnsFound' \in BOOLEAN /\ dns_timer' \in BOOLEAN
          /\ restarting' \in BOOLEAN /\ gaveup' \in BOOLEAN
      BY <1>6 DEF DnsFailed, TypeOK
    <3>4. smartconfig_status' \in BOOLEAN /\ sc_timer' \in BOOLEAN
      BY <2>2 DEF TypeOK
    <3> QED
      BY ONLY <2>1, <2>3, <3>1, <3>2, <3>3, <3>4, Zenon DEF TypeOK
  <2>5. DiscoveryAlive' /\ SmartconfigTimed'
    BY <1>6, <2>2, Zenon DEF DnsFailed, DiscoveryAlive, SmartconfigTimed
  <2>6. Resolved' /\ NoSilentStall'
    BY <1>6, Zenon DEF DnsFailed, Resolved, NoSilentStall, Abandoned
  <2>7. LoginForgotten'
    BY <1>6, Zenon DEF DnsFailed, LoginForgotten, Forgotten
  <2> QED BY <2>4, <2>5, <2>6, <2>7
<1>7. CASE Connected
  BY <1>0, <1>7 DEF Connected, sc, Links, TypeOK, DiscoveryAlive, Resolved,
     SmartconfigTimed, NoSilentStall, Abandoned, LoginForgotten, Forgotten
<1>8. CASE LinkError
  BY <1>8 DEF LinkError, app, sc, Links, TypeOK, DiscoveryAlive, Resolved,
     SmartconfigTimed, NoSilentStall, Abandoned, LoginForgotten, Forgotten
<1>9. CASE ServerCloses
  BY <1>9 DEF ServerCloses, espconn_disconnect, app, sc, Links, TypeOK,
     DiscoveryAlive, Resolved, SmartconfigTimed, NoSilentStall, Abandoned,
     LoginForgotten, Forgotten
<1>10. ASSUME user_tcp_reconnect("none", reconn_cnt, isConnectServer,
                                 flag_dns_discovery, isDnsFound),
              link # "none",
              UNCHANGED <<opmode, wifi, short, remote, dns_timer, queries,
                          restarting, late>>,
              UNCHANGED sc,
              xlink' \in {xlink, "off"}
       PROVE  IInv'
  <2>1. /\ "none" \in Links /\ reconn_cnt \in 0 .. MaxReconn
        /\ isConnectServer \in BOOLEAN /\ flag_dns_discovery \in BOOLEAN
        /\ isDnsFound \in BOOLEAN
    BY DEF TypeOK, Links
  <2>2. /\ reconn_cnt' \in 0 .. MaxReconn
        /\ isConnectServer' \in BOOLEAN /\ (isConnectServer' => isConnectServer)
        /\ flag_dns_discovery' \in BOOLEAN
        /\ flag_dns_discovery' => flag_dns_discovery
        /\ isDnsFound' \in BOOLEAN /\ (isDnsFound' => isDnsFound)
        /\ link' \in Links
        /\ link' = "conn" => "none" = "conn"
        /\ gaveup' \in BOOLEAN
        /\ (isDnsFound' /\ Abandoned(link')) => gaveup'
    BY <1>10, <2>1, Reconnect
  <2>3. smartconfig_status' = smartconfig_status /\ sc_timer' = sc_timer
    BY <1>10 DEF sc
  <2>4. TypeOK'
    <3>1. /\ isConnectServer' \in BOOLEAN /\ flag_dns_discovery' \in BOOLEAN
          /\ isDnsFound' \in BOOLEAN
      BY <2>1, <2>2, Zenon
    <3>2. xlink' \in {"off", "tcp", "login"}
      BY <1>10, Zenon DEF TypeOK
    <3>3. opmode' = opmode /\ wifi' = wifi /\ short' = short
          /\ remote' = remote /\ dns_timer' = dns_timer /\ queries' = queries
          /\ restarting' = restarting /\ late' = late
      BY <1>10
    <3> QED
      BY <2>2, <2>3, <3>1, <3>2, <3>3, Zenon DEF TypeOK
  <2>5. DiscoveryAlive' /\ SmartconfigTimed'
    <3>1. dns_timer' = dns_timer
      BY <1>10
    <3> QED
      BY <2>2, <2>3, <3>1, Zenon DEF DiscoveryAlive, SmartconfigTimed
  <2>6. Resolved' /\ NoSilentStall' /\ LoginForgotten'
    BY <1>10, <2>2 DEF Resolved, NoSilentStall, LoginForgotten, Forgotten
  <2> QED BY <2>4, <2>5, <2>6
<1>11. CASE TaskClose
  BY <1>10, <1>11 DEF TaskClose
<1>12. CASE TaskError
  BY <1>10, <1>12 DEF TaskError
<1>13. CASE Login
  BY <1>13 DEF Login, sc, TypeOK, DiscoveryAlive, Resolved,
     SmartconfigTimed, NoSilentStall, LoginForgotten, Forgotten
<1>14. CASE user_key_short_press
  BY <1>14 DEF user_key_short_press, user_tcp_disconnect,
     user_smartconfig_start, espconn_disconnect, app, Links, TypeOK,
     DiscoveryAlive, Resolved, SmartconfigTimed, NoSilentStall, Abandoned,
     LoginForgotten, Forgotten
<1>15. CASE user_key_long_press
  BY <1>15 DEF user_key_long_press, app, sc, TypeOK, DiscoveryAlive,
     Resolved, SmartconfigTimed, NoSilentStall, LoginForgotten, Forgotten
<1>16. CASE user_restart
  <2>1. TypeOK'
    <3>1. 0 \in 0 .. DNS_TABLE_SIZE
      OBVIOUS
    <3> QED
      BY <1>0, <1>16, <3>1, Zenon DEF user_restart, Links, TypeOK
  <2>2. DiscoveryAlive' /\ SmartconfigTimed'
    BY <1>16, Zenon DEF user_restart, DiscoveryAlive, SmartconfigTimed
  <2>3. Resolved' /\ NoSilentStall' /\ LoginForgotten'
    BY <1>16 DEF user_restart, Resolved, NoSilentStall, LoginForgotten,
       Forgotten
  <2> QED BY <2>1, <2>2, <2>3
<1>17. CASE ScLink
  <2>1. TypeOK'
    <3>1. /\ opmode' \in {"STATION", "SOFTAP"} /\ link' \in Links
          /\ reconn_cnt' \in 0 .. MaxReconn
          /\ queries' \in 0 .. DNS_TABLE_SIZE
          /\ xlink' \in {"off", "tcp", "login"}
      BY <1>17 DEF ScLink, app, TypeOK
    <3>2. wifi' \in BOOLEAN
      BY <1>17, Zenon DEF ScLink
    <3>3. /\ short' \in BOOLEAN /\ remote' \in BOOLEAN
          /\ isConnectServer' \in BOOLEAN /\ flag_dns_discovery' \in BOOLEAN
          /\ isDnsFound' \in BOOLEAN /\ dns_timer' \in BOOLEAN
      BY <1>17 DEF ScLink, app, TypeOK
    <3>4. /\ smartconfig_status' \in BOOLEAN /\ sc_timer' \in BOOLEAN
          /\ restarting' \in BOOLEAN /\ gaveup' \in BOOLEAN
          /\ late' \in BOOLEAN
      BY <1>17 DEF ScLink, sc, TypeOK
    <3> QED
      BY ONLY <3>1, <3>2, <3>3, <3>4, Zenon DEF TypeOK
  <2>2. DiscoveryAlive' /\ Resolved' /\ SmartconfigTimed'
    BY <1>17 DEF ScLink, app, sc, DiscoveryAlive, Resolved, SmartconfigTimed
  <2>3. NoSilentStall' /\ LoginForgotten'
    BY <1>17 DEF ScLink, app, NoSilentStall, Abandoned, LoginForgotten,
       Forgotten
  <2> QED BY <2>1, <2>2, <2>3
<1>18. CASE ScLinkOver \/ user_smartconfig_timeout_cb
  <2>1. ScStop
    BY <1>18, Zenon DEF ScLinkOver, user_smartconfig_timeout_cb
  <2>2. /\ reconn_cnt' = reconn_cnt /\ isConnectServer' = isConnectServer
        /\ flag_dns_discovery' = flag_dns_discovery
        /\ isDnsFound' = isDnsFound
    BY <2>1 DEF ScStop, app
  <2>3. /\ opmode' = opmode /\ wifi' = wifi /\ short' = short
        /\ link' = link /\ remote' = remote /\ dns_timer' = dns_timer
        /\ queries' = queries /\ xlink' = xlink /\ restarting' = restarting
        /\ gaveup' = gaveup /\ late' = late
    BY <2>1 DEF ScStop
  <2>4. sc_timer' = FALSE /\ smartconfig_status' = FALSE
    BY <2>1 DEF ScStop
  <2>5. TypeOK'
    <3>1. /\ smartconfig_status' \in BOOLEAN
          /\ sc_timer' \in BOOLEAN
      BY <2>4, Zenon
    <3>2. /\ opmode' \in {"STATION", "SOFTAP"} /\ link' \in Links
          /\ reconn_cnt' \in 0 .. MaxReconn
          /\ queries' \in 0 .. DNS_TABLE_SIZE
          /\ xlink' \in {"off", "tcp", "login"}
      BY <2>2, <2>3 DEF TypeOK
    <3>3. /\ wifi' \in BOOLEAN /\ short' \in BOOLEAN /\ remote' \in BOOLEAN
          /\ isConnectServer' \in BOOLEAN /\ flag_dns_discovery' \in BOOLEAN
          /\ isDnsFound' \in BOOLEAN /\ dns_timer' \in BOOLEAN
      BY <2>2, <2>3 DEF TypeOK
    <3>4. /\ restarting' \in BOOLEAN /\ gaveup' \in BOOLEAN
          /\ late' \in BOOLEAN
      BY <2>3 DEF TypeOK
    <3> QED
      BY ONLY <3>1, <3>2, <3>3, <3>4, Zenon DEF TypeOK
  <2>6. SmartconfigTimed'
    BY <2>4, Zenon DEF SmartconfigTimed
  <2>7. DiscoveryAlive' /\ Resolved' /\ NoSilentStall' /\ LoginForgotten'
    BY <2>2, <2>3 DEF DiscoveryAlive, Resolved, NoSilentStall,
       LoginForgotten, Forgotten, Abandoned
  <2> QED BY <2>5, <2>6, <2>7
<1>19. ASSUME NEW b \in BOOLEAN, WifiChanges(b) PROVE IInv'
  BY <1>19 DEF WifiChanges, app, sc, TypeOK, DiscoveryAlive, Resolved,
     SmartconfigTimed, NoSilentStall, LoginForgotten, Forgotten
<1>20. CASE UNCHANGED vars
  BY <1>20 DEF vars, TypeOK, DiscoveryAlive, Resolved, SmartconfigTimed,
     NoSilentStall, LoginForgotten, Forgotten
<1>21. ASSUME NEW reports \in BOOLEAN, FuncProcessStation(reports)
       PROVE  IInv'
  BY <1>1, <1>2, <1>21
<1>22. ASSUME NEW b \in BOOLEAN, MemoryChanges(b) PROVE IInv'
  BY <1>22 DEF MemoryChanges, app, sc, TypeOK, DiscoveryAlive, Resolved,
     SmartconfigTimed, NoSilentStall, LoginForgotten, Forgotten
<1> QED
  BY <1>3, <1>4, <1>5, <1>6, <1>7, <1>8, <1>9, <1>11, <1>12, <1>13, <1>14,
     <1>15, <1>16, <1>17, <1>18, <1>19, <1>20, <1>21, <1>22
  DEF Next, Timers, user_tcp_func_process

\* The inductive invariant holds in every reachable state of the gateway.
THEOREM Invariance == Spec => []IInv
  BY InitInv, StepInv, PTL DEF Spec

\* reconn_cnt never passes the limit, and the lookups never outgrow the
\* resolver's table.
THEOREM TypeCorrect == Spec => []TypeOK
<1>1. IInv => TypeOK
  BY DEF IInv
<1> QED
  BY <1>1, Invariance, PTL

\* Discovery is never switched off for good: flag_dns_discovery is set only
\* while the lookup timer runs, and the timer stops when the address is found.
THEOREM DiscoveryNeverLost == Spec => []DiscoveryAlive
<1>1. IInv => DiscoveryAlive
  BY DEF IInv
<1> QED
  BY <1>1, Invariance, PTL

\* espconn_connect is only called with a resolved address.
THEOREM OnlyResolved == Spec => []ConnectsToResolved
<1>1. IInv => ConnectsToResolved
  BY DEF IInv, Resolved, ConnectsToResolved
<1> QED
  BY <1>1, Invariance, PTL

\* Smartconfig, which suspends reconnecting, always has its timer running.
THEOREM SmartconfigEnds == Spec => []SmartconfigTimed
<1>1. IInv => SmartconfigTimed
  BY DEF IInv
<1> QED
  BY <1>1, Invariance, PTL

\* The gateway is without a link and without a lookup only after a skipped or
\* failed attempt to reconnect.
THEOREM StallsHaveACause == Spec => []NoSilentStall
<1>1. IInv => NoSilentStall
  BY DEF IInv
<1> QED
  BY <1>1, Invariance, PTL

\* A login is forgotten only through a late DNS callback or a mode change.
THEOREM ForgottenHasACause == Spec => []LoginForgotten
<1>1. IInv => LoginForgotten
  BY DEF IInv
<1> QED
  BY <1>1, Invariance, PTL
=============================================================================
