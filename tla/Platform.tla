------------------------------ MODULE Platform ------------------------------
(***************************************************************************)
(* The IoT example's link to its cloud (user_esp_platform.c, the light's   *)
(* build): find the server by name, connect, activate or identify, ping it *)
(* with beacons, and start over when something fails.  One timer,          *)
(* client_timer, serves all waits: whoever sets it takes it from whoever   *)
(* waited before.                                                          *)
(***************************************************************************)
EXTENDS Integers

CONSTANTS
  MaxRecon,     \* failures after which another access point is tried (5)
  CountMod,     \* device_recon_count is counted modulo this (256)
  MaxLookups,   \* lookups under way at once, at most
  MaxConns      \* connections of the one espconn at once, at most

VARIABLES
  timer,        \* client_timer: its callback, or "off"
  beacon,       \* beacon_timer is armed
  station,      \* wifi_station_get_connect_status
  lookups,      \* lookups that have not answered
  known,        \* esp_server_ip is not zero
  connecting,   \* connects without a result
  open,         \* open connections
  closing,      \* espconn_disconnect was called
  ping_status,  \* the last beacon was answered
  activeflag,   \* esp_param.activeflag, in flash
  recon,        \* device_recon_count
  upgrading,    \* a download by system_upgrade_start is under way
  part,         \* pbuffer holds the first part of a message
  heard,        \* something arrived since the connection was made
  refused       \* espconn_connect refused, and its result was not looked at

vars == <<timer, beacon, station, lookups, known, connecting, open, closing, ping_status,
          activeflag, recon, upgrading, part, heard, refused>>
net == <<connecting, open, closing, heard, refused>>

PlatformAssumption == {MaxRecon, CountMod, MaxLookups, MaxConns} \subseteq Nat \ {0}

\* user_esp_platform_init after a start with this activation.
Started(a) ==
  /\ timer = "check_ip" /\ beacon = FALSE /\ station = "connecting"
  /\ lookups = 0 /\ known = FALSE /\ connecting = 0 /\ open = 0 /\ closing = FALSE
  /\ ping_status = FALSE /\ activeflag = a /\ recon = 0 /\ upgrading = FALSE
  /\ part = FALSE /\ heard = FALSE /\ refused = FALSE

Init == \E a \in BOOLEAN : Started(a)

\* system_restart and system_upgrade_reboot.
Restart(a) ==
  /\ timer' = "check_ip" /\ beacon' = FALSE /\ station' = "connecting"
  /\ lookups' = 0 /\ known' = FALSE /\ connecting' = 0 /\ open' = 0 /\ closing' = FALSE
  /\ ping_status' = FALSE /\ activeflag' = a /\ recon' = 0 /\ upgrading' = FALSE
  /\ part' = FALSE /\ heard' = FALSE /\ refused' = FALSE

-----------------------------------------------------------------------------
(* The way to the server.                                                  *)

\* The request a lookup needs may find dns.c's table full: then no callback.
gethostbyname == lookups' \in {lookups, lookups + 1} /\ lookups' <= MaxLookups

user_esp_platform_start_dns ==
  /\ known' = FALSE /\ gethostbyname
  /\ timer' = "dns_check"

\* wifi_set_opmode is left out: which interfaces are up changes nothing here.
user_esp_platform_reset_mode == timer' = "ap_change"

user_esp_platform_check_ip(reset) ==
  \/ /\ station = "got_ip"
     /\ recon' = IF reset THEN 0 ELSE recon
     /\ beacon' = FALSE
     /\ user_esp_platform_start_dns
  \/ /\ station = "failed"
     /\ user_esp_platform_reset_mode
     /\ UNCHANGED <<recon, beacon, known, lookups>>
  \/ /\ station = "connecting"
     /\ timer' = "check_ip"
     /\ UNCHANGED <<recon, beacon, known, lookups>>

\* The timer is armed with a reset_flag of 1 only at the start, when recon is 0.
CheckIpTimer ==
  /\ timer \in {"check_ip", "reconnect"}
  /\ user_esp_platform_check_ip(FALSE)
  /\ UNCHANGED <<station, net, ping_status, activeflag, upgrading, part>>

\* restart_10ms_cb of the web server, after new settings were applied: the station has
\* just been told to connect, so that user_esp_platform_check_ip(1) arms the timer.
SettingsChanged ==
  /\ station' = "connecting" /\ timer' = "check_ip"
  /\ UNCHANGED <<beacon, lookups, known, net, ping_status, activeflag, recon, upgrading, part>>

user_esp_platform_dns_check_cb ==
  /\ timer = "dns_check"
  /\ gethostbyname
  /\ UNCHANGED <<timer, beacon, station, known, net, ping_status, activeflag, recon,
                 upgrading, part>>

\* Some access point is stored, so that the loop over the numbers ends.
user_esp_platform_ap_change ==
  /\ timer = "ap_change"
  /\ timer' = "check_ip" /\ recon' = 0 /\ station' = "connecting"
  /\ UNCHANGED <<beacon, lookups, known, net, ping_status, activeflag, upgrading, part>>

dns_found_Null ==
  /\ lookups > 0 /\ lookups' = lookups - 1
  /\ recon' = (recon + 1) % CountMod
  /\ IF recon + 1 = MaxRecon THEN user_esp_platform_reset_mode ELSE UNCHANGED timer
  /\ UNCHANGED <<beacon, station, known, net, ping_status, activeflag, upgrading, part>>

\* The first answer connects; espconn_connect may refuse (no route, no memory).
dns_found_Addr ==
  /\ lookups > 0 /\ lookups' = lookups - 1
  /\ IF known
       THEN UNCHANGED <<timer, known, ping_status, connecting, refused>>
       ELSE /\ timer' = "off" /\ known' = TRUE /\ ping_status' = TRUE
            /\ \/ /\ connecting + open < MaxConns
                  /\ connecting' = connecting + 1 /\ refused' = FALSE
               \/ /\ connecting' = connecting /\ refused' = TRUE
  /\ UNCHANGED <<beacon, station, open, closing, activeflag, recon, upgrading, part, heard>>

user_esp_platform_connect_cb ==
  /\ connecting > 0
  /\ connecting' = connecting - 1 /\ open' = open + 1
  /\ recon' = 0 /\ heard' = FALSE
  /\ UNCHANGED <<timer, beacon, station, lookups, known, closing, ping_status, activeflag,
                 upgrading, part, refused>>

recon_cb ==
  /\ beacon' = FALSE /\ recon' = (recon + 1) % CountMod
  /\ IF recon + 1 = MaxRecon THEN user_esp_platform_reset_mode ELSE timer' = "reconnect"

\* Connecting failed, or an open connection broke.
user_esp_platform_recon_cb ==
  /\ \/ connecting > 0 /\ connecting' = connecting - 1 /\ UNCHANGED <<open, closing>>
     \/ open > 0 /\ open' = open - 1 /\ closing' = FALSE /\ UNCHANGED connecting
  /\ recon_cb
  /\ UNCHANGED <<station, lookups, known, ping_status, activeflag, upgrading, part, heard,
                 refused>>

\* The connection was closed, by either side.
user_esp_platform_discon_cb ==
  /\ open > 0 /\ open' = open - 1 /\ closing' = FALSE
  /\ \/ /\ station = "got_ip" /\ beacon' = FALSE
        /\ recon' = recon /\ user_esp_platform_start_dns
     \/ /\ station # "got_ip" /\ beacon' = FALSE
        /\ timer' = IF station = "failed" THEN "ap_change" ELSE "check_ip"
        /\ UNCHANGED <<recon, known, lookups>>
  /\ UNCHANGED <<station, connecting, heard, refused, ping_status, activeflag, upgrading,
                 part>>

-----------------------------------------------------------------------------
(* What the server says; every message restarts the beacon's wait.         *)

Received ==
  /\ open > 0 /\ heard' = TRUE /\ beacon' = TRUE
  /\ UNCHANGED <<station, lookups, known, connecting, open, closing, recon, refused>>

RecvPart ==
  /\ Received /\ part' = TRUE
  /\ UNCHANGED <<timer, ping_status, activeflag, upgrading>>

Whole == Received /\ part' = FALSE

RecvActivated ==
  /\ open > 0 /\ ~activeflag /\ Restart(TRUE)

\* Answers that change nothing: a failed activation, a request about the light,
\* "send message success", "device" (user_platform_timer_get), "timers".
RecvOther ==
  /\ Whole /\ UNCHANGED <<timer, ping_status, activeflag, upgrading>>

RecvPong ==
  /\ Whole /\ ping_status' = TRUE
  /\ UNCHANGED <<timer, activeflag, upgrading>>

\* system_upgrade_start refuses a second download; its request is leaked.
user_esp_platform_upgrade_begin ==
  /\ Whole /\ upgrading' = TRUE
  /\ UNCHANGED <<timer, ping_status, activeflag>>

user_esp_platform_upgrade_rsp ==
  /\ upgrading /\ upgrading' = FALSE
  /\ UNCHANGED <<timer, beacon, station, lookups, known, net, ping_status, activeflag,
                 recon, part>>

RecvReboot ==
  /\ Whole /\ timer' = "reboot"
  /\ UNCHANGED <<ping_status, activeflag, upgrading>>

RecvTimersChanged ==
  /\ Whole /\ timer' = "timer_get"
  /\ UNCHANGED <<ping_status, activeflag, upgrading>>

RebootTimer == timer = "reboot" /\ Restart(activeflag)

user_platform_timer_get ==
  /\ timer = "timer_get" /\ timer' = "off"
  /\ UNCHANGED <<beacon, station, lookups, known, net, ping_status, activeflag, recon,
                 upgrading, part>>

\* user_esp_platform_set_token of the web server.
user_esp_platform_set_token ==
  /\ activeflag /\ activeflag' = FALSE
  /\ UNCHANGED <<timer, beacon, station, lookups, known, net, ping_status, recon, upgrading,
                 part>>

\* An activation is repeated, without another wait for its answer; a beacon
\* that was not answered closes the connection.
user_esp_platform_sent_beacon ==
  /\ beacon
  /\ \/ /\ open > 0 /\ ~closing /\ ~activeflag
        /\ beacon' = FALSE /\ UNCHANGED <<ping_status, closing>>
     \/ /\ open > 0 /\ ~closing /\ activeflag /\ ~ping_status
        /\ beacon' = FALSE /\ closing' = TRUE /\ UNCHANGED ping_status
     \/ /\ open > 0 /\ ~closing /\ activeflag /\ ping_status
        /\ ping_status' = FALSE /\ beacon' = TRUE /\ UNCHANGED closing
     \/ (open = 0 \/ closing) /\ beacon' = FALSE /\ UNCHANGED <<ping_status, closing>>
  /\ UNCHANGED <<timer, station, lookups, known, connecting, open, heard, refused, activeflag,
                 recon, upgrading, part>>

\* The station of the SDK.
StationChanges(s) ==
  /\ station # s /\ station' = s
  /\ UNCHANGED <<timer, beacon, lookups, known, net, ping_status, activeflag, recon,
                 upgrading, part>>

ClientTimer ==
  \/ CheckIpTimer \/ user_esp_platform_dns_check_cb \/ user_esp_platform_ap_change
  \/ RebootTimer \/ user_platform_timer_get

ConnectionEnds == user_esp_platform_recon_cb \/ user_esp_platform_discon_cb

user_esp_platform_recv_cb ==
  \/ RecvPart \/ RecvActivated \/ RecvOther \/ RecvPong \/ user_esp_platform_upgrade_begin
  \/ RecvReboot \/ RecvTimersChanged

Next ==
  \/ ClientTimer \/ user_esp_platform_sent_beacon
  \/ SettingsChanged \/ user_esp_platform_set_token
  \/ dns_found_Null \/ dns_found_Addr
  \/ user_esp_platform_connect_cb \/ ConnectionEnds
  \/ user_esp_platform_recv_cb \/ user_esp_platform_upgrade_rsp
  \/ \E s \in {"connecting", "got_ip", "failed"} : StationChanges(s)

(* Timers run out; a connect has a result; a disconnect is carried out.    *)
Fairness ==
  /\ WF_vars(ClientTimer) /\ WF_vars(user_esp_platform_sent_beacon)
  /\ WF_vars(connecting > 0 /\ (user_esp_platform_connect_cb \/ user_esp_platform_recon_cb))
  /\ WF_vars(closing /\ ConnectionEnds)

Spec == Init /\ [][Next]_vars /\ Fairness

-----------------------------------------------------------------------------
(* The link is never given up: something is armed, asked for or open that  *)
(* leads on (client_timer and the callbacks of espconn), unless            *)
(* espconn_connect refused in user_esp_platform_dns_found, which nobody    *)
(* looks at; the activation and a pending close leave the beacon off.      *)
NeverGivenUp ==
  /\ \/ timer # "off" \/ connecting > 0 \/ open > 0 \/ refused
  /\ open = 1 /\ heard /\ activeflag =>
       beacon \/ closing \/ timer # "off" \/ connecting > 0 \/ refused

(* As long as the name of the server is answered again and again,          *)
(* connections are made again and again (user_esp_platform_dns_found),     *)
(* unless espconn_connect refuses.                                         *)
TriesOn ==
  []<><<dns_found_Addr>>_vars => []<>(connecting > 0 \/ open > 0 \/ refused)
=============================================================================
