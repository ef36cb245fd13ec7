----------------------------- MODULE WebServer ------------------------------
(***************************************************************************)
(* The web server of the IoT example (user_webserver.c): requests of       *)
(* several clients arrive in TCP segments at the one callback              *)
(* webserver_recv, which keeps its state in globals: the length of a       *)
(* request that came in parts, the Wi-Fi settings waiting for their 10 ms  *)
(* timer, the scan and its pages, the firmware image of a local upgrade.   *)
(* Every handler runs to its end; between two of them anything of the rest *)
(* may happen.  The light's build (LIGHT_DEVICE), allocations succeed.     *)
(***************************************************************************)
EXTENDS Integers, Sequences

CONSTANTS
  Conns,      \* connections of the clients
  Gets,       \* what the clients ask for with GET
  Posts,      \* and with POST
  MaxBody,    \* bytes in the body of a segment, at most
  MaxBytes,   \* bytes of an upgrade, at most, with those of an earlier one
  PerPage,    \* access points on one page of scan results (8)
  Scans       \* numbers of access points a scan may find

VARIABLES
  req,    \* dat_sumlength, save_data's totallength, precvbuffer; split: history
  cfg,    \* sta_conf/ap_conf, rstparm, restart_10ms; readBack: history
  sc,     \* pscaninfo, the scan under way, bss_head's length, bss; early: history
  up,     \* upgrade_lock, flag and timers, counters, image; dirty: history
  out,    \* what the last segment got: a 400, the command's effect, or both
  fault   \* which null pointer was used

vars == <<req, cfg, sc, up, out, fault>>

WebAssumption ==
  /\ MaxBody \in Nat \ {0} /\ MaxBytes \in Nat /\ PerPage \in Nat \ {0}
  /\ Scans \subseteq Nat
  /\ Gets \subseteq {"info", "wifi", "scan", "finish", "page", "other"}
  /\ Posts \subseteq {"reboot", "wifi_ssid", "wifi_empty", "light", "reset", "start",
                      "other"}

NoLen == -1     \* a request without Content-Length
NULL == [kind |-> "null"]
HeadLen == 1    \* bytes of the head of a request, when it is taken as image

\* A segment: the head of a request with the body that fits, or more body.
Segments ==
  [conn : Conns, head : {"GET"}, cmd : Gets, clen : {NoLen}, body : {0}]
    \cup [conn : Conns, head : {"POST"}, cmd : Posts, clen : 0..MaxBody,
          body : 0..MaxBody]
    \cup [conn : Conns, head : {"none"}, cmd : {"none"}, clen : {NoLen}, body : 1..MaxBody]

NoRequest == [dat |-> 0, saved |-> 0, kept |-> FALSE, split |-> FALSE]
NoConfig == [conf |-> NULL, rst |-> NULL, timer |-> FALSE, readBack |-> FALSE]
NoScan == [info |-> NULL, busy |-> FALSE, head |-> 0, bss |-> 0, early |-> FALSE]
NoUpgrade ==
  [lock |-> FALSE, flag |-> "IDLE", ready |-> FALSE, timer |-> "off", deinit |-> FALSE,
   got |-> 0, sum |-> 0, image |-> <<>>, dirty |-> FALSE]

Init ==
  /\ req = NoRequest /\ cfg = NoConfig /\ sc = NoScan /\ up = NoUpgrade
  /\ out = "none" /\ fault = "none"

\* system_restart, system_upgrade_reboot: the memory starts again.
Restarted ==
  /\ req' = NoRequest /\ cfg' = NoConfig /\ sc' = NoScan /\ up' = NoUpgrade

-----------------------------------------------------------------------------
(* Requests in parts.                                                      *)

check_data(s) == s.head = "none" \/ s.clen = NoLen \/ s.clen = s.body

\* dat_sumlength is set by check_data before it compares.
Announced(s) == IF s.head # "none" /\ s.clen # NoLen THEN s.clen ELSE req.dat

\* What save_data leaves, and whether it found the request complete.
save_data(s) ==
  LET saved == req.saved + s.body
      dat   == Announced(s)
      none  == [dat |-> 0, saved |-> 0]
  IN  IF \/ s.head # "none" /\ s.clen = NoLen /\ saved # 0
         \/ s.head = "none" /\ ~req.kept
        THEN [ok |-> FALSE, left |-> none, kept |-> FALSE]
        ELSE IF saved = dat
               THEN [ok |-> TRUE, left |-> none, kept |-> TRUE]
               ELSE [ok |-> FALSE, left |-> [dat |-> dat, saved |-> saved], kept |-> TRUE]

\* webserver_recv frees precvbuffer at its end.
Saved(s) ==
  LET d == save_data(s)
  IN  req' = [dat |-> d.left.dat, saved |-> d.left.saved, kept |-> FALSE,
              split |-> req.split /\ d.left.dat # 0]

\* The first part of a request is dropped without an answer.
Incomplete(s) ==
  /\ ~up.lock /\ ~check_data(s)
  /\ req' = [req EXCEPT !.dat = s.clen, !.split = TRUE]
  /\ out' = "none"
  /\ UNCHANGED <<cfg, sc, up, fault>>

\* A request save_data calls incomplete gets a 400 and is carried out even so.
Handled(s) ==
  /\ ~up.lock /\ check_data(s)
  /\ out' = IF save_data(s).ok THEN "done"
            ELSE IF save_data(s).kept THEN "both" ELSE "refused"

\* Without a buffer parse_url finds neither command nor file name: a 400.
Unparsed(s) ==
  /\ Handled(s) /\ ~save_data(s).kept
  /\ Saved(s)
  /\ UNCHANGED <<cfg, sc, up, fault>>

Request(s, head, cmd) ==
  /\ Handled(s) /\ save_data(s).kept /\ s.head = head /\ s.cmd = cmd

-----------------------------------------------------------------------------
(* Wi-Fi settings and restart.                                             *)

\* GET of the Wi-Fi settings borrows sta_conf and ap_conf for its answer.
GetWifi(s) ==
  /\ Request(s, "GET", "wifi") /\ Saved(s)
  /\ cfg' = [cfg EXCEPT !.conf = NULL, !.readBack = cfg.timer]
  /\ UNCHANGED <<sc, up, fault>>

PostReboot(s) ==
  /\ Request(s, "POST", "reboot") /\ Saved(s)
  /\ cfg' = [cfg EXCEPT !.rst = [kind |-> "REBOOT"], !.timer = TRUE]
  /\ UNCHANGED <<sc, up, fault>>

\* What json_parse writes: the name of the network to join, or of the own one.
wifi_station_set == [kind |-> "sta"]
wifi_softap_set == [kind |-> "ap"]

\* The settings after json_parse; without a name they stay what they are.
Parsed(cmd) ==
  IF cmd = "wifi_ssid" THEN {wifi_station_set, wifi_softap_set}
  ELSE IF cfg.conf = NULL THEN {[kind |-> "empty"]} ELSE {cfg.conf}

PostWifi(s, cmd) ==
  /\ Request(s, "POST", cmd) /\ Saved(s)
  /\ \E conf \in Parsed(cmd) :
       cfg' = IF conf.kind = "empty"
                THEN [cfg EXCEPT !.conf = NULL, !.rst = NULL, !.timer = FALSE,
                                 !.readBack = FALSE]
                ELSE [conf |-> conf, rst |-> [kind |-> "WIFI"],
                      timer |-> TRUE, readBack |-> FALSE]
  /\ UNCHANGED <<sc, up, fault>>

\* The WIFI case reads both settings without looking for NULL.
ApplyWifi ==
  /\ cfg.timer /\ cfg.rst.kind = "WIFI"
  /\ out' = "none"
  /\ \/ /\ cfg.conf = NULL
        /\ fault' = "conf" /\ cfg' = [cfg EXCEPT !.timer = FALSE]
        /\ UNCHANGED <<req, sc, up>>
     \/ /\ cfg.conf.kind = "sta"
        /\ cfg' = NoConfig /\ UNCHANGED <<req, sc, up, fault>>
     \/ /\ cfg.conf.kind = "ap"
        /\ Restarted /\ UNCHANGED fault

\* The REBOOT case waits until the client's connection is closed.  Its espconn
\* may be freed by then, so that either value of its state can be read.
AwaitClose ==
  /\ cfg.timer /\ cfg.rst.kind = "REBOOT"
  /\ cfg' \in {[cfg EXCEPT !.timer = FALSE], cfg}
  /\ out' = "none"
  /\ UNCHANGED <<req, sc, up, fault>>

restart_10ms_cb == ApplyWifi \/ AwaitClose

-----------------------------------------------------------------------------
(* The scan for access points and its pages.                               *)

Total(n) == (n + PerPage - 1) \div PerPage

GetScan(s) ==
  /\ Request(s, "GET", "scan") /\ ~sc.busy /\ Saved(s)
  /\ sc' = [sc EXCEPT !.busy = TRUE, !.early = FALSE,
              !.info = [kind |-> "scan", page_sn |-> 0, data_cnt |-> 0,
                        totalpage |-> IF sc.info = NULL THEN 0 ELSE sc.info.totalpage]]
  /\ UNCHANGED <<cfg, up, fault>>

GetFinish(s) ==
  /\ Request(s, "GET", "finish") /\ Saved(s)
  /\ sc' = [sc EXCEPT !.head = 0, !.bss = 0]
  /\ UNCHANGED <<cfg, up, fault>>

\* The entries a page prints move the cursor bss; behind the last one it is
\* NULL, and the next entry is the first.
Moved(bss, head, n) == (bss + n) % head

\* A plausible slip: the cursor forgets that entries were printed before.
PageFromStart(i, n) ==
  LET left  == sc.head - (n - 1) * PerPage
      count == IF left >= PerPage THEN PerPage ELSE left
  IN  [sc EXCEPT !.info.page_sn = n, !.bss = Moved(@, sc.head, count)]

\* json_send of a page: the counters, and the cursor when entries are printed.
Page(i, n) ==
  LET left  == sc.head - (n - 1) * PerPage
      count == IF left >= PerPage THEN PerPage ELSE left
  IN  IF i.page_sn = n
        THEN [sc EXCEPT !.info.page_sn = 0]
        ELSE IF i.data_cnt + count > sc.head
               THEN [sc EXCEPT !.info.page_sn = n]
               ELSE [sc EXCEPT !.info.page_sn = n, !.info.data_cnt = @ + count,
                               !.bss = Moved(@, sc.head, count)]

json_send_page(n) ==
  IF sc.head = 0
    THEN [sc EXCEPT !.info = NULL, !.early = @ \/ sc.busy]
    ELSE [Page(sc.info, n) EXCEPT !.early = @ \/ sc.busy]

GetPage(s) ==
  /\ Request(s, "GET", "page") /\ Saved(s)
  /\ \E n \in 1..9 :
       sc' = IF sc.info = NULL \/ n > sc.info.totalpage THEN sc ELSE json_send_page(n)
  /\ UNCHANGED <<cfg, up, fault>>

\* The scan ends: json_scan_cb writes to pscaninfo without looking for NULL.
json_scan_cb(n) ==
  /\ sc.busy
  /\ out' = "none"
  /\ IF sc.info = NULL
       THEN fault' = "scan" /\ sc' = [sc EXCEPT !.busy = FALSE]
       ELSE /\ sc' = [sc EXCEPT !.busy = FALSE, !.head = n, !.bss = 0,
                                !.info.totalpage = Total(n)]
            /\ UNCHANGED fault
  /\ UNCHANGED <<req, cfg, up>>

-----------------------------------------------------------------------------
(* Local upgrade.                                                          *)

PostStart(s) ==
  /\ Request(s, "POST", "start") /\ Saved(s)
  /\ up' = [up EXCEPT !.lock = TRUE, !.flag = "START", !.ready = TRUE, !.timer = "120 s",
                      !.image = <<>>, !.dirty = up.got # 0]
  /\ UNCHANGED <<cfg, sc, fault>>

\* The state after upgrade_check_func, called or by its timer.
upgrade_check_func(u) ==
  IF u.flag = "START"
    THEN [u EXCEPT !.timer = "off", !.flag = "IDLE", !.ready = FALSE, !.lock = FALSE]
    ELSE [u EXCEPT !.timer = "off", !.lock = IF u.flag = "FINISH" THEN FALSE ELSE @]

Tags(tag, n) == [k \in 1..n |-> tag]

\* The head of the image's request sets the length; everything else that
\* arrives, heads of other requests included, is image.
Taken(u, s) ==
  LET first == u.got = 0 /\ s.head # "none" /\ s.clen # NoLen
  IN  IF first
        THEN [u EXCEPT !.sum = s.clen, !.got = s.body, !.image = @ \o Tags(s.conn, s.body)]
        ELSE [u EXCEPT
                !.got = @ + s.body + IF s.head = "none" THEN 0 ELSE HeadLen,
                !.image = @ \o Tags("head", IF s.head = "none" THEN 0 ELSE HeadLen)
                            \o Tags(s.conn, s.body),
                !.dirty = @ \/ s.head # "none" \/ u.got = 0 \/ s.conn # u.image[1]]

local_upgrade_download(s) ==
  LET t == Taken(up, s)
  IN  IF up.got = 0 /\ s.head # "none" /\ s.clen = 0
        THEN [up EXCEPT !.sum = 0, !.timer = "10 ms"]
        ELSE IF t.got # t.sum THEN t
        ELSE upgrade_check_func([t EXCEPT !.flag = "FINISH", !.got = 0, !.sum = 0,
                                          !.deinit = TRUE])

Download(s) ==
  /\ up.lock /\ up.got + s.body + HeadLen <= MaxBytes
  /\ up' = local_upgrade_download(s)
  /\ req' = [req EXCEPT !.kept = FALSE]
  /\ out' = "none"
  /\ UNCHANGED <<cfg, sc, fault>>

UpgradeTimer ==
  /\ up.timer # "off"
  /\ up' = upgrade_check_func(up)
  /\ out' = "none"
  /\ UNCHANGED <<req, cfg, sc, fault>>

local_upgrade_deinit ==
  /\ up.deinit
  /\ up' = [up EXCEPT !.deinit = FALSE, !.ready = IF up.flag # "START" THEN FALSE ELSE @]
  /\ out' = "none"
  /\ UNCHANGED <<req, cfg, sc, fault>>

-----------------------------------------------------------------------------
(* Requests without state: answers, the light, an unknown file name.       *)
Answered(s) ==
  /\ \/ \E cmd \in {"info", "other"} : Request(s, "GET", cmd)
     \/ \E cmd \in {"light", "other"} : Request(s, "POST", cmd)
  /\ Saved(s)
  /\ UNCHANGED <<cfg, sc, up, fault>>

PostReset(s) ==
  /\ Request(s, "POST", "reset")
  /\ Restarted /\ UNCHANGED fault

webserver_recv(s) ==
  \/ Incomplete(s) \/ Unparsed(s) \/ Answered(s) \/ GetWifi(s) \/ GetScan(s)
  \/ GetFinish(s) \/ GetPage(s) \/ PostReboot(s) \/ PostReset(s) \/ PostStart(s)
  \/ PostWifi(s, "wifi_ssid") \/ PostWifi(s, "wifi_empty") \/ Download(s)

\* The use of a null pointer is an exception, which resets the chip.
Exception ==
  /\ fault # "none" /\ fault' = "none"
  /\ Restarted /\ out' = "none"

Next ==
  \/ Exception
  \/ /\ fault = "none"
     /\ \/ \E s \in Segments : webserver_recv(s)
        \/ restart_10ms_cb \/ UpgradeTimer \/ local_upgrade_deinit
        \/ \E n \in Scans : json_scan_cb(n)

\* Armed timers run out, and an exception is taken.
Fairness == WF_vars(fault = "none" /\ UpgradeTimer) /\ WF_vars(Exception)

Spec == Init /\ [][Next]_vars /\ Fairness

-----------------------------------------------------------------------------
(* No part of a request is counted towards another one (save_data), and    *)
(* a request is refused and carried out at once (webserver_recv) only      *)
(* after one of which the rest never came.                                 *)
RequestsApart ==
  /\ req.saved = 0 /\ ~req.kept
  /\ (req.dat # 0 => req.split)

(* Settings that were accepted stay until their timer applies them         *)
(* (restart_10ms_cb), unless somebody reads the settings back meanwhile;   *)
(* nothing else makes the timer meet a null pointer.                       *)
SettingsKept ==
  /\ cfg.rst.kind = "WIFI" /\ fault # "conf" =>
       cfg.timer /\ (cfg.conf = NULL => cfg.readBack)
  /\ fault = "conf" => cfg.readBack

(* The pages of one scan print no access point twice: bss has moved by     *)
(* exactly the data_cnt entries that were counted, unless a page was asked *)
(* for while the scan ran; json_scan_cb meets a null pointer only then.    *)
PagesApart ==
  /\ sc.info # NULL /\ ~sc.busy /\ sc.head # 0 /\ ~sc.early =>
       /\ sc.info.data_cnt <= sc.head
       /\ sc.bss = sc.info.data_cnt % sc.head
  /\ fault = "scan" => sc.early

(* An upgrade that ends with UPGRADE_FLAG_FINISH has stored the bytes of   *)
(* one client and no others (local_upgrade_download), unless bytes of an   *)
(* upgrade given up before were still counted or others sent meanwhile;    *)
(* while the lock is held, the SDK's upgrade stays initialised.            *)
ImageOfOneClient ==
  /\ up.flag = "FINISH" /\ ~up.dirty =>
       up.image # <<>> /\ \A k \in 1..Len(up.image) : up.image[k] = up.image[1]
  /\ up.lock => up.ready /\ up.flag = "START"

(* The invariants of the web server together.                              *)
WebSound == RequestsApart /\ SettingsKept /\ PagesApart /\ ImageOfOneClient

(* The lock of an upgrade (upgrade_lock), which makes webserver_recv take  *)
(* everything for image, is released in the end.                           *)
LockReleased == []<>(~ up.lock)
=============================================================================
