-------------------------------- MODULE Sntp --------------------------------
(***************************************************************************)
(* The SNTP client (core/sntp.c): requests, retries and the change of      *)
(* server, on top of the resolver and of the one-shot timeouts of lwIP;    *)
(* and the calendar with which sntp_get_real_time prints a time.           *)
(*                                                                         *)
(* A timeout is one of two callbacks, so the list of timeouts is two       *)
(* counters.  The content of a message and the RTC are left out.           *)
(***************************************************************************)
EXTENDS Integers, Sequences

CONSTANTS
  NumServers,   \* SNTP_MAX_SERVERS
  RetryMax,     \* SNTP_RETRY_TIMEOUT_MAX, in units of SNTP_RETRY_TIMEOUT
  MaxStarts,    \* bound: calls of sntp_init
  MaxPending,   \* bound: timeouts and lookups at a time
  LastDay       \* bound: the last day of the calendar that is checked

SntpAssumption ==
  /\ NumServers \in Nat \ {0, 1} /\ RetryMax \in Nat \ {0}
  /\ MaxStarts \in Nat /\ MaxPending \in Nat /\ LastDay \in Nat

Ids == 0 .. NumServers - 1
NoServer == -1

VARIABLES
  sntp_pcb,              \* whether the client has its UDP control block
  sntp_servers,          \* [name, addr] of each: "", a host or dotted; whether it is set
  sntp_current_server,
  sntp_retry_timeout,
  timeouts,              \* pending calls of sntp_request and sntp_try_next_server
  lookups,               \* dns_gethostbyname calls without an answer
  synced,                \* realtime_stamp # 0, which sntp_timer advances
  starts,                \* how often sntp_init was called
  asked,                 \* the server the last step sent a request to, or NoServer
  stray                  \* a request was given to udp_sendto without a pcb

sntpVars == <<sntp_pcb, sntp_servers, sntp_current_server, sntp_retry_timeout, timeouts,
              lookups, synced, starts, asked, stray>>

Init ==
  /\ sntp_pcb = FALSE
  /\ sntp_servers = [i \in Ids |-> [name |-> "", addr |-> FALSE]]
  /\ sntp_current_server = 0
  /\ sntp_retry_timeout = 0
  /\ timeouts = [request |-> 0, next |-> 0]
  /\ lookups = 0
  /\ synced = FALSE
  /\ starts = 0
  /\ asked = NoServer
  /\ stray = FALSE

\* The fields a call of the request functions works on.
State == [cur |-> sntp_current_server, retry |-> sntp_retry_timeout, to |-> timeouts,
          look |-> lookups, servers |-> sntp_servers, asked |-> NoServer, stray |-> stray]

Becomes(w) ==
  /\ sntp_current_server' = w.cur
  /\ sntp_retry_timeout' = w.retry
  /\ timeouts' = w.to
  /\ lookups' = w.look
  /\ sntp_servers' = w.servers
  /\ asked' = w.asked
  /\ stray' = w.stray

sys_timeout(w, fn) == [w EXCEPT !.to[fn] = @ + 1]
\* Only the first match is removed.
sys_untimeout(w, fn) == [w EXCEPT !.to[fn] = IF @ > 0 THEN @ - 1 ELSE 0]

-----------------------------------------------------------------------------
\* Without memory the same server is asked again; mem says whether there is.
sntp_send_request(w, mem) ==
  IF mem
    THEN sys_timeout([w EXCEPT !.asked = w.cur, !.stray = @ \/ ~ sntp_pcb], "next")
    ELSE sys_timeout(w, "request")

\* The results of sntp_request.  name is an array and never NULL: a server
\* without a name is looked up too, and refused for its empty name.
Resolved(w) ==
  [w EXCEPT !.servers[w.cur].addr = w.servers[w.cur].name = "dotted"]

sntp_request(w) ==
  LET r == Resolved(w)
  IN  CASE w.servers[w.cur].name = "host" ->
             {[r EXCEPT !.look = @ + 1], sys_timeout(r, "next")}
        [] w.servers[w.cur].name = "dotted" ->
             {sntp_send_request(r, mem) : mem \in BOOLEAN}
        [] OTHER -> {sys_timeout(r, "next")}

\* Without the timeout.
sntp_retry_Forgets(w) ==
  [w EXCEPT !.retry = IF 2 * @ <= RetryMax THEN 2 * @ ELSE @]

sntp_retry(w) ==
  sys_timeout([w EXCEPT !.retry = IF 2 * @ <= RetryMax THEN 2 * @ ELSE @], "request")

\* The next server is always taken, for the same reason.
sntp_try_next_server(w) ==
  sntp_request([w EXCEPT !.cur = (@ + 1) % NumServers, !.retry = 1])

sntp_dns_found(w, found) ==
  IF found THEN {sntp_send_request(w, mem) : mem \in BOOLEAN} ELSE sntp_try_next_server(w)

-----------------------------------------------------------------------------
Bounded(ws) == {w \in ws : w.to.request + w.to.next + w.look <= MaxPending}

RequestTimeout ==
  /\ timeouts.request > 0
  /\ \E w \in Bounded(sntp_request(sys_untimeout(State, "request"))) : Becomes(w)
  /\ UNCHANGED <<sntp_pcb, synced, starts>>

NextTimeout ==
  /\ timeouts.next > 0
  /\ \E w \in Bounded(sntp_try_next_server(sys_untimeout(State, "next"))) : Becomes(w)
  /\ UNCHANGED <<sntp_pcb, synced, starts>>

\* The resolver answers, or gives up.
LookupAnswered(found) ==
  /\ lookups > 0
  /\ \E w \in Bounded(sntp_dns_found([State EXCEPT !.look = @ - 1], found)) : Becomes(w)
  /\ UNCHANGED <<sntp_pcb, synced, starts>>

\* SNTP_CHECK_RESPONSE is 0: any datagram of the right form is an answer, a
\* kiss of death changes the server and everything else is retried.
sntp_recv(kind) ==
  LET w == sys_untimeout(sys_untimeout(State, "next"), "request")
      ws == CASE kind = "time" -> {sys_timeout([w EXCEPT !.retry = 1], "request")}
              [] kind = "kod" -> sntp_try_next_server(w)
              [] OTHER -> {sntp_retry(w)}
  IN  /\ sntp_pcb
      /\ \E v \in Bounded(ws) : Becomes(v)
      /\ synced' = (synced \/ kind = "time")
      /\ UNCHANGED <<sntp_pcb, starts>>

sntp_init ==
  /\ ~ sntp_pcb /\ starts < MaxStarts
  /\ starts' = starts + 1
  /\ sntp_pcb' = TRUE
  /\ \E w \in Bounded(sntp_request([State EXCEPT !.retry = 1])) :
       Becomes([w EXCEPT !.stray = stray])
  /\ UNCHANGED synced

\* One timeout of sntp_request is cancelled; one of sntp_try_next_server and
\* a lookup go on.
sntp_stop ==
  /\ sntp_pcb' = FALSE
  /\ Becomes(IF sntp_pcb THEN sys_untimeout(State, "request") ELSE State)
  /\ synced' = FALSE
  /\ UNCHANGED starts

sntp_setserver(i, addr) ==
  /\ sntp_servers' = [sntp_servers EXCEPT ![i] = [name |-> "", addr |-> addr]]
  /\ asked' = NoServer
  /\ UNCHANGED <<sntp_pcb, sntp_current_server, sntp_retry_timeout, timeouts, lookups,
                 synced, starts, stray>>

sntp_setservername(i, name) ==
  /\ sntp_servers' = [sntp_servers EXCEPT ![i].name = name]
  /\ asked' = NoServer
  /\ UNCHANGED <<sntp_pcb, sntp_current_server, sntp_retry_timeout, timeouts, lookups,
                 synced, starts, stray>>

\* The application sets its servers before it starts the client.
Next ==
  /\ ~ stray
  /\ \/ starts = 0 /\ \E i \in Ids :
          \/ \E addr \in BOOLEAN : sntp_setserver(i, addr)
          \/ \E name \in {"host", "dotted"} : sntp_setservername(i, name)
     \/ sntp_init
     \/ starts > 0 /\ sntp_stop
     \/ RequestTimeout
     \/ NextTimeout
     \/ \E found \in BOOLEAN : LookupAnswered(found)
     \/ \E kind \in {"time", "kod", "other"} : sntp_recv(kind)

\* Timeouts expire and the resolver answers.
Fairness ==
  /\ WF_sntpVars(~ stray /\ RequestTimeout)
  /\ WF_sntpVars(~ stray /\ NextTimeout)
  /\ WF_sntpVars(~ stray /\ \E found \in BOOLEAN : LookupAnswered(found))

Spec == Init /\ [][Next]_sntpVars /\ Fairness

-----------------------------------------------------------------------------
\* A client that was started has a timeout or a lookup that will make it ask
\* again, whatever answers arrive late, twice or malformed, and however often
\* it was stopped and started before (sntp_recv, sntp_request, sntp_stop).
ClientAlive == sntp_pcb => timeouts.request + timeouts.next + lookups > 0

-----------------------------------------------------------------------------
(***************************************************************************)
(* The calendar.                                                           *)
(***************************************************************************)
VARIABLES
  day,    \* days since 1970
  date    \* that day, counted forward one day at a time
calendarVars == <<day, date>>

isleap(y) == (y % 4 = 0 /\ y % 100 # 0) \/ y % 400 = 0

mon_lengths(y) == <<31, IF isleap(y) THEN 29 ELSE 28, 31, 30, 31, 30, 31, 31, 30, 31, 30, 31>>

year_lengths(y) == IF isleap(y) THEN 366 ELSE 365

\* The years are taken off one by one, then the months.
RECURSIVE YearAndDay(_, _)
YearAndDay(y, days) ==
  IF days < year_lengths(y) THEN <<y, days>> ELSE YearAndDay(y + 1, days - year_lengths(y))

RECURSIVE MonthAndDay(_, _, _)
MonthAndDay(y, m, days) ==
  IF days < mon_lengths(y)[m] THEN <<m, days + 1>>
  ELSE MonthAndDay(y, m + 1, days - mon_lengths(y)[m])

\* sntp_mktm_r for a time after 1970; the rule of the time zone is all zero
\* and moves nothing.
sntp_mktm_r(t) ==
  LET days == t \div 86400
      rem == t % 86400
      yd == YearAndDay(1970, days)
      md == MonthAndDay(yd[1], 1, yd[2])
  IN  [year |-> yd[1], yday |-> yd[2], mon |-> md[1], mday |-> md[2],
       wday |-> (4 + days) % 7, hour |-> rem \div 3600, min |-> (rem % 3600) \div 60,
       sec |-> rem % 60]

CalendarInit ==
  /\ day = 0
  /\ date = [year |-> 1970, yday |-> 0, mon |-> 1, mday |-> 1, wday |-> 4]

\* The Gregorian calendar, by its rule for the day after.
MonthLength(d) ==
  CASE d.mon \in {4, 6, 9, 11} -> 30
    [] d.mon = 2 -> IF (d.year % 4 = 0 /\ d.year % 100 # 0) \/ d.year % 400 = 0 THEN 29 ELSE 28
    [] OTHER -> 31

DayAfter(d) ==
  LET endOfMonth == d.mday = MonthLength(d)
      endOfYear == endOfMonth /\ d.mon = 12
  IN  [year |-> IF endOfYear THEN d.year + 1 ELSE d.year,
       yday |-> IF endOfYear THEN 0 ELSE d.yday + 1,
       mon |-> IF endOfYear THEN 1 ELSE IF endOfMonth THEN d.mon + 1 ELSE d.mon,
       mday |-> IF endOfMonth THEN 1 ELSE d.mday + 1,
       wday |-> (d.wday + 1) % 7]

CalendarNext ==
  /\ day < LastDay
  /\ day' = day + 1
  /\ date' = DayAfter(date)

\* sntp_mktm_r gives the date of every day, at its first and its last second.
CalendarRight ==
  \A s \in {0, 86399} :
    LET tm == sntp_mktm_r(day * 86400 + s)
    IN  /\ \A f \in DOMAIN date : tm[f] = date[f]
        /\ tm.hour * 3600 + tm.min * 60 + tm.sec = s /\ tm.min < 60 /\ tm.sec < 60
=============================================================================
