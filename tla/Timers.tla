------------------------------ MODULE Timers ------------------------------
(***************************************************************************)
(* The timeouts of lwIP (core/timers.c): a list of handlers, each with the *)
(* milliseconds after the one before it, and the two ways it is served.    *)
(* In the build without an operating system (NO_SYS, the one this SDK      *)
(* uses) a main loop calls sys_check_timeouts; in the build with a thread  *)
(* tcpip_thread (api/tcpip.c) waits for messages in                        *)
(* sys_timeouts_mbox_fetch no longer than the first timeout.               *)
(*                                                                         *)
(* An entry carries two history fields: due, the milliseconds left until   *)
(* the moment its caller asked for, and skew, what the entry was set or    *)
(* has been pushed away from that moment.                                  *)
(***************************************************************************)
EXTENDS Integers, Sequences, SequencesExt

CONSTANTS Builds,      \* subset of {"nosys", "thread"}
          Periodic,    \* handlers that set themselves again
          Period,      \* [Periodic \cup {"tcp"} -> milliseconds]
          Delays,      \* what a caller of sys_timeout asks for
          MaxLate,     \* bound: how late the main loop comes to a check
          MaxSkew      \* bound: how far the thread's work may push an entry

TimersAssumption ==
  /\ Builds \subseteq {"nosys", "thread"}
  /\ "tcp" \notin Periodic /\ "app" \notin Periodic
  /\ Period \in [Periodic \cup {"tcp"} -> Nat \ {0}]
  /\ Delays \subseteq Nat
  /\ {MaxLate, MaxSkew} \subseteq Nat

VARIABLES build,
          next_timeout,   \* the list: [h, time, due, skew]
          mode,           \* where the one thread of control is
          elapsed,        \* ms since timeouts_last_time, or in the fetch
          diff,           \* what the running check still has to give out
          fired,          \* the running check has run a handler
          pcbs,           \* tcp_active_pcbs or tcp_tw_pcbs is not empty
          tcpip_tcp_timer_active,
          ran             \* history: the handler that ran last

timerVars == <<build, next_timeout, mode, elapsed, diff, fired, pcbs,
               tcpip_tcp_timer_active, ran>>

\* The milliseconds from the start of the list to its k-th entry
Until(list, k) ==
  FoldLeft(LAMBDA sum, e : sum + e.time, 0, SubSeq(list, 1, k))

\* sys_timeout puts the entry behind those that come no later and takes its
\* distance from the one after it; off is what the list's start lies behind
\* the moment of the call
sys_timeout(list, h, msecs, off) ==
  LET later == {k \in 1..Len(list) : Until(list, k) > msecs}
      k == IF later = {} THEN Len(list) + 1
           ELSE CHOOSE i \in later : \A j \in later : i <= j
      closer == IF later = {} THEN list
                ELSE [list EXCEPT ![k].time = Until(list, k) - msecs]
  IN  InsertAt(closer, k, [h |-> h, time |-> msecs - Until(list, k - 1),
                           due |-> msecs, skew |-> 0 - off])

\* sys_untimeout takes the first entry of the handler out and gives its
\* distance to the one after it
sys_untimeout(list, h) ==
  LET at == {k \in 1..Len(list) : list[k].h = h}
      k == CHOOSE i \in at : \A j \in at : i <= j
      wider == IF k < Len(list)
               THEN [list EXCEPT ![k + 1].time = @ + list[k].time]
               ELSE list
  IN  IF at = {} THEN list ELSE RemoveAt(wider, k)

\* sys_timeouts_init sets every periodic handler and the TCP timer, but does
\* not mark the TCP timer active
sys_timeouts_init ==
  LET set(list, h) == sys_timeout(list, h, Period[h], 0)
  IN  FoldLeft(set, <<>>, Append(SetToSeq(Periodic), "tcp"))

Init ==
  /\ build \in Builds
  /\ next_timeout = sys_timeouts_init
  /\ mode = IF build = "nosys" THEN "loop" ELSE "fetch"
  /\ elapsed = 0
  /\ diff = 0
  /\ fired = FALSE
  /\ pcbs = FALSE
  /\ tcpip_tcp_timer_active = FALSE
  /\ ran = "none"

\* How far the clock is past the start of the list
Spent == CASE mode \in {"loop", "fetch"} -> elapsed
           [] mode = "check" -> diff + elapsed
           [] mode = "work" -> 0

\* A millisecond passes.  The thread's own work is not measured: everything
\* that is pending is put off by it.
Tick ==
  /\ next_timeout # <<>>
  /\ mode \in {"loop", "check"} => Spent < Head(next_timeout).time + MaxLate
  /\ mode = "fetch" => elapsed < Head(next_timeout).time
  /\ mode = "work" =>
       \A k \in 1..Len(next_timeout) : next_timeout[k].skew < MaxSkew
  /\ elapsed' = IF mode = "work" THEN elapsed ELSE elapsed + 1
  /\ next_timeout' =
       [k \in 1..Len(next_timeout) |->
          [next_timeout[k] EXCEPT
             !.due = @ - 1,
             !.skew = IF mode = "work" THEN @ + 1 ELSE @]]
  /\ UNCHANGED <<build, mode, diff, fired, pcbs, tcpip_tcp_timer_active, ran>>

\* The first entry is taken off the list and its handler runs.  The periodic
\* ones set themselves again; the TCP timer while there are connections, of
\* which tcp_tmr may close the last; off is the age of the list's start.
Run(off) ==
  LET e == Head(next_timeout)
      rest == Tail(next_timeout)
  IN  /\ ran' = e.h
      /\ \/ /\ e.h \in Periodic
            /\ next_timeout' = sys_timeout(rest, e.h, Period[e.h], off)
            /\ UNCHANGED <<pcbs, tcpip_tcp_timer_active>>
         \/ /\ e.h = "tcp"
            /\ pcbs' \in {pcbs, FALSE}
            /\ next_timeout' = IF pcbs' THEN sys_timeout(rest, "tcp", Period["tcp"], off)
                               ELSE rest
            /\ tcpip_tcp_timer_active' = (tcpip_tcp_timer_active /\ pcbs')
         \/ /\ e.h = "app"
            /\ next_timeout' = rest
            /\ UNCHANGED <<pcbs, tcpip_tcp_timer_active>>

\* sys_check_timeouts: the time is read once
CheckBegin ==
  /\ mode = "loop"
  /\ next_timeout # <<>>
  /\ mode' = "check"
  /\ diff' = elapsed
  /\ elapsed' = 0
  /\ fired' = FALSE
  /\ UNCHANGED <<build, next_timeout, pcbs, tcpip_tcp_timer_active, ran>>

\* sys_check_timeouts: an entry that has expired
CheckStep ==
  LET time == Head(next_timeout).time
  IN  /\ mode = "check"
      /\ next_timeout # <<>>
      /\ time <= diff
      /\ diff' = diff - time
      /\ fired' = TRUE
      /\ Run(diff - time + elapsed)
      /\ UNCHANGED <<build, mode, elapsed>>

\* sys_check_timeouts: no more has expired.  If a handler ran,
\* timeouts_last_time is the moment of the check, and what was left of diff
\* is dropped: the pending entries are late by it.
CheckEnd ==
  /\ mode = "check"
  /\ next_timeout # <<>>
  /\ Head(next_timeout).time > diff
  /\ mode' = "loop"
  /\ elapsed' = IF fired THEN elapsed ELSE elapsed + diff
  /\ next_timeout' = IF fired
                     THEN [k \in 1..Len(next_timeout) |->
                             [next_timeout[k] EXCEPT !.skew = @ + diff]]
                     ELSE next_timeout
  /\ diff' = 0
  /\ fired' = FALSE
  /\ UNCHANGED <<build, pcbs, tcpip_tcp_timer_active, ran>>

\* sys_timeouts_mbox_fetch: no message came before the first entry expired
FetchTimeout ==
  /\ mode = "fetch"
  /\ next_timeout # <<>>
  /\ elapsed = Head(next_timeout).time
  /\ elapsed' = 0
  /\ Run(0)
  /\ UNCHANGED <<build, mode, diff, fired>>

\* sys_timeouts_mbox_fetch: a message came; the wait is taken from the first
FetchMessage ==
  /\ mode = "fetch"
  /\ mode' = "work"
  /\ elapsed' = 0
  /\ next_timeout' = IF next_timeout = <<>> THEN <<>>
                     ELSE [next_timeout EXCEPT ![1].time = @ - elapsed]
  /\ UNCHANGED <<build, diff, fired, pcbs, tcpip_tcp_timer_active, ran>>

\* tcpip_thread has handled the message and waits for the next
MessageDone ==
  /\ mode = "work"
  /\ mode' = "fetch"
  /\ UNCHANGED <<build, next_timeout, elapsed, diff, fired, pcbs,
                 tcpip_tcp_timer_active, ran>>

\* The application's own timer, one at a time: set or taken back from the
\* main loop, or by a message of type TCPIP_MSG_TIMEOUT or _UNTIMEOUT
Application ==
  /\ mode \in {"loop", "work"}
  /\ \/ /\ \A k \in 1..Len(next_timeout) : next_timeout[k].h # "app"
        /\ \E msecs \in Delays :
             next_timeout' = sys_timeout(next_timeout, "app", msecs, Spent)
     \/ /\ \E k \in 1..Len(next_timeout) : next_timeout[k].h = "app"
        /\ next_timeout' = sys_untimeout(next_timeout, "app")
  /\ UNCHANGED <<build, mode, elapsed, diff, fired, pcbs,
                 tcpip_tcp_timer_active, ran>>

\* TCP_REG puts a pcb on a list and calls tcp_timer_needed
tcp_timer_needed ==
  /\ mode \in {"loop", "work"}
  /\ pcbs' = TRUE
  /\ tcpip_tcp_timer_active' = TRUE
  /\ next_timeout' = IF tcpip_tcp_timer_active THEN next_timeout
                     ELSE sys_timeout(next_timeout, "tcp", Period["tcp"], Spent)
  /\ UNCHANGED <<build, mode, elapsed, diff, fired, ran>>

\* TCP_RMV of the last pcb, outside the timer
PcbsGone ==
  /\ mode \in {"loop", "work"}
  /\ pcbs
  /\ pcbs' = FALSE
  /\ UNCHANGED <<build, next_timeout, mode, elapsed, diff, fired,
                 tcpip_tcp_timer_active, ran>>

Next ==
  \/ Tick \/ CheckBegin \/ CheckStep \/ CheckEnd
  \/ FetchTimeout \/ FetchMessage \/ MessageDone
  \/ Application \/ tcp_timer_needed \/ PcbsGone

\* The clock runs (its step is held up only by the bounds), the main loop comes back to the check, and a check that
\* was begun is finished
Fairness ==
  /\ SF_timerVars(Tick)
  /\ WF_timerVars(CheckBegin)
  /\ WF_timerVars(CheckStep \/ CheckEnd)

Spec == Init /\ [][Next]_timerVars /\ Fairness

----------------------------------------------------------------------------

Pending(h) == {k \in 1..Len(next_timeout) : next_timeout[k].h = h}

\* The distances of the list add up, for every pending handler and in both
\* builds, to the moment its caller asked for, shifted only by what the list
\* was out of step when it was set and by what the checks since then have
\* dropped (sys_timeout, sys_untimeout, sys_check_timeouts); a periodic
\* handler is pending exactly once; and while there are TCP connections the
\* TCP timer is pending and marked active (tcp_timer_needed).
TimersSound ==
  /\ \A k \in 1..Len(next_timeout) :
       Until(next_timeout, k) - Spent = next_timeout[k].due + next_timeout[k].skew
  /\ \A h \in Periodic : \E k \in 1..Len(next_timeout) : Pending(h) = {k}
  /\ pcbs => tcpip_tcp_timer_active /\ Pending("tcp") # {}

\* In the build without threads every periodic handler runs again and again,
\* whatever else is set, taken back or late (sys_check_timeouts).
PeriodicRun ==
  <>[](build = "nosys") => \A h \in Periodic : []<>(ran = h)

============================================================================
