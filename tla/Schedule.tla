------------------------------ MODULE Schedule ------------------------------
(***************************************************************************)
(* The timers the cloud sets for the plug (user_esp_platform_timer.c): a   *)
(* list of fixed, repeated and weekly times.  The device computes how long *)
(* the next one is away, waits for it an hour at a time, acts, and         *)
(* computes again.  Time is in seconds; an hour and a week are constants.  *)
(***************************************************************************)
EXTENDS Integers, Sequences, FiniteSetsExt, SequencesExt

CONSTANTS
  Hour, Week,   \* 3600 and 7 * 24 * 3600
  Monday,       \* a Monday, 0:00 (1388937600)
  Lists,        \* the lists the cloud may send
  MaxTime       \* time stops here

VARIABLES
  clock,          \* the time it is
  timestamp,      \* the time the device thinks it is
  timer_splits,   \* the list
  min_wait_second,
  waiting,        \* the wait_param of device_timer, or Off
  acted,          \* the timers whose action is done now
  zero,           \* history: a time of this list was met to the second
  halted,         \* history: an action of this list was not recognised
  lost            \* history: the stack under wait_param was overwritten

scheduleVars ==
  <<clock, timestamp, timer_splits, min_wait_second, waiting, acted, zero, halted, lost>>

Eternity == 2 * MaxTime   \* min_wait_second without a timer ahead (0xFFFFFFF)
Off == [armed |-> FALSE]

\* What user_esp_platform_device_action makes of an action: it is one of the
\* three that switch the plug, it begins with '0', or it is none of these.
Actions == {"switch", "0", "unknown"}

\* What the cloud sends: a loop is not empty, and a weekly time is within
\* the week, its end included.
IsTimer(e) ==
  /\ e.action \in Actions
  /\ e.mode \in {"f", "l", "w"} /\ e.time \in Nat
  /\ e.mode = "l" => e.time > 0
  /\ e.mode = "w" => e.time <= Week

ScheduleAssumption ==
  /\ {Hour, Week, MaxTime} \subseteq Nat \ {0} /\ Monday \in 0 .. MaxTime
  /\ \A l \in Lists : \A k \in DOMAIN l : IsTimer(l[k])

ScheduleInit ==
  /\ clock = Monday /\ timestamp = 0 /\ timer_splits = <<>> /\ min_wait_second = 0
  /\ waiting = Off /\ acted = {}
  /\ zero = FALSE /\ halted = FALSE /\ lost = FALSE

\* How far a timer is away; a fixed time that has passed gives a negative number.
wait_time_second(e, now) ==
  LET monday_wait_time == (now - Monday) % Week
  IN  CASE e.mode = "f" -> e.time - now
        [] e.mode = "l" -> e.time - (now % e.time)
        [] e.mode = "w" -> IF e.time > monday_wait_time
                             THEN e.time - monday_wait_time
                             ELSE Week - monday_wait_time + e.time

esp_platform_find_min_time(list, now) ==
  Min({Eternity} \cup ({wait_time_second(list[k], now) : k \in DOMAIN list} \cap Nat))

\* A plausible slip: an hour more.
overflow_check_Late(actions, min) ==
  IF min > Hour
    THEN [armed |-> TRUE, actions |-> actions, wait |-> Hour, left |-> min,
          last |-> FALSE]
    ELSE [armed |-> TRUE, actions |-> actions, wait |-> min, left |-> 0, last |-> TRUE]

\* The next part of the wait, an hour at most, and what is left of it.
user_esp_platform_wait_time_overflow_check(actions, min) ==
  IF min >= Hour
    THEN [armed |-> TRUE, actions |-> actions, wait |-> Hour, left |-> min - Hour,
          last |-> FALSE]
    ELSE [armed |-> TRUE, actions |-> actions, wait |-> min, left |-> 0, last |-> TRUE]

\* wait_param notes the actions of the timers that have the shortest wait.
esp_platform_timer_action(list, now, min) ==
  user_esp_platform_wait_time_overflow_check(
    [k \in {k \in DOMAIN list : wait_time_second(list[k], now) = min} |-> list[k].action],
    min)

\* With a timer that is due now, nothing is armed, and device_timer stays as
\* it is.
user_platform_timer_first_start(list, now, device_timer) ==
  LET min == esp_platform_find_min_time(list, now)
  IN  /\ timestamp' = now /\ min_wait_second' = min
      /\ waiting' = IF min = 0 THEN device_timer
                    ELSE esp_platform_timer_action(list, now, min)

\* The cloud sends the time and the list.
user_platform_timer_start(list) ==
  /\ timer_splits' = list
  /\ IF list = <<>>
       THEN /\ waiting' = Off /\ timestamp' = clock /\ min_wait_second' = 0
            /\ zero' = FALSE
       ELSE /\ user_platform_timer_first_start(list, clock, waiting)
            /\ zero' = (min_wait_second' = 0)
  /\ acted' = {} /\ halted' = FALSE
  /\ UNCHANGED <<clock, lost>>

\* A second passes.
Tick ==
  /\ clock < MaxTime
  /\ clock' = clock + 1
  /\ \/ ~ waiting.armed /\ UNCHANGED waiting
     \/ /\ waiting.armed /\ waiting.wait > 0
        /\ waiting' = [waiting EXCEPT !.wait = @ - 1]
  /\ acted' = {}
  /\ UNCHANGED <<timestamp, timer_splits, min_wait_second, zero, halted, lost>>

\* device_timer, which is armed for one run, runs out.
Elapsed == waiting.armed /\ waiting.wait = 0

\* Another hour is over.
HourOver ==
  /\ Elapsed /\ ~ waiting.last
  /\ waiting' = user_esp_platform_wait_time_overflow_check(waiting.actions, waiting.left)
  /\ acted' = {}
  /\ UNCHANGED <<clock, timestamp, timer_splits, min_wait_second, zero, halted, lost>>

\* The actions that end the loop over those of the moment, which are in the
\* order of the list: the plug does those before the first of them ...
Ends(actions) == {k \in DOMAIN actions : actions[k] # "switch"}

Done(actions) == {k \in DOMAIN actions : \A j \in Ends(actions) : k < j}

\* ... and the whole function returns if it is not recognised.
Returns(actions) ==
  \E j \in Ends(actions) :
    actions[j] = "unknown" /\ \A i \in Ends(actions) : j <= i

user_esp_platform_device_action ==
  /\ Elapsed /\ waiting.last
  /\ acted' = Done(waiting.actions)
  /\ \/ /\ Returns(waiting.actions)
        /\ waiting' = Off /\ halted' = TRUE
        /\ UNCHANGED <<timestamp, min_wait_second, zero>>
     \/ /\ ~ Returns(waiting.actions)
        /\ user_platform_timer_first_start(timer_splits, timestamp + min_wait_second, Off)
        /\ zero' = (zero \/ min_wait_second' = 0)
        /\ UNCHANGED halted
  /\ UNCHANGED <<clock, timer_splits, lost>>

\* wait_param is a local variable of esp_platform_timer_action, of which the
\* timer keeps the address: the stack may hold anything when it runs out.
Overwritten ==
  /\ waiting.armed /\ lost' = TRUE /\ waiting' = Off
  /\ UNCHANGED <<clock, timestamp, timer_splits, min_wait_second, acted, zero, halted>>

ScheduleNext ==
  \/ \E l \in Lists : user_platform_timer_start(l)
  \/ Tick \/ HourOver \/ user_esp_platform_device_action \/ Overwritten

ScheduleSpec == ScheduleInit /\ [][ScheduleNext]_scheduleVars

-----------------------------------------------------------------------------
\* When a timer is meant to act.
Due(e, t) ==
  CASE e.mode = "f" -> t = e.time
    [] e.mode = "l" -> t % e.time = 0
    [] e.mode = "w" -> (t - Monday) % Week = e.time % Week

\* The timers that are due at time t, with their actions.
DueAt(t) ==
  [k \in {k \in DOMAIN timer_splits : Due(timer_splits[k], t)} |-> timer_splits[k].action]

(* The plug acts when timers of the list are due, for all of them up to    *)
(* the first whose action does not switch it, and none is passed over      *)
(* while device_timer waits in hours                                       *)
(* (user_esp_platform_wait_time_overflow_check).  The waiting ends, with   *)
(* times still to come, only when user_esp_platform_device_action meets an *)
(* action it does not recognise.                                           *)
(*                                                                         *)
(* This holds of a list until a time in it is met to the second, after     *)
(* which user_platform_timer_first_start arms nothing (zero), and only as  *)
(* long as the stack keeps the local wait_param that device_timer points   *)
(* to (lost).                                                              *)
OnTime ==
  ~zero /\ ~lost =>
    /\ acted \in {{}, Done(DueAt(clock))}
    /\ waiting.armed =>
         LET end == clock + waiting.wait + waiting.left
         IN  /\ \A t \in clock + 1 .. end - 1 :
                  \A k \in DOMAIN timer_splits : ~Due(timer_splits[k], t)
             /\ end <= MaxTime => waiting.actions = DueAt(end)
    /\ timer_splits # <<>> => waiting.armed \/ halted
    /\ halted => \E k \in DOMAIN timer_splits : timer_splits[k].action = "unknown"
=============================================================================
