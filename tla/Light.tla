------------------------------- MODULE Light --------------------------------
(***************************************************************************)
(* The light of the IoT example (user_light.c, user_light_adj.c): a colour *)
(* asked for by the cloud or a client goes through a queue, the PWM duty   *)
(* is moved towards it every 15 ms, and a light that is off lets the Wi-Fi *)
(* sleep.                                                                  *)
(***************************************************************************)
EXTENDS Integers, Sequences

CONSTANTS
  Channels,   \* PWM channels
  Aims,       \* duties asked for
  Stored,     \* duties the flash may hold at the start
  Limit,      \* duty_max_limit of the period
  QueueLen    \* LIGHT_EVT_QNUM

VARIABLES
  events,           \* LightEvtArr, from CurEvtIdxToBeUse on
  current_duty,     \* the aim
  duty_now,         \* on the way to it
  pwm_duty,         \* light_param.pwm_duty, the driver's copy of the duty
  pwm,              \* what pwm_get_duty returns
  change_finish,
  timer,            \* timer_pwm_adj is armed
  light_sleep_flg,  \* the Wi-Fi may sleep
  dim               \* history: the stored duty the light started with

vars == <<events, current_duty, duty_now, pwm_duty, pwm, change_finish, timer,
          light_sleep_flg, dim>>

LightAssumption ==
  /\ Aims \cup Stored \cup {Limit, QueueLen} \subseteq Nat /\ QueueLen > 0

Duties == [Channels -> Aims]
Dark == [c \in Channels |-> 0]

AbsMinus(x, y) == IF x < y THEN y - x ELSE x - y

\* One sixteenth of the way, and the rest at once when it is short.
Step(now, aim) ==
  LET d == (now * 15 + aim) \div 16
  IN  IF AbsMinus(d, aim) < 20 THEN aim ELSE d

\* user_light_set_duty of all channels: the driver is called for a change only,
\* and a change is seen against light_param.
SetDuty(s) ==
  LET now == [c \in Channels |-> Step(s.now[c], s.aim[c])]
      pwmNow == [c \in Channels |-> IF now[c] # s.param[c] THEN now[c] ELSE s.pwm[c]]
  IN  [s EXCEPT !.now = now, !.pwm = pwmNow,
                !.param = [c \in Channels |-> IF now[c] # s.param[c] THEN now[c] ELSE @[c]]]

\* light_save_target_duty, and the Wi-Fi's sleep when the light is off.
Finish(s) ==
  [s EXCEPT !.param = s.aim, !.sleep = @ \/ s.pwm = Dark]

\* light_dh_pwm_adj_proc: a step, and the timer for the next or the end.  The
\* queue is empty when it ends (see QueueNeverFills), so that the call of
\* light_pwm_smooth_adj_proc at the end only saves.
light_dh_pwm_adj_proc(s) ==
  LET t == SetDuty(s)
  IN  IF t.pwm # t.aim
        THEN [t EXCEPT !.done = FALSE, !.timer = TRUE]
        ELSE Finish([t EXCEPT !.done = TRUE, !.timer = FALSE])

\* light_pwm_smooth_adj_proc: the oldest event becomes the aim at once.
light_pwm_smooth_adj_proc(s) ==
  LET t == IF s.queue = <<>> THEN s
           ELSE [s EXCEPT !.aim = Head(s.queue), !.queue = Tail(@)]
      u == IF s.queue # <<>> /\ s.done THEN light_dh_pwm_adj_proc(t) ELSE t
  IN  IF u.done THEN Finish(u) ELSE u

\* LightEvtMalloc, and light_set_aim: an event that finds the queue full is lost.
light_set_aim(s, aim) ==
  LET capped == [c \in Channels |-> IF aim[c] < Limit THEN aim[c] ELSE Limit]
  IN  IF Len(s.queue) < QueueLen
        THEN light_pwm_smooth_adj_proc([s EXCEPT !.queue = Append(@, capped)])
        ELSE s

State ==
  [queue |-> events, aim |-> current_duty, now |-> duty_now, param |-> pwm_duty, pwm |-> pwm,
   done |-> change_finish, timer |-> timer, sleep |-> light_sleep_flg]

Becomes(s) ==
  /\ events' = s.queue /\ current_duty' = s.aim /\ duty_now' = s.now
  /\ pwm_duty' = s.param /\ pwm' = s.pwm /\ change_finish' = s.done
  /\ timer' = s.timer /\ light_sleep_flg' = s.sleep
  /\ UNCHANGED dim

\* user_light_init: the light goes to the stored colour.
Init ==
  \E d \in Stored :
    LET param == [c \in Channels |-> d]
        s == light_set_aim(
               [queue |-> <<>>, aim |-> Dark, now |-> Dark, param |-> param, pwm |-> Dark,
                done |-> TRUE, timer |-> FALSE, sleep |-> FALSE], param)
    IN  /\ events = s.queue /\ current_duty = s.aim /\ duty_now = s.now
        /\ pwm_duty = s.param /\ pwm = s.pwm /\ change_finish = s.done
        /\ timer = s.timer /\ light_sleep_flg = s.sleep /\ dim = d

\* light_status_set of the web server, user_esp_platform_set_info of the cloud:
\* a colour other than black wakes the Wi-Fi first.
light_status_set(aim) ==
  Becomes(light_set_aim([State EXCEPT !.sleep = @ /\ aim = Dark], aim))

AdjTimer == timer /\ Becomes(light_dh_pwm_adj_proc([State EXCEPT !.timer = FALSE]))

Next == AdjTimer \/ \E aim \in Duties : light_status_set(aim)

\* timer_pwm_adj runs out.
Fairness == WF_vars(AdjTimer)

Spec == Init /\ [][Next]_vars /\ Fairness

-----------------------------------------------------------------------------
(* The queue of 40 events holds nothing between two calls: every colour    *)
(* becomes the aim at once (light_pwm_smooth_adj_proc), so that none is    *)
(* lost for want of room; and the Wi-Fi sleeps only while the light is     *)
(* dark or goes dark.                                                      *)
QueueNeverFills ==
  /\ events = <<>>
  /\ light_sleep_flg => pwm = Dark \/ current_duty = Dark
  /\ change_finish => ~timer /\ pwm = current_duty /\ pwm_duty = current_duty

(* When nobody asks for another colour, the light reaches the one asked    *)
(* for, unless it started from a stored duty below 20: then the first step *)
(* of light_dh_pwm_adj_proc equals light_param and user_light_set_duty     *)
(* never hands it to the driver.                                           *)
ColourReached ==
  <>[][current_duty' = current_duty]_vars
    => <>[](pwm = current_duty \/ (current_duty = [c \in Channels |-> dim] /\ dim \in 1..19))
=============================================================================
