------------------------------ MODULE KeyPress ------------------------------
(***************************************************************************)
(* The push button: the driver app/driver/key.c with the two handlers that *)
(* app/user/user_key.c installs (one key, USER_KEY_NUM = 1).               *)
(*                                                                         *)
(* The GPIO interrupt, the timer callbacks of the main task and the pin    *)
(* itself are three independent actors.  Edges are latched only while the  *)
(* pin's interrupt is enabled for them, so the handler and the 50 ms       *)
(* callback are split where the pin may change unnoticed: between masking  *)
(* or sampling the pin and re-arming an edge.                              *)
(*                                                                         *)
(* Time advances in ticks, and a due callback runs before the next one.    *)
(***************************************************************************)
EXTENDS Integers, TLAPS

CONSTANTS
  Debounce,   \* key_50ms, in ticks
  Hold,       \* key_3s
  Delay       \* tmr, the 100 ms from a long press to system_restart

ASSUME KeyAssumption ==
  /\ Debounce \in Nat \ {0}
  /\ Delay \in Nat \ {0}
  /\ Hold \in Nat
  /\ Debounce < Delay
  /\ Delay < Hold

VARIABLES
  pin,        \* the level of the key, 0 while pressed
  intr,       \* the edge gpio_pin_intr_state_set enabled
  latched,    \* the key's bit in GPIO_STATUS
  key_level,
  key_3s, key_50ms, tmr,   \* ticks left of each timer, or Off
  pc,         \* "intr": in key_intr_handler; "up", "down": in key_50ms_cb
  opmode      \* the Wi-Fi mode saved in flash

(* History, used by the properties only. *)
VARIABLES
  high,       \* ticks the pin has been up without a break, up to Debounce + 1
  gap,        \* the longest such run since key_3s was armed
  missed      \* since then a release fell into a window where no edge is
              \* latched

vars == <<pin, intr, latched, key_level, key_3s, key_50ms, tmr, pc, opmode,
          high, gap, missed>>

Off == -1

\* The state key_init leaves behind, with the key up.
Init ==
  /\ pin = 1 /\ intr = "NEGEDGE" /\ latched = FALSE /\ key_level = 1
  /\ key_3s = Off /\ key_50ms = Off /\ tmr = Off /\ pc = "idle"
  /\ opmode \in {"STATION", "SOFTAP"}
  /\ high = 0 /\ gap = 0 /\ missed = FALSE

-----------------------------------------------------------------------------
(* The pin and the clock (external) *)

Latches(level) ==
  \/ intr = "NEGEDGE" /\ level = 0
  \/ intr = "POSEDGE" /\ level = 1

Edge ==
  /\ pin' = 1 - pin
  /\ latched' = (latched \/ Latches(1 - pin))
  /\ high' = 0
  /\ UNCHANGED <<intr, key_level, key_3s, key_50ms, tmr, pc, opmode, gap,
                 missed>>

Ticked(t) == IF t > 0 THEN t - 1 ELSE t

Capped(n, bound) == IF n > bound THEN bound ELSE n

Tick ==
  /\ pc = "idle" /\ ~ latched
  /\ key_3s # 0 /\ key_50ms # 0 /\ tmr # 0
  /\ key_3s' = Ticked(key_3s)
  /\ key_50ms' = Ticked(key_50ms)
  /\ tmr' = Ticked(tmr)
  /\ high' = IF pin = 1 THEN Capped(high + 1, Debounce + 1) ELSE 0
  /\ gap' = IF high' > gap THEN high' ELSE gap
  /\ UNCHANGED <<pin, intr, latched, key_level, pc, opmode, missed>>

-----------------------------------------------------------------------------
(* The interrupt handler *)

\* key_intr_handler masks the pin and clears its status bit.
IntrMask ==
  /\ pc = "idle" /\ latched
  /\ intr' = "DISABLE"
  /\ latched' = FALSE
  /\ pc' = "intr"
  /\ UNCHANGED <<pin, key_level, key_3s, key_50ms, tmr, opmode, high, gap,
                 missed>>

IntrPressWrongTimer ==
  /\ pc = "intr" /\ key_level = 1
  /\ key_3s' = Debounce
  /\ key_level' = 0 /\ intr' = "POSEDGE" /\ pc' = "idle"
  /\ gap' = 0 /\ missed' = (pin = 1)
  /\ UNCHANGED <<pin, latched, key_50ms, tmr, opmode, high>>

\* Key level 1: a press.  Arm key_3s and wait for the release.
IntrPress ==
  /\ pc = "intr" /\ key_level = 1
  /\ key_3s' = Hold
  /\ key_level' = 0
  /\ intr' = "POSEDGE"
  /\ pc' = "idle"
  /\ gap' = 0
  /\ missed' = (pin = 1)
  /\ UNCHANGED <<pin, latched, key_50ms, tmr, opmode, high>>

IntrReleaseLate ==
  /\ pc = "intr" /\ key_level = 0
  /\ key_50ms' = Delay
  /\ pc' = "idle"
  /\ UNCHANGED <<pin, intr, latched, key_level, key_3s, tmr, opmode, high,
                 gap, missed>>

IntrReleaseNoTimer ==
  /\ pc = "intr" /\ key_level = 0
  /\ pc' = "idle"
  /\ UNCHANGED <<pin, intr, latched, key_level, key_3s, key_50ms, tmr,
                 opmode, high, gap, missed>>

\* Key level 0: perhaps a release.  Look again in 50 ms, the pin masked.
IntrRelease ==
  /\ pc = "intr" /\ key_level = 0
  /\ key_50ms' = Debounce
  /\ pc' = "idle"
  /\ UNCHANGED <<pin, intr, latched, key_level, key_3s, tmr, opmode, high,
                 gap, missed>>

-----------------------------------------------------------------------------
(* The timer callbacks *)

\* user_key_long_press: forget everything, save SOFTAP_MODE, restart soon.
user_key_long_press == opmode' = "SOFTAP" /\ tmr' = Delay

\* user_key_short_press: user_smartconfig_start saves STATION_MODE.
user_key_short_press == opmode' = "STATION"

key_3s_cb ==
  /\ pc = "idle" /\ key_3s = 0
  /\ key_3s' = Off
  /\ IF pin = 0 THEN user_key_long_press ELSE UNCHANGED <<opmode, tmr>>
  /\ UNCHANGED <<pin, intr, latched, key_level, key_50ms, pc, high, gap,
                 missed>>

\* key_50ms_cb disarms its timer and samples the pin ...
key_50ms_cb ==
  /\ pc = "idle" /\ key_50ms = 0
  /\ key_50ms' = Off
  /\ pc' = IF pin = 1 THEN "up" ELSE "down"
  /\ UNCHANGED <<pin, intr, latched, key_level, key_3s, tmr, opmode, high,
                 gap, missed>>

\* ... high: the key is up, the press was a short one;
KeyIsUp ==
  /\ pc = "up"
  /\ key_3s' = Off
  /\ key_level' = 1
  /\ intr' = "NEGEDGE"
  /\ user_key_short_press
  /\ pc' = "idle"
  /\ missed' = FALSE
  /\ UNCHANGED <<pin, latched, key_50ms, tmr, high, gap>>

KeyIsDownMasked ==
  /\ pc = "down"
  /\ pc' = "idle"
  /\ missed' = (missed \/ pin = 1)
  /\ UNCHANGED <<pin, intr, latched, key_level, key_3s, key_50ms, tmr,
                 opmode, high, gap>>

\* ... low: it was a bounce, wait for the next release.
KeyIsDown ==
  /\ pc = "down"
  /\ intr' = "POSEDGE"
  /\ pc' = "idle"
  /\ missed' = (missed \/ pin = 1)
  /\ UNCHANGED <<pin, latched, key_level, key_3s, key_50ms, tmr, opmode,
                 high, gap>>

\* system_restart: the driver starts afresh, the saved mode stays.  The key
\* may be down; a press that began before the restart is not seen.
user_restart ==
  /\ pc = "idle" /\ tmr = 0
  /\ intr' = "NEGEDGE" /\ latched' = FALSE /\ key_level' = 1
  /\ key_3s' = Off /\ key_50ms' = Off /\ tmr' = Off
  /\ gap' = 0 /\ missed' = FALSE
  /\ UNCHANGED <<pin, pc, opmode, high>>

Firmware ==
  \/ IntrMask
  \/ IntrPress
  \/ IntrRelease
  \/ key_3s_cb
  \/ key_50ms_cb
  \/ KeyIsUp
  \/ KeyIsDown
  \/ user_restart

Next == Edge \/ Tick \/ Firmware

\* The hardware delivers interrupts, the SDK runs due timers, time passes.
Fairness == WF_vars(Firmware) /\ WF_vars(Tick)

Spec == Init /\ [][Next]_vars /\ Fairness

-----------------------------------------------------------------------------
(* Properties *)

\* The timers count down from what os_timer_arm was given.
TypeOK ==
  /\ pin \in {0, 1}
  /\ intr \in {"DISABLE", "NEGEDGE", "POSEDGE"}
  /\ latched \in BOOLEAN
  /\ key_level \in {0, 1}
  /\ key_3s \in Off .. Hold
  /\ key_50ms \in Off .. Debounce
  /\ tmr \in Off .. Delay
  /\ pc \in {"idle", "intr", "up", "down"}
  /\ opmode \in {"STATION", "SOFTAP"}
  /\ high \in 0 .. Debounce + 1
  /\ gap \in 0 .. Debounce + 1
  /\ missed \in BOOLEAN

\* The button never goes deaf: whenever no handler is running, either the pin
\* is armed for the edge that leaves key_level (the falling one for level 1,
\* the rising one for level 0), or an interrupt is pending, or the 50 ms timer
\* that will re-arm it is running.
NeverDeaf ==
  (pc = "idle" /\ ~ latched) =>
    \/ key_level = 1 /\ intr = "NEGEDGE" /\ key_50ms = Off
    \/ key_level = 0 /\ intr = "POSEDGE" /\ key_50ms = Off
    \/ key_level = 0 /\ intr = "DISABLE" /\ key_50ms # Off

\* A short press cancels the long one: key_3s runs only while the driver
\* takes the key to be down.
HoldOnlyWhileDown == key_3s # Off => key_level = 0

\* The restart that a long press announces is never put off: no second long
\* press re-arms tmr (user_key_long_press disarms and arms it again) before
\* it has run out.
RestartNotPostponed == [][tmr # Off => tmr' <= tmr]_vars

\* A long press is a long hold: key_3s_cb resets the device only if since the
\* press the pin was never up for longer than the debounce time, unless the
\* driver missed the release between sampling the pin and arming POSEDGE.
LongPressWasHeld ==
  [][(tmr = Off /\ tmr' # Off) => (gap <= Debounce \/ missed)]_vars

\* The driver waits for a rising edge that is already past.
ReleasePast == intr = "POSEDGE" /\ pin = 1 /\ ~ latched

\* A key that is let go is recognised as up, unless its release fell in that
\* window.
ReleaseRecognised ==
  <>[](pin = 1 /\ ~ ReleasePast) => <>[](key_level = 1)

\* key.c announces the long press as "3s, restart & enter softap mode": the
\* device comes back from the restart in soft-AP mode.
RestartInSoftap == [][user_restart => opmode' = "SOFTAP"]_vars
-----------------------------------------------------------------------------
(***************************************************************************)
(* Proofs of the safety properties, for every choice of the three times    *)
(* that KeyAssumption allows.                                              *)
(*                                                                         *)
(* NeverDeaf is not inductive: the handler and the 50 ms callback leave    *)
(* the pin masked while they run, so Shape ties intr, key_level, key_50ms  *)
(* and latched to the position in the code.  RestartNotPostponed needs     *)
(* Apart: a hold that begins after the long press ends after the restart.  *)
(* LongPressWasHeld needs Held: while the pin is up and no release was     *)
(* missed, the debounce timer bounds how long it has been so.              *)
(***************************************************************************)

Shape ==
  /\ intr = "NEGEDGE" => key_level = 1 /\ key_50ms = Off /\ pc = "idle"
  /\ intr = "POSEDGE" => key_level = 0 /\ key_50ms = Off /\ pc = "idle"
  /\ intr = "DISABLE" => ~ latched
  /\ (intr = "DISABLE" /\ pc = "idle") => (key_level = 0 /\ key_50ms # Off)
  /\ pc # "idle" => key_50ms = Off
  /\ pc \in {"up", "down"} => key_level = 0

Apart == (tmr # Off /\ key_3s # Off) => key_3s > tmr

Held ==
  (key_3s # Off /\ ~ missed) =>
    /\ gap <= Debounce
    /\ pin = 1 => \/ (latched \/ pc = "intr") /\ high = 0
                  \/ key_50ms # Off /\ high + key_50ms <= Debounce
                  \/ pc \in {"up", "down"}

IInv == TypeOK /\ Shape /\ HoldOnlyWhileDown /\ Apart /\ Held

\* The state key_init leaves satisfies the invariant.
LEMMA InitInv == Init => IInv
<1> SUFFICES ASSUME Init PROVE IInv
  OBVIOUS
<1> USE KeyAssumption DEF Init, Off
<1>1. latched \in BOOLEAN /\ missed \in BOOLEAN
  BY Zenon
<1>2. TypeOK
  BY <1>1 DEF TypeOK
<1>3. Shape /\ HoldOnlyWhileDown /\ Apart /\ Held
  BY DEF Shape, HoldOnlyWhileDown, Apart, Held
<1> QED
  BY <1>2, <1>3 DEF IInv

\* Every step of the driver, the pin and the clock preserves it.
LEMMA StepInv == IInv /\ [Next]_vars => IInv'
<1> SUFFICES ASSUME IInv, [Next]_vars PROVE IInv'
  OBVIOUS
<1> USE KeyAssumption DEF IInv, Off
<1>1. CASE Edge
  <2>1. TypeOK'
    BY <1>1 DEF Edge, TypeOK, Latches
  <2>2. Shape'
    BY <1>1 DEF Edge, TypeOK, Shape, Latches
  <2>3. HoldOnlyWhileDown' /\ Apart'
    BY <1>1 DEF Edge, HoldOnlyWhileDown, Apart
  <2>4. Held'
    <3> SUFFICES ASSUME key_3s # Off, ~ missed
                 PROVE  /\ gap <= Debounce
                        /\ pin = 0 => \/ latched' \/ pc = "intr"
                                      \/ key_50ms # Off
                                      \/ pc \in {"up", "down"}
      BY <1>1 DEF Edge, TypeOK, Held
    <3>1. gap <= Debounce
      BY DEF Held
    <3>2. ASSUME pin = 0, intr = "POSEDGE" PROVE latched'
      <4>1. Latches(1 - pin)
        BY <3>2 DEF Latches
      <4> QED
        BY <1>1, <4>1, Zenon DEF Edge
    <3>3. ASSUME intr # "POSEDGE"
          PROVE  pc = "intr" \/ key_50ms # Off \/ pc \in {"up", "down"}
      BY <3>3 DEF TypeOK, Shape, HoldOnlyWhileDown
    <3> QED
      BY <3>1, <3>2, <3>3, Zenon
  <2> QED BY <2>1, <2>2, <2>3, <2>4
<1>2. CASE Tick
  <2>1. TypeOK'
    BY <1>2 DEF Tick, TypeOK, Ticked, Capped
  <2>2. Shape' /\ HoldOnlyWhileDown'
    BY <1>2 DEF Tick, TypeOK, Shape, HoldOnlyWhileDown, Ticked
  <2>3. Apart'
    BY <1>2 DEF Tick, TypeOK, Apart, Ticked
  <2>4. Held'
    BY <1>2 DEF Tick, TypeOK, Shape, Held, Ticked, Capped
  <2> QED BY <2>1, <2>2, <2>3, <2>4
<1>3. CASE IntrMask
  BY <1>3 DEF IntrMask, TypeOK, Shape, HoldOnlyWhileDown, Apart, Held
<1>4. CASE IntrPress
  <2>1. TypeOK'
    BY <1>4 DEF IntrPress, TypeOK
  <2>2. Shape' /\ HoldOnlyWhileDown'
    BY <1>4 DEF IntrPress, TypeOK, Shape, HoldOnlyWhileDown
  <2>3. Apart'
    BY <1>4 DEF IntrPress, TypeOK, Apart
  <2>4. missed' <=> pin' = 1
    BY <1>4 DEF IntrPress
  <2>5. Held'
    BY <1>4, <2>4 DEF IntrPress, TypeOK, Held
  <2> QED BY <2>1, <2>2, <2>3, <2>5
<1>5. CASE IntrRelease
  <2>1. TypeOK' /\ Shape' /\ HoldOnlyWhileDown' /\ Apart'
    BY <1>5 DEF IntrRelease, TypeOK, Shape, HoldOnlyWhileDown, Apart
  <2>2. Held'
    BY <1>5 DEF IntrRelease, TypeOK, Shape, Held
  <2> QED BY <2>1, <2>2
<1>6. CASE key_3s_cb
  BY <1>6 DEF key_3s_cb, user_key_long_press, TypeOK, Shape,
              HoldOnlyWhileDown, Apart, Held
<1>7. CASE key_50ms_cb
  BY <1>7 DEF key_50ms_cb, TypeOK, Shape, HoldOnlyWhileDown, Apart, Held
<1>8. CASE KeyIsUp
  <2>1. missed' \in BOOLEAN
    BY <1>8, Zenon DEF KeyIsUp
  <2>2. TypeOK'
    BY <1>8, <2>1 DEF KeyIsUp, user_key_short_press, TypeOK
  <2>3. Shape' /\ HoldOnlyWhileDown' /\ Apart' /\ Held'
    BY <1>8 DEF KeyIsUp, Shape, HoldOnlyWhileDown, Apart, Held
  <2> QED BY <2>2, <2>3
<1>9. CASE KeyIsDown
  BY <1>9 DEF KeyIsDown, TypeOK, Shape, HoldOnlyWhileDown, Apart, Held
<1>10. CASE user_restart
  <2>1. missed' \in BOOLEAN /\ latched' \in BOOLEAN
    BY <1>10, Zenon DEF user_restart
  <2>2. TypeOK'
    BY <1>10, <2>1 DEF user_restart, TypeOK
  <2>3. Shape' /\ HoldOnlyWhileDown' /\ Apart' /\ Held'
    BY <1>10 DEF user_restart, Shape, HoldOnlyWhileDown, Apart, Held
  <2> QED BY <2>2, <2>3
<1>11. CASE UNCHANGED vars
  BY <1>11 DEF vars, TypeOK, Shape, HoldOnlyWhileDown, Apart, Held
<1> QED
  BY <1>1, <1>2, <1>3, <1>4, <1>5, <1>6, <1>7, <1>8, <1>9, <1>10, <1>11
  DEF Next, Firmware

\* The inductive invariant holds in every reachable state of the driver.
THEOREM Invariance == Spec => []IInv
  BY InitInv, StepInv, PTL DEF Spec

\* The timers, levels and modes of key.c stay in their ranges.
THEOREM TypeCorrect == Spec => []TypeOK
<1>1. IInv => TypeOK
  BY DEF IInv
<1> QED
  BY <1>1, Invariance, PTL

\* The button never goes deaf: an unmasked pin waits for the edge that leaves
\* key_level, a masked one has the 50 ms timer running.
THEOREM ButtonNeverDeaf == Spec => []NeverDeaf
<1>1. IInv => NeverDeaf
  BY DEF IInv, TypeOK, Shape, NeverDeaf
<1> QED
  BY <1>1, Invariance, PTL

\* key_3s runs only while the driver takes the key to be down.
THEOREM ShortCancelsLong == Spec => []HoldOnlyWhileDown
<1>1. IInv => HoldOnlyWhileDown
  BY DEF IInv
<1> QED
  BY <1>1, Invariance, PTL

\* No second long press puts off the restart that the first one announced.
THEOREM RestartOnTime == Spec => RestartNotPostponed
<1>1. IInv /\ [Next]_vars => [tmr # Off => tmr' <= tmr]_vars
  <2> SUFFICES ASSUME IInv, Next, tmr # Off PROVE tmr' <= tmr
    BY DEF vars
  <2> USE KeyAssumption DEF IInv, TypeOK, Off
  <2>1. CASE Tick
    BY <2>1 DEF Tick, Ticked
  <2>2. CASE key_3s_cb
    BY <2>2 DEF key_3s_cb, user_key_long_press, Apart
  <2>3. CASE user_restart
    BY <2>3 DEF user_restart
  <2>4. CASE Edge \/ IntrMask \/ IntrPress \/ IntrRelease \/ key_50ms_cb
             \/ KeyIsUp \/ KeyIsDown
    BY <2>4 DEF Edge, IntrMask, IntrPress, IntrRelease, key_50ms_cb, KeyIsUp,
                KeyIsDown
  <2> QED
    BY <2>1, <2>2, <2>3, <2>4 DEF Next, Firmware
<1> QED
  BY <1>1, Invariance, PTL DEF Spec, RestartNotPostponed

\* The device is reset only by a key that was held for the whole time, up to
\* bounces shorter than the debounce time, or by one whose release the driver
\* missed.
THEOREM LongPressIsLong == Spec => LongPressWasHeld
<1>1. IInv /\ [Next]_vars
        => [(tmr = Off /\ tmr' # Off) => (gap <= Debounce \/ missed)]_vars
  <2> SUFFICES ASSUME IInv, Next, tmr = Off, tmr' # Off
               PROVE  gap <= Debounce \/ missed
    BY DEF vars
  <2> USE KeyAssumption DEF IInv, TypeOK, Off
  <2>1. CASE key_3s_cb
    BY <2>1 DEF key_3s_cb, Held
  <2>2. CASE Tick
    BY <2>2 DEF Tick, Ticked
  <2>3. CASE user_restart
    BY <2>3 DEF user_restart
  <2>4. CASE Edge \/ IntrMask \/ IntrPress \/ IntrRelease \/ key_50ms_cb
             \/ KeyIsUp \/ KeyIsDown
    BY <2>4 DEF Edge, IntrMask, IntrPress, IntrRelease, key_50ms_cb, KeyIsUp,
                KeyIsDown
  <2> QED
    BY <2>1, <2>2, <2>3, <2>4 DEF Next, Firmware
<1> QED
  BY <1>1, Invariance, PTL DEF Spec, LongPressWasHeld
=============================================================================
