------------------------------ MODULE PanicButtons -----------------------------
(***************************************************************************)
(* The fire, panic and aux buttons of the SmartThings app: a button must   *)
(* be pressed three times before the panel is told.  A press counts until  *)
(* a timer of FreeRTOS clears the count.  Each of the three buttons has    *)
(* its own count and timer.                                                *)
(***************************************************************************)
EXTENDS Naturals, FiniteSets

CONSTANTS
  Period          \* ticks of the timer

ASSUME ButtonAssumption == Period \in Nat \ {0}

VARIABLES
  trigger_count, trigger_timer,  \* the timer: ticks left, 0 for none
  pressed,        \* pressed[k]: presses k ticks ago
  clearing,       \* the timer's callback has cleared the count, not yet the timer
  untimed,        \* the count holds a press that no timer will clear
  alarmSent       \* the last press was sent to the panel

pressVars == <<trigger_count, trigger_timer, pressed, clearing, untimed, alarmSent>>
ButtonInit ==
  /\ trigger_count = 0 /\ trigger_timer = 0
  /\ pressed = [k \in 0..(2 * Period) |-> 0]
  /\ clearing = FALSE /\ untimed = FALSE /\ alarmSent = FALSE

--------------------------------------------------------------------------------
(* cap_fire_cmd_cb, cap_panic_alarm_cmd_cb, cap_aux_alarm_cmd_cb. *)

Min3(n) == IF n > 3 THEN 3 ELSE n

\* The count is bounded at 4, the presses of a tick at 3.
Press(created) ==
  /\ trigger_count' = IF trigger_count < 4 THEN trigger_count + 1 ELSE 4
  /\ pressed' = [pressed EXCEPT ![0] = Min3(@ + 1)]
  /\ alarmSent' = (trigger_count + 1 >= 3)
  /\ trigger_timer' =
       IF trigger_count + 1 >= 3 THEN trigger_timer
       ELSE IF trigger_timer # 0 \/ created THEN Period ELSE 0
  /\ untimed' = (untimed \/ clearing \/ trigger_timer' = 0)
  /\ UNCHANGED <<clearing>>

Tick ==
  /\ trigger_timer # 1 /\ ~clearing
  /\ trigger_timer' = IF trigger_timer = 0 THEN 0 ELSE trigger_timer - 1
  /\ pressed' = [k \in 0..(2 * Period) |-> IF k = 0 THEN 0 ELSE pressed[k - 1]]
  /\ alarmSent' = FALSE
  /\ UNCHANGED <<trigger_count, clearing, untimed>>

\* Mutant: the count is left.
TriggerClearsTimer ==
  /\ trigger_timer = 1 /\ ~clearing
  /\ clearing' = TRUE
  /\ alarmSent' = FALSE
  /\ UNCHANGED <<trigger_count, trigger_timer, pressed, untimed>>

\* fire_trigger_clear, panic_trigger_clear, aux_trigger_clear: the timer is deleted,
\* the count cleared, ...
TriggerClears ==
  /\ trigger_timer = 1 /\ ~clearing
  /\ clearing' = TRUE
  /\ trigger_count' = 0
  /\ untimed' = FALSE
  /\ alarmSent' = FALSE
  /\ UNCHANGED <<trigger_timer, pressed>>

\* ... and the timer forgotten.
TriggerCleared ==
  /\ clearing
  /\ clearing' = FALSE
  /\ trigger_timer' = 0
  /\ alarmSent' = FALSE
  /\ UNCHANGED <<trigger_count, pressed, untimed>>

--------------------------------------------------------------------------------

ButtonNext == (\E created \in BOOLEAN : Press(created)) \/ Tick \/ TriggerClears \/ TriggerCleared

ButtonSpec == ButtonInit /\ [][ButtonNext]_pressVars

--------------------------------------------------------------------------------
(* Properties. *)

\* The presses of the last two periods: <<k, n>> is the n-th of the tick k ticks ago.
Presses == {p \in (0..(2 * Period)) \X (1..3) : p[2] <= pressed[p[1]]}

\* A panic is sent to the panel only after three presses within twice the period of
\* the timer, unless a press slipped in while the timer's callback ran, or found no
\* timer.
PanicTakesThreePresses ==
  alarmSent /\ ~untimed => Cardinality(Presses) >= 3
================================================================================
