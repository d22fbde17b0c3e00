-------------------------- MODULE MCAlarmDecoderParser --------------------------
(* Instances of AlarmDecoderParser: the keypad messages each run plays. *)
EXTENDS AlarmDecoderParser

Message(panel, text, on, beepCount, zone, specific, mark) ==
  [panel |-> panel, text |-> text, on |-> on, beeps |-> beepCount, zone |-> zone,
   system_specific |-> specific, special |-> mark]

\* A message with system_specific set, as the panel sends its status lines.
Status(panel, text, on, beepCount) ==
  Message(panel, text, on, beepCount, 1, TRUE, FALSE)

\* A fault, check or low-battery report for a zone.
Report(zone, on) == Message("A", "OTHER", on, 0, zone, FALSE, FALSE)

NoLists == [p \in Partitions |-> {}]

\* Zone reports of an Ademco panel, ready and programming status lines.
ZoneMessages ==
  {Report(z, on) : z \in Zones,
                   on \in {{}, {"system_issue"}}}
    \cup {Status("A", "OTHER", on, 0) : on \in {{"ready"}, {"programming"}}}
    \cup {Status("A", "SYSTEM", {"battery_low"}, 0)}

\* Fire, alarm bell and beeps.
AlarmMessages ==
  {Status("A", "OTHER", on \cup bell, b) :
     on \in {{}, {"fire_alarm"}, {"ready"}},
     bell \in SUBSET {"alarm_sounding", "alarm_event_occurred"},
     b \in 0..MaxBeeps}

\* Arming and the exit countdown.
ArmMessages ==
  {Status("A", "OTHER", {}, 0),
   Status("A", "MAY EXIT NOW", {"armed_away", "ac_power"}, 0),
   Status("A", "ARMED", {"armed_away", "perimeter_only"}, 0)}

\* A DSC panel: arming with exit delay, with a bit that is announced with READY
\* only, and a status line; a stray Ademco zone report that ends the exit delay.
PanelMessages ==
  {Status("D", "EXIT DELAY", {"armed_away", "perimeter_only"}, 0),
   Message("D", "OTHER", {"system_issue"}, 0, 1, FALSE, FALSE),
   Message("A", "ARMED", {"armed_away"}, 0, 1, FALSE, FALSE)}
DscLists == [p \in Partitions |-> IF p = 0 THEN {} ELSE {1}]

\* Battery reports: of a zone, and of the system.
BatteryMessages ==
  {Report(1, {"battery_low"}), Status("A", "OTHER", {}, 0),
   Status("A", "SYSTEM", {"battery_low"}, 0)}
================================================================================
