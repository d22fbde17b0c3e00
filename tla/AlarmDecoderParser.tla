--------------------------- MODULE AlarmDecoderParser ---------------------------
(***************************************************************************)
(* The virtual partition state of AlarmDecoderParser::put(): what one      *)
(* decoded keypad (ALPHA) message, one DSC expander (EXP) message and one  *)
(* configuration message do to the partition it is about, which events the *)
(* subscribers get, and the timeouts of the debounced indications and of   *)
(* the zones.                                                              *)
(*                                                                         *)
(* A message is the record of what put() reads from it: the panel type,    *)
(* the class of its text, the set of bits that are on, the beep count, the *)
(* number in section 2 and the two marks that make the number no zone.     *)
(* Line framing, regular expressions and the address-mask lookup are       *)
(* elsewhere: a message already names its partition, 0 being the system    *)
(* partition (address mask 0).                                             *)
(***************************************************************************)
EXTENDS Naturals, FiniteSets, FiniteSetsExt

CONSTANTS
  Partitions,     \* partition keys; 0 is the system partition
  Zones,          \* zone numbers
  ZoneList,       \* ZoneList[p]: zones the configuration gives partition p
  AlphaMessages,  \* the keypad messages of the instance
  PanelModes,     \* panel modes the AD2* is configured for
  MaxBeeps,       \* largest beep count in a message
  FIRE_TIMEOUT, BEEPS_TIMEOUT, ZONE_TIMEOUT,  \* seconds
  MaxTime         \* bound on the clock

(* Bits copied from the message, and bits the parser decides itself. *)
Latched == {"ready", "armed_away", "armed_stay", "entry_delay_off",
            "perimeter_only", "chime_on", "programming", "ac_power",
            "zone_bypassed"}
Judged  == {"exit_now", "fire_alarm", "battery_low", "alarm_sounding"}
Flags   == Latched \cup Judged

Bits  == Latched \cup {"fire_alarm", "battery_low", "alarm_sounding",
                       "alarm_event_occurred", "system_issue"}
Texts == {"SYSTEM", "ARMED", "MAY EXIT NOW", "EXIT DELAY", "OTHER"}
ADEMCO_PANEL  == "A"
DSC_PANEL     == "D"
UNKNOWN_PANEL == "?"
Panels == {ADEMCO_PANEL, DSC_PANEL}

AlphaMessage ==
  [panel : Panels, text : Texts, on : SUBSET Bits, beeps : 0..MaxBeeps,
   zone : Zones, system_specific : BOOLEAN, special : BOOLEAN]

ZoneStates == {"UNKNOWN", "OPEN", "CLOSED", "TROUBLE"}
ZoneRecord == [state : ZoneStates, reset : Nat, low : BOOLEAN, lowReset : Nat]

ASSUME ParserAssumption ==
  /\ Partitions \subseteq Nat
  /\ 0 \in Partitions
  /\ IsFiniteSet(Partitions)
  /\ ZoneList \in [Partitions -> SUBSET Zones]
  /\ AlphaMessages \subseteq AlphaMessage
  /\ PanelModes \subseteq Panels
  /\ MaxBeeps \in Nat
  /\ FIRE_TIMEOUT \in Nat \ {0}
  /\ BEEPS_TIMEOUT \in Nat \ {0}
  /\ ZONE_TIMEOUT \in Nat \ {0}
  /\ MaxTime \in Nat

VARIABLES
  now,            \* monotonicTime()
  panel_type,     \* the parser's panel mode
  unknown_state,  \* unknown_state[p]: no keypad message seen yet
  flags,          \* flags[p]: the flags of AD2PartitionState that are true
  fire_timeout, beeps, beeps_timeout,
  zone_states,    \* zone_states[p][z]; state UNKNOWN stands for no map entry
  filter_zero,    \* address_mask_filter of the system partition reads as 0
  \* What the subscribers were last told, and when things were last heard.
  told, toldBeeps, toldZones,
  lastAlpha, lastFire, lastBeeps, lastReport, lastSweep

stateVars == <<panel_type, unknown_state, flags, fire_timeout, beeps,
               beeps_timeout, zone_states, filter_zero>>
viewVars  == <<told, toldBeeps, toldZones>>
heardVars == <<lastAlpha, lastFire, lastBeeps, lastReport, lastSweep>>
vars == <<now, stateVars, viewVars, heardVars>>

NoZone == [state |-> "UNKNOWN", reset |-> 0, low |-> FALSE, lowReset |-> 0]

Init ==
  /\ now = 1
  /\ panel_type = UNKNOWN_PANEL
  /\ unknown_state = [p \in Partitions |-> TRUE]
  /\ flags = [p \in Partitions |-> {}]
  /\ fire_timeout = [p \in Partitions |-> 0]
  /\ beeps = [p \in Partitions |-> 0]
  /\ beeps_timeout = [p \in Partitions |-> 0]
  /\ zone_states = [p \in Partitions |-> [z \in Zones |-> NoZone]]
  \* The member has no initialiser: whatever the heap block held is ORed with 0.
  /\ filter_zero \in BOOLEAN
  /\ told = flags
  /\ toldBeeps = beeps
  /\ toldZones = [p \in Partitions |-> [z \in Zones |-> <<"UNKNOWN", FALSE>>]]
  /\ lastAlpha = [p \in Partitions |-> 0]
  /\ lastFire = [p \in Partitions |-> 0]
  /\ lastBeeps = [p \in Partitions |-> 0]
  /\ lastReport = [p \in Partitions |-> [z \in Zones |-> 0]]
  /\ lastSweep = 0

--------------------------------------------------------------------------------
(* The new values of the flags the parser decides itself. *)

AdemcoSystem(m) == m.panel = ADEMCO_PANEL /\ m.text = "SYSTEM"
Armed(m) == m.on \cap {"armed_stay", "armed_away"} # {}

\* Ademco: the battery bit counts only on SYSTEM messages, and not on the
\* system partition (mask 0).
LowBattery(p, m) ==
  "battery_low" \in IF /\ m.panel = ADEMCO_PANEL
                       /\ m.text = "SYSTEM" => p = 0 /\ filter_zero
                    THEN flags[p] ELSE m.on

ExitNow(p, m) ==
  IF Armed(m) /\ m.panel = ADEMCO_PANEL /\ m.text \in {"ARMED", "MAY EXIT NOW"}
  THEN m.text = "MAY EXIT NOW"
  ELSE \/ "exit_now" \in flags[p]
       \/ Armed(m) /\ m.panel = DSC_PANEL /\ m.text = "EXIT DELAY"

FireTimedOut(p) == "fire_alarm" \in flags[p] /\ fire_timeout[p] < now

FireAlarm(p, m) ==
  \/ "fire_alarm" \in m.on
  \/ /\ ~unknown_state[p]
     /\ "fire_alarm" \in flags[p]
     /\ ~FireTimedOut(p)

FireTimeout(p, m) ==
  IF unknown_state[p] THEN fire_timeout[p]
  ELSE IF "fire_alarm" \in m.on THEN now + FIRE_TIMEOUT
  ELSE IF FireTimedOut(p) THEN 0
  ELSE fire_timeout[p]

AlarmBell(p, m) ==
  \/ "alarm_sounding" \in m.on
  \/ /\ ~unknown_state[p]
     /\ "alarm_sounding" \in flags[p]
     /\ "alarm_event_occurred" \in m.on

\* Mutant: a beep count is held for good.
BeepsForGood(p, m) == IF m.beeps # 0 THEN m.beeps ELSE beeps[p]

Beeps(p, m) ==
  IF m.beeps # 0 THEN m.beeps
  ELSE IF beeps_timeout[p] < now THEN 0 ELSE beeps[p]

NewFlags(p, m) ==
  (m.on \cap Latched)
    \cup {f \in {"exit_now"} : ExitNow(p, m)}
    \cup {f \in {"fire_alarm"} : FireAlarm(p, m)}
    \cup {f \in {"battery_low"} : LowBattery(p, m)}
    \cup {f \in {"alarm_sounding"} : AlarmBell(p, m)}

--------------------------------------------------------------------------------
(* The events a message raises.  ARM stands for ON_ARM and ON_DISARM. *)

KindOf == [f \in Flags |->
  CASE f \in {"ready", "entry_delay_off", "perimeter_only"} -> "READY"
    [] f \in {"armed_stay", "armed_away"} -> "ARM"
    [] OTHER -> f]

Changed(p, m, f) == (f \in flags[p]) # (f \in NewFlags(p, m))

\* The first message of a partition is announced by READY; these events are
\* tested for on every message, the ones of SendsSynced only after the first.
SendReady(p, m) ==
  \/ unknown_state[p]
  \/ \E f \in {"ready", "entry_delay_off", "perimeter_only"} :
       (f \in flags[p]) # (f \in m.on)

SendsSynced(p, m, k) ==
  /\ ~unknown_state[p]
  /\ \/ /\ k = "fire_alarm"
        /\ IF "fire_alarm" \in m.on THEN "fire_alarm" \notin flags[p]
                                    ELSE FireTimedOut(p)
     \/ k = "ARM" /\ \E f \in {"armed_stay", "armed_away"} : Changed(p, m, f)
     \/ /\ k \in {"chime_on", "programming", "ac_power", "battery_low",
                  "alarm_sounding", "zone_bypassed"}
        /\ Changed(p, m, k)

Sends(p, m, k) ==
  \/ k = "READY" /\ SendReady(p, m)
  \/ k = "exit_now" /\ Changed(p, m, "exit_now")
  \/ k = "BEEPS" /\ beeps[p] # Beeps(p, m)
  \/ SendsSynced(p, m, k)

\* The flags a subscriber knows that knew `old': an event carries the new values of
\* its flags.
Heard(p, m, old) ==
  {f \in NewFlags(p, m) : Sends(p, m, KindOf[f])} \cup {f \in old : ~Sends(p, m, KindOf[f])}

--------------------------------------------------------------------------------
(* Zone tracking, Ademco only and never while programming. *)

\* Mutant: the keypad messages of every panel type are zone reports.
TracksZonesAnyPanel(m) == "programming" \notin m.on

TracksZones(m) == m.panel = ADEMCO_PANEL /\ "programming" \notin m.on

RestoresZones(p, m) == SendReady(p, m) /\ "ready" \in m.on

ReportsZone(p, m) ==
  /\ ~RestoresZones(p, m)
  /\ ~AdemcoSystem(m)
  /\ ~m.system_specific
  /\ ~m.special
  /\ ~ExitNow(p, m)

\* AD2ZoneState::state(): a state and the time it resets by itself.
WithState(r, s, t) ==
  [state |-> s, reset |-> t, low |-> r.low, lowReset |-> r.lowReset]

Restored(r) ==
  IF r.state \in {"UNKNOWN", "CLOSED"} THEN r
  ELSE WithState(r, "CLOSED", now + ZONE_TIMEOUT)

Reported(r, p, m) ==
  [state    |-> IF m.on \cap {"system_issue", "alarm_event_occurred"} # {}
                THEN "TROUBLE" ELSE "OPEN",
   reset    |-> now + ZONE_TIMEOUT,
   low      |-> r.low \/ LowBattery(p, m),
   lowReset |-> IF LowBattery(p, m) THEN now + ZONE_TIMEOUT ELSE r.lowReset]

\* The zones of partition q after message m of partition p was tracked.
Tracked(p, m, q, z) ==
  LET r == zone_states[q][z] IN
  IF q # p THEN r
  ELSE IF RestoresZones(p, m) THEN Restored(r)
  ELSE IF ReportsZone(p, m) /\ z = m.zone THEN Reported(r, p, m)
  ELSE r

\* checkZoneTimeout: every partition's expired zones and zone batteries.
\* Mutant: a timer runs out one second early.
ExpiredEarly(t) == t # 0 /\ t <= now

Expired(t) == t # 0 /\ t < now
Swept(r) ==
  LET open == r.state # "CLOSED" /\ Expired(r.reset)
      low  == r.low /\ Expired(r.lowReset)
  IN [state    |-> IF open THEN "CLOSED" ELSE r.state,
      reset    |-> IF open THEN 0 ELSE r.reset,
      low      |-> r.low /\ ~low,
      lowReset |-> IF low THEN 0 ELSE r.lowReset]

\* Mutant: only the zones of the message's own partition are swept.
NewZoneOwnSweep(p, m, q, z) ==
  IF TracksZones(m) /\ q = p THEN Swept(Tracked(p, m, q, z)) ELSE zone_states[q][z]

NewZone(p, m, q, z) ==
  IF TracksZones(m) THEN Swept(Tracked(p, m, q, z)) ELSE zone_states[q][z]

Shown(r) == <<r.state, r.low>>

\* Mutant: an expired zone battery is cleared without an event.
SendsZoneStateOnly(p, m, q, z) ==
  LET r == zone_states[q][z]
      t == Tracked(p, m, q, z)
  IN /\ TracksZones(m)
     /\ \/ Shown(r) # Shown(t)
        \/ t.state # Swept(t).state

\* ON_ZONE_CHANGE of zone z of partition q: sent where the tracking and the
\* sweep see a change, each for itself.
SendsZone(p, m, q, z) ==
  LET r == zone_states[q][z]
      t == Tracked(p, m, q, z)
  IN /\ TracksZones(m)
     /\ \/ Shown(r) # Shown(t)
        \/ Shown(t) # Shown(Swept(t))

--------------------------------------------------------------------------------
(* The handlers. *)

Alpha(p, m) ==
  LET new == NewFlags(p, m) IN
  /\ panel_type' = m.panel
  /\ unknown_state' = [unknown_state EXCEPT ![p] = FALSE]
  /\ flags' = [flags EXCEPT ![p] = new]
  /\ fire_timeout' = [fire_timeout EXCEPT ![p] = FireTimeout(p, m)]
  /\ beeps' = [beeps EXCEPT ![p] = Beeps(p, m)]
  /\ beeps_timeout' =
       [beeps_timeout EXCEPT ![p] = IF m.beeps # 0 THEN now + BEEPS_TIMEOUT ELSE @]
  /\ zone_states' =
       [q \in Partitions |-> [z \in Zones |-> NewZone(p, m, q, z)]]
  /\ UNCHANGED <<now, filter_zero>>
  \* What the subscribers see.
  /\ told' = [told EXCEPT ![p] = IF unknown_state[p] THEN new ELSE Heard(p, m, @)]
  /\ toldBeeps' =
       [toldBeeps EXCEPT ![p] = IF Sends(p, m, "BEEPS") THEN Beeps(p, m) ELSE @]
  /\ toldZones' = [q \in Partitions |-> [z \in Zones |->
       IF SendsZone(p, m, q, z) THEN Shown(NewZone(p, m, q, z))
                                ELSE toldZones[q][z]]]
  \* When things were heard.
  /\ lastAlpha' = [lastAlpha EXCEPT ![p] = now]
  /\ lastFire' = [lastFire EXCEPT ![p] =
       IF ~unknown_state[p] /\ "fire_alarm" \in m.on THEN now ELSE @]
  /\ lastBeeps' = [lastBeeps EXCEPT ![p] = IF m.beeps # 0 THEN now ELSE @]
  /\ lastReport' = [lastReport EXCEPT ![p] = [z \in Zones |->
       IF TracksZones(m) /\ ReportsZone(p, m) /\ z = m.zone THEN now ELSE @[z]]]
  /\ lastSweep' = IF TracksZones(m) THEN now ELSE lastSweep

\* The partition an expander zone belongs to: the first whose configured list
\* has it, else the system partition.
ExpPartition(z) ==
  LET homes == {p \in Partitions : z \in ZoneList[p]}
  IN IF homes = {} THEN 0 ELSE Min(homes)

Exp(z, open) ==
  LET p == ExpPartition(z)
      s == IF open THEN "OPEN" ELSE "CLOSED"
  IN /\ panel_type = DSC_PANEL
     /\ zone_states' = [zone_states EXCEPT ![p][z] = WithState(@, s, 0)]
     /\ toldZones' = [toldZones EXCEPT ![p][z] = <<s, zone_states[p][z].low>>]
     /\ UNCHANGED <<now, panel_type, unknown_state, flags, fire_timeout, beeps,
                    beeps_timeout, filter_zero, told, toldBeeps, heardVars>>

\* !CONFIG> with a MODE key.
Config(mode) ==
  /\ panel_type' = mode
  /\ UNCHANGED <<now, unknown_state, flags, fire_timeout, beeps, beeps_timeout,
                 zone_states, filter_zero, viewVars, heardVars>>

Tick ==
  /\ now < MaxTime
  /\ now' = now + 1
  /\ UNCHANGED <<stateVars, viewVars, heardVars>>

Next ==
  \/ \E p \in Partitions, m \in AlphaMessages : Alpha(p, m)
  \/ \E z \in Zones, open \in BOOLEAN : Exp(z, open)
  \/ \E mode \in PanelModes : Config(mode)
  \/ Tick

Spec == Init /\ [][Next]_vars

--------------------------------------------------------------------------------
(* Properties. *)

\* Every variable stays in its type; put() never stores a message bit that is
\* not one of the tracked flags.
TypeOK ==
  /\ now \in Nat \ {0}
  /\ panel_type \in Panels \cup {UNKNOWN_PANEL}
  /\ unknown_state \in [Partitions -> BOOLEAN]
  /\ flags \in [Partitions -> SUBSET Flags]
  /\ fire_timeout \in [Partitions -> Nat]
  /\ beeps \in [Partitions -> 0..MaxBeeps]
  /\ beeps_timeout \in [Partitions -> Nat]
  /\ zone_states \in [Partitions -> [Zones -> ZoneRecord]]
  /\ filter_zero \in BOOLEAN
  /\ told \in [Partitions -> SUBSET Flags]
  /\ toldBeeps \in [Partitions -> 0..MaxBeeps]
  /\ toldZones \in [Partitions -> [Zones -> ZoneStates \X BOOLEAN]]
  /\ lastAlpha \in [Partitions -> Nat]
  /\ lastFire \in [Partitions -> Nat]
  /\ lastBeeps \in [Partitions -> Nat]
  /\ lastReport \in [Partitions -> [Zones -> Nat]]
  /\ lastSweep \in Nat

\* A subscriber that takes the whole state from the first READY event and each
\* later value from the event that carries it is never out of date: no flag,
\* beep count, zone state or zone battery changes silently, in any partition,
\* through restored bits, timeouts and the sweep of other partitions' zones.
SubscribersInSync ==
  \A p \in Partitions :
    /\ told[p] = flags[p]
    /\ toldBeeps[p] = beeps[p]
    /\ \A z \in Zones : toldZones[p][z] = Shown(zone_states[p][z])

\* The fire flag, once confirmed by a message after the first, is held for
\* FIRE_TIMEOUT after the last fire bit: messages without it do not bounce it, and
\* the first one of the partition after the timeout ends it.  A ready message does
\* not end it sooner.
Fire == INSTANCE HeldIndicator WITH
          Ids <- Partitions, Hold <- FIRE_TIMEOUT,
          heard <- lastFire, asked <- lastAlpha,
          on <- [p \in Partitions |-> "fire_alarm" \in flags[p] /\ lastFire[p] # 0]
FireIsHeld == Fire!Spec

\* The beep count is held for BEEPS_TIMEOUT after the last message with beeps, and
\* ended by the first message of the partition after that.
Beep == INSTANCE HeldIndicator WITH
          Ids <- Partitions, Hold <- BEEPS_TIMEOUT,
          heard <- lastBeeps, asked <- lastAlpha,
          on <- [p \in Partitions |-> beeps[p] # 0]
BeepsAreHeld == Beep!Spec

\* Neither indicator is dropped within its hold by a message that does not carry it,
\* nor does it survive such a message after the hold, whatever zones, beeps, other
\* partitions and panel changes came in between.
IndicatorsAreHeld == FireIsHeld /\ BeepsAreHeld

\* After any Ademco message no zone of any partition, whether or not the message
\* was about it, is open or has a low battery on a timer that ran out before.
NoOverdueZone ==
  \A p \in Partitions, z \in Zones :
    LET r == zone_states[p][z]
    IN /\ r.state \in {"OPEN", "TROUBLE"} /\ r.reset # 0 => r.reset >= lastSweep
       /\ r.low => r.lowReset >= lastSweep

\* A faulted Ademco zone is not closed while the panel keeps reporting it: it
\* closes when its partition is ready, or ZONE_TIMEOUT after its last report.
ZoneClosesForAReason ==
  [][\A p \in Partitions, z \in Zones :
       /\ zone_states[p][z].state \in {"OPEN", "TROUBLE"}
       /\ zone_states'[p][z].state = "CLOSED"
       /\ panel_type' = ADEMCO_PANEL
       => \/ "ready" \in flags'[p]
          \/ now > lastReport[p][z] + ZONE_TIMEOUT]_vars

\* The partition that shows zone z of a DSC panel.
ShowsZone(p, z) ==
  IF \E q \in Partitions : z \in ZoneList[q]
  THEN /\ z \in ZoneList[p]
       /\ \A q \in Partitions : z \in ZoneList[q] => p <= q
  ELSE p = 0

\* While a DSC panel is connected keypad messages leave every zone alone, and an
\* expander message changes one zone of one partition: the first one whose list has
\* it, or the system partition when none has.  Where lists overlap the others keep
\* what they have and are announced nothing: the loop ends at its first match
\* ("Zone can only be mapped to one partition"), although the comment before it
\* speaks of a notification for every matching partition.
DSCZonesFollowExpander ==
  [][panel_type' = DSC_PANEL =>
       /\ Cardinality({p \in Partitions : zone_states'[p] # zone_states[p]}) <= 1
       /\ \A p \in Partitions, z \in Zones :
            \/ zone_states'[p][z] # zone_states[p][z]
            \/ toldZones'[p][z] # toldZones[p][z]
            => ShowsZone(p, z)]_vars
================================================================================
