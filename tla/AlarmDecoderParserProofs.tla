------------------------ MODULE AlarmDecoderParserProofs ------------------------
(***************************************************************************)
(* Proofs about AlarmDecoderParser for every set of partitions, zones and  *)
(* messages and every timeout.                                             *)
(***************************************************************************)
EXTENDS AlarmDecoderParser, FiniteSetTheorems, WellFoundedInduction, TLAPS

USE ParserAssumption

LEMMA ConstantTypes ==
  /\ Partitions \subseteq Nat /\ 0 \in Partitions
  /\ FIRE_TIMEOUT \in Nat \ {0} /\ BEEPS_TIMEOUT \in Nat \ {0}
  /\ ZONE_TIMEOUT \in Nat \ {0} /\ MaxBeeps \in Nat
  /\ \A m \in AlphaMessages :
       /\ m.on \subseteq Bits /\ m.beeps \in 0..MaxBeeps
       /\ m.zone \in Zones /\ m.panel \in Panels
  BY DEF ParserAssumption, AlphaMessage

\* The flags stored after a message are tracked flags.
LEMMA NewFlagsType ==
  ASSUME NEW p \in Partitions, NEW m \in AlphaMessages
  PROVE  NewFlags(p, m) \subseteq Flags
  BY DEF NewFlags, Flags, Judged

LEMMA FireTimeoutType ==
  ASSUME TypeOK, NEW p \in Partitions, NEW m \in AlphaMessages
  PROVE  FireTimeout(p, m) \in Nat
  BY ConstantTypes DEF TypeOK, FireTimeout

LEMMA BeepsType ==
  ASSUME TypeOK, NEW p \in Partitions, NEW m \in AlphaMessages
  PROVE  Beeps(p, m) \in 0..MaxBeeps
  BY ConstantTypes DEF TypeOK, Beeps

\* Tracking and sweeping a zone yields a zone.
LEMMA TrackedType ==
  ASSUME TypeOK, NEW p \in Partitions, NEW m \in AlphaMessages,
         NEW q \in Partitions, NEW z \in Zones
  PROVE  Tracked(p, m, q, z) \in ZoneRecord
  <1>1. /\ zone_states[q][z] \in ZoneRecord
        /\ now + ZONE_TIMEOUT \in Nat
    BY ConstantTypes DEF TypeOK
  <1>2. LowBattery(p, m) \in BOOLEAN
    BY DEF LowBattery
  <1>3. Restored(zone_states[q][z]) \in ZoneRecord
    BY <1>1 DEF Restored, WithState, ZoneRecord, ZoneStates
  <1>4. Reported(zone_states[q][z], p, m) \in ZoneRecord
    BY <1>1, <1>2 DEF Reported, ZoneRecord, ZoneStates
  <1>5. QED
    BY <1>1, <1>3, <1>4 DEF Tracked

LEMMA SweptType ==
  ASSUME NEW r \in ZoneRecord
  PROVE  Swept(r) \in ZoneRecord
  BY DEF Swept, ZoneRecord, ZoneStates

LEMMA NewZoneType ==
  ASSUME TypeOK, NEW p \in Partitions, NEW m \in AlphaMessages,
         NEW q \in Partitions, NEW z \in Zones
  PROVE  NewZone(p, m, q, z) \in ZoneRecord
  BY TrackedType, SweptType DEF NewZone, TypeOK

LEMMA ShownType ==
  ASSUME NEW r \in ZoneRecord
  PROVE  Shown(r) \in ZoneStates \X BOOLEAN
  BY DEF Shown, ZoneRecord

LEMMA InitType == Init => TypeOK
  <1> SUFFICES ASSUME Init PROVE TypeOK
    OBVIOUS
  <1>1. NoZone \in ZoneRecord
    BY DEF NoZone, ZoneRecord, ZoneStates
  <1>2. <<"UNKNOWN", FALSE>> \in ZoneStates \X BOOLEAN
    BY DEF ZoneStates
  <1>3. QED
    BY <1>1, <1>2, ConstantTypes DEF Init, TypeOK, Flags

LEMMA AlphaType ==
  ASSUME TypeOK, NEW p \in Partitions, NEW m \in AlphaMessages, Alpha(p, m)
  PROVE  TypeOK'
  <1>1. /\ now' \in Nat \ {0}
        /\ panel_type' \in Panels \cup {UNKNOWN_PANEL}
        /\ unknown_state' \in [Partitions -> BOOLEAN]
        /\ filter_zero' \in BOOLEAN
        /\ lastSweep' \in Nat
    BY ConstantTypes DEF TypeOK, Alpha
  <1>2. /\ flags' \in [Partitions -> SUBSET Flags]
        /\ told' \in [Partitions -> SUBSET Flags]
    <2>1. told[p] \subseteq Flags /\ Heard(p, m, told[p]) \subseteq Flags
      BY NewFlagsType DEF TypeOK, Heard
    <2>2. QED
      BY NewFlagsType, <2>1 DEF TypeOK, Alpha
  <1>3. fire_timeout' \in [Partitions -> Nat]
    BY FireTimeoutType DEF TypeOK, Alpha
  <1>4. /\ beeps' \in [Partitions -> 0..MaxBeeps]
        /\ toldBeeps' \in [Partitions -> 0..MaxBeeps]
    BY BeepsType DEF TypeOK, Alpha
  <1>5. beeps_timeout' \in [Partitions -> Nat]
    BY ConstantTypes DEF TypeOK, Alpha
  <1>6. zone_states' \in [Partitions -> [Zones -> ZoneRecord]]
    BY NewZoneType DEF Alpha
  <1>7. toldZones' \in [Partitions -> [Zones -> ZoneStates \X BOOLEAN]]
    BY NewZoneType, ShownType DEF Alpha, TypeOK
  <1>8. /\ lastAlpha' \in [Partitions -> Nat]
        /\ lastFire' \in [Partitions -> Nat]
        /\ lastBeeps' \in [Partitions -> Nat]
        /\ lastReport' \in [Partitions -> [Zones -> Nat]]
    BY DEF TypeOK, Alpha
  <1>9. QED
    BY <1>1, <1>2, <1>3, <1>4, <1>5, <1>6, <1>7, <1>8 DEF TypeOK

LEMMA ExpType ==
  ASSUME TypeOK, NEW z \in Zones, NEW open \in BOOLEAN, Exp(z, open)
  PROVE  TypeOK'
  <1> DEFINE p == ExpPartition(z)
             s == IF open THEN "OPEN" ELSE "CLOSED"
  <1>1. s \in ZoneStates
    BY DEF ZoneStates
  <1>2. zone_states' \in [Partitions -> [Zones -> ZoneRecord]]
    <2>1. zone_states' = [zone_states EXCEPT ![p][z] = WithState(@, s, 0)]
      BY DEF Exp
    <2> HIDE DEF p, s
    <2>2. p \in Partitions => WithState(zone_states[p][z], s, 0) \in ZoneRecord
      BY <1>1 DEF TypeOK, WithState, ZoneRecord
    <2> HIDE DEF WithState
    <2>3. QED
      BY <2>1, <2>2 DEF TypeOK
  <1>3. toldZones' \in [Partitions -> [Zones -> ZoneStates \X BOOLEAN]]
    <2>1. toldZones' = [toldZones EXCEPT ![p][z] = <<s, zone_states[p][z].low>>]
      BY DEF Exp
    <2> HIDE DEF p, s
    <2>2. p \in Partitions => zone_states[p][z].low \in BOOLEAN
      BY DEF TypeOK, ZoneRecord
    <2>3. QED
      BY <1>1, <2>1, <2>2 DEF TypeOK
  <1>4. QED
    BY <1>2, <1>3 DEF Exp, TypeOK, heardVars

\* Type correctness of every reachable state.
THEOREM TypeCorrect == Spec => []TypeOK
  <1>1. TypeOK /\ [Next]_vars => TypeOK'
    <2> SUFFICES ASSUME TypeOK, [Next]_vars PROVE TypeOK'
      OBVIOUS
    <2>1. ASSUME NEW p \in Partitions, NEW m \in AlphaMessages, Alpha(p, m)
          PROVE  TypeOK'
      BY <2>1, AlphaType
    <2>2. ASSUME NEW z \in Zones, NEW open \in BOOLEAN, Exp(z, open)
          PROVE  TypeOK'
      BY <2>2, ExpType
    <2>3. ASSUME NEW mode \in PanelModes, Config(mode)
          PROVE  TypeOK'
      BY <2>3 DEF ParserAssumption, TypeOK, Config, viewVars, heardVars
    <2>4. CASE Tick
      BY <2>4 DEF TypeOK, Tick, stateVars, viewVars, heardVars
    <2>5. CASE UNCHANGED vars
      BY <2>5 DEF TypeOK, vars, stateVars, viewVars, heardVars
    <2>6. QED
      BY <2>1, <2>2, <2>3, <2>4, <2>5 DEF Next
  <1>2. QED
    BY <1>1, InitType, PTL DEF Spec

--------------------------------------------------------------------------------
(* The subscribers' view. *)

\* A flag that a message changes belongs to an event the message raises.
LEMMA ChangeIsSent ==
  ASSUME TypeOK, NEW p \in Partitions, NEW m \in AlphaMessages,
         ~unknown_state[p], NEW f \in Flags, Changed(p, m, f)
  PROVE  Sends(p, m, KindOf[f])
  <1>1. KindOf[f] = CASE f \in {"ready", "entry_delay_off", "perimeter_only"} -> "READY"
                      [] f \in {"armed_stay", "armed_away"} -> "ARM"
                      [] OTHER -> f
    BY DEF KindOf
  <1>2. CASE f \in {"ready", "entry_delay_off", "perimeter_only"}
    <2>1. f \in NewFlags(p, m) <=> f \in m.on
      BY <1>2 DEF NewFlags, Latched
    <2>2. QED
      BY <1>1, <1>2, <2>1 DEF Sends, SendReady, Changed
  <1>3. CASE f \in {"armed_stay", "armed_away"}
    BY <1>1, <1>3 DEF Sends, SendsSynced
  <1>4. CASE f = "exit_now"
    BY <1>1, <1>4 DEF Sends
  <1>5. CASE f = "fire_alarm"
    <2>1. KindOf[f] = "fire_alarm"
      BY <1>1, <1>5
    <2>2. "fire_alarm" \in NewFlags(p, m) <=> FireAlarm(p, m)
      BY DEF NewFlags, Latched
    <2>3. IF "fire_alarm" \in m.on THEN "fire_alarm" \notin flags[p]
                                   ELSE FireTimedOut(p)
      BY <2>2, <1>5 DEF Changed, FireAlarm, FireTimedOut
    <2>4. QED
      BY <2>1, <2>3 DEF Sends, SendsSynced
  <1>6. CASE f \in {"chime_on", "programming", "ac_power", "battery_low",
                    "alarm_sounding", "zone_bypassed"}
    BY <1>1, <1>6 DEF Sends, SendsSynced
  <1>7. QED
    BY <1>2, <1>3, <1>4, <1>5, <1>6 DEF Flags, Latched, Judged

\* A zone whose shown state a message changes has its event sent.
LEMMA ZoneChangeIsSent ==
  ASSUME NEW p \in Partitions, NEW m \in AlphaMessages,
         NEW q \in Partitions, NEW z \in Zones,
         Shown(NewZone(p, m, q, z)) # Shown(zone_states[q][z])
  PROVE  SendsZone(p, m, q, z)
  <1>1. TracksZones(m)
    BY DEF NewZone
  <1>2. NewZone(p, m, q, z) = Swept(Tracked(p, m, q, z))
    BY <1>1 DEF NewZone
  <1> HIDE DEF Shown, Swept, Tracked
  <1>3. QED
    BY <1>1, <1>2 DEF SendsZone

LEMMA AlphaSync ==
  ASSUME TypeOK, SubscribersInSync,
         NEW p \in Partitions, NEW m \in AlphaMessages, Alpha(p, m)
  PROVE  SubscribersInSync'
  <1> SUFFICES ASSUME NEW q \in Partitions
               PROVE  /\ told'[q] = flags'[q]
                      /\ toldBeeps'[q] = beeps'[q]
                      /\ \A z \in Zones : toldZones'[q][z] = Shown(zone_states'[q][z])
    BY DEF SubscribersInSync, Shown
  <1>1. told'[q] = flags'[q]
    <2>1. CASE q # p
      BY <2>1 DEF Alpha, TypeOK, SubscribersInSync
    <2>2. CASE q = p
      <3>1. /\ flags'[q] = NewFlags(p, m)
            /\ told'[q] = IF unknown_state[p] THEN NewFlags(p, m)
                         ELSE Heard(p, m, told[p])
        BY <2>2 DEF Alpha, TypeOK
      <3>2. CASE unknown_state[p]
        BY <3>1, <3>2
      <3>3. CASE ~unknown_state[p]
        <4>1. \A f \in Flags : ~Sends(p, m, KindOf[f]) =>
                (f \in NewFlags(p, m) <=> f \in told[p])
          BY <3>3, ChangeIsSent DEF Changed, SubscribersInSync
        <4>2. QED
          BY <3>1, <3>3, <4>1, NewFlagsType DEF Heard, TypeOK
      <3>4. QED
        BY <3>2, <3>3
    <2>3. QED
      BY <2>1, <2>2
  <1>2. toldBeeps'[q] = beeps'[q]
    <2>1. CASE q # p
      BY <2>1 DEF Alpha, TypeOK, SubscribersInSync
    <2>2. CASE q = p
      <3>1. ~Sends(p, m, "BEEPS") => Beeps(p, m) = beeps[p]
        BY DEF Sends
      <3>2. QED
        BY <2>2, <3>1 DEF Alpha, TypeOK, SubscribersInSync
    <2>3. QED
      BY <2>1, <2>2
  <1>3. ASSUME NEW z \in Zones
        PROVE  toldZones'[q][z] = Shown(zone_states'[q][z])
    <2>1. /\ zone_states'[q][z] = NewZone(p, m, q, z)
          /\ toldZones'[q][z] = IF SendsZone(p, m, q, z) THEN Shown(NewZone(p, m, q, z))
                                                        ELSE toldZones[q][z]
      BY DEF Alpha
    <2>2. toldZones[q][z] = Shown(zone_states[q][z])
      BY DEF SubscribersInSync
    <2> HIDE DEF Shown
    <2>3. QED
      BY <2>1, <2>2, ZoneChangeIsSent
  <1>4. QED
    BY <1>1, <1>2, <1>3

LEMMA ExpSync ==
  ASSUME TypeOK, SubscribersInSync,
         NEW z \in Zones, NEW open \in BOOLEAN, Exp(z, open)
  PROVE  SubscribersInSync'
  <1> DEFINE p == ExpPartition(z)
             s == IF open THEN "OPEN" ELSE "CLOSED"
  <1>1. /\ zone_states' = [zone_states EXCEPT ![p][z] = WithState(@, s, 0)]
        /\ toldZones' = [toldZones EXCEPT ![p][z] = <<s, zone_states[p][z].low>>]
        /\ UNCHANGED <<flags, beeps, told, toldBeeps>>
    BY DEF Exp
  <1> HIDE DEF p, s
  <1>2. \A r : Shown(WithState(r, s, 0)) = <<s, r.low>>
    BY DEF Shown, WithState
  <1>3. ASSUME NEW q \in Partitions, NEW y \in Zones
        PROVE  toldZones'[q][y] = Shown(zone_states'[q][y])
    <2>1. CASE q = p /\ y = z
      <3>1. zone_states'[q][y] = WithState(zone_states[p][z], s, 0)
        BY <1>1, <2>1 DEF TypeOK
      <3>2. toldZones'[q][y] = <<s, zone_states[p][z].low>>
        BY <1>1, <2>1 DEF TypeOK
      <3>3. QED
        BY <3>1, <3>2, <1>2
    <2>2. CASE ~(q = p /\ y = z)
      <3>1. zone_states'[q][y] = zone_states[q][y]
        BY <1>1, <2>2 DEF TypeOK
      <3>2. toldZones'[q][y] = toldZones[q][y]
        BY <1>1, <2>2 DEF TypeOK
      <3>3. QED
        BY <3>1, <3>2 DEF SubscribersInSync
    <2>3. QED
      BY <2>1, <2>2
  <1>4. QED
    BY <1>1, <1>3 DEF SubscribersInSync, Shown

\* In every reachable state the subscribers' view is the parser's state.
THEOREM InSync == Spec => []SubscribersInSync
  <1>1. Init => SubscribersInSync
    <2> SUFFICES ASSUME Init, NEW p \in Partitions
                 PROVE  /\ told[p] = flags[p]
                        /\ toldBeeps[p] = beeps[p]
                        /\ \A z \in Zones : toldZones[p][z] = Shown(zone_states[p][z])
      BY DEF SubscribersInSync
    <2>1. told[p] = flags[p] /\ toldBeeps[p] = beeps[p]
      BY DEF Init
    <2>2. ASSUME NEW z \in Zones
          PROVE  toldZones[p][z] = Shown(zone_states[p][z])
      <3>1. zone_states[p][z] = NoZone /\ toldZones[p][z] = <<"UNKNOWN", FALSE>>
        BY DEF Init
      <3>2. Shown(NoZone) = <<"UNKNOWN", FALSE>>
        BY DEF Shown, NoZone
      <3>3. QED
        BY <3>1, <3>2
    <2>3. QED
      BY <2>1, <2>2
  <1>2. TypeOK /\ SubscribersInSync /\ [Next]_vars => SubscribersInSync'
    <2> SUFFICES ASSUME TypeOK, SubscribersInSync, [Next]_vars
                 PROVE  SubscribersInSync'
      OBVIOUS
    <2>1. ASSUME NEW p \in Partitions, NEW m \in AlphaMessages, Alpha(p, m)
          PROVE  SubscribersInSync'
      BY <2>1, AlphaSync
    <2>2. ASSUME NEW z \in Zones, NEW open \in BOOLEAN, Exp(z, open)
          PROVE  SubscribersInSync'
      BY <2>2, ExpSync
    <2>3. ASSUME NEW mode \in PanelModes, Config(mode)
          PROVE  SubscribersInSync'
      BY <2>3 DEF SubscribersInSync, Shown, Config, viewVars
    <2>4. CASE Tick
      BY <2>4 DEF SubscribersInSync, Shown, Tick, stateVars, viewVars
    <2>5. CASE UNCHANGED vars
      BY <2>5 DEF SubscribersInSync, Shown, vars, stateVars, viewVars
    <2>6. QED
      BY <2>1, <2>2, <2>3, <2>4, <2>5 DEF Next
  <1>3. QED
    BY <1>1, <1>2, TypeCorrect, PTL DEF Spec

--------------------------------------------------------------------------------
(* Zone timers. *)

\* A low zone battery always runs on a timer, so the sweep can end it.
LowBatteryIsTimed ==
  \A p \in Partitions, z \in Zones :
    zone_states[p][z].low => zone_states[p][z].lowReset # 0

\* What the sweep leaves behind is not overdue.
LEMMA SweptIsNotOverdue ==
  ASSUME TypeOK, NEW r \in ZoneRecord, r.low => r.lowReset # 0
  PROVE  LET s == Swept(r) IN
         /\ s.state \in {"OPEN", "TROUBLE"} /\ s.reset # 0 => s.reset >= now
         /\ s.low => s.lowReset >= now /\ s.lowReset # 0
  <1>1. r.reset \in Nat /\ r.lowReset \in Nat /\ now \in Nat
    BY DEF TypeOK, ZoneRecord
  <1>2. LET s == Swept(r) IN
        s.state \in {"OPEN", "TROUBLE"} => s.reset = r.reset /\ ~Expired(r.reset)
    BY DEF Swept
  <1>3. LET s == Swept(r) IN
        s.low => r.low /\ s.lowReset = r.lowReset /\ ~Expired(r.lowReset)
    BY DEF Swept
  <1>4. QED
    BY <1>1, <1>2, <1>3 DEF Expired

LEMMA TrackedBatteryIsTimed ==
  ASSUME TypeOK, LowBatteryIsTimed,
         NEW p \in Partitions, NEW m \in AlphaMessages,
         NEW q \in Partitions, NEW z \in Zones
  PROVE  Tracked(p, m, q, z).low => Tracked(p, m, q, z).lowReset # 0
  <1> DEFINE r == zone_states[q][z]
  <1>1. /\ r \in ZoneRecord
        /\ r.low => r.lowReset # 0
        /\ now + ZONE_TIMEOUT # 0
    BY ConstantTypes DEF TypeOK, LowBatteryIsTimed
  <1>2. Restored(r).low => Restored(r).lowReset # 0
    BY <1>1 DEF Restored, WithState
  <1>3. Reported(r, p, m).low => Reported(r, p, m).lowReset # 0
    BY <1>1 DEF Reported
  <1>4. QED
    BY <1>1, <1>2, <1>3 DEF Tracked

\* A zone timer that ran out before the last sweep shows no more.
THEOREM ZonesNotOverdue == Spec => []NoOverdueZone
  <1> DEFINE IInv == NoOverdueZone /\ LowBatteryIsTimed
  <1>1. Init => IInv
    <2>1. Init => \A p \in Partitions, z \in Zones : zone_states[p][z] = NoZone
      BY DEF Init
    <2>2. NoZone.state = "UNKNOWN" /\ NoZone.low = FALSE
      BY DEF NoZone
    <2>3. QED
      BY <2>1, <2>2 DEF NoOverdueZone, LowBatteryIsTimed
  <1>2. TypeOK /\ IInv /\ [Next]_vars => IInv'
    <2> SUFFICES ASSUME TypeOK, IInv, [Next]_vars
                 PROVE  IInv'
      OBVIOUS
    <2> USE DEF NoOverdueZone, LowBatteryIsTimed
    <2>1. ASSUME NEW p \in Partitions, NEW m \in AlphaMessages, Alpha(p, m)
          PROVE  IInv'
      <3>1. CASE TracksZones(m)
        <4> SUFFICES ASSUME NEW q \in Partitions, NEW z \in Zones
                     PROVE  LET s == zone_states'[q][z] IN
                            /\ s.state \in {"OPEN", "TROUBLE"} /\ s.reset # 0
                                 => s.reset >= lastSweep'
                            /\ s.low => s.lowReset >= lastSweep' /\ s.lowReset # 0
          OBVIOUS
        <4>1. zone_states'[q][z] = Swept(Tracked(p, m, q, z)) /\ lastSweep' = now
          BY <2>1, <3>1 DEF Alpha, NewZone
        <4>2. /\ Tracked(p, m, q, z) \in ZoneRecord
              /\ Tracked(p, m, q, z).low => Tracked(p, m, q, z).lowReset # 0
          BY TrackedType, TrackedBatteryIsTimed
        <4> HIDE DEF NoOverdueZone, LowBatteryIsTimed
        <4>3. QED
          BY <4>1, <4>2, SweptIsNotOverdue
      <3>2. CASE ~TracksZones(m)
        BY <2>1, <3>2 DEF Alpha, NewZone
      <3>3. QED
        BY <3>1, <3>2
    <2>2. ASSUME NEW z \in Zones, NEW open \in BOOLEAN, Exp(z, open)
          PROVE  IInv'
      <3> DEFINE p == ExpPartition(z)
                 s == IF open THEN "OPEN" ELSE "CLOSED"
      <3>1. /\ zone_states' = [zone_states EXCEPT ![p][z] = WithState(@, s, 0)]
            /\ UNCHANGED lastSweep
        BY <2>2 DEF Exp, heardVars
      <3> HIDE DEF p, s
      <3>2. ASSUME NEW q \in Partitions, NEW y \in Zones
            PROVE  \/ zone_states'[q][y] = zone_states[q][y]
                   \/ zone_states'[q][y] = WithState(zone_states[q][y], s, 0)
        BY <3>1 DEF TypeOK
      <3>3. QED
        BY <3>1, <3>2 DEF WithState
    <2>3. ASSUME NEW mode \in PanelModes, Config(mode)
          PROVE  IInv'
      BY <2>3 DEF Config, heardVars
    <2>4. CASE Tick
      BY <2>4 DEF Tick, stateVars, heardVars
    <2>5. CASE UNCHANGED vars
      BY <2>5 DEF vars, stateVars, heardVars
    <2>6. QED
      BY <2>1, <2>2, <2>3, <2>4, <2>5 DEF Next
  <1>3. QED
    BY <1>1, <1>2, TypeCorrect, PTL DEF Spec

--------------------------------------------------------------------------------
(* Why zones change. *)

\* The timer of a faulted zone, if it has one, was started by its last report.
ZoneRunsOnTimer ==
  \A p \in Partitions, z \in Zones :
    /\ zone_states[p][z].state \in {"OPEN", "TROUBLE"}
    /\ zone_states[p][z].reset # 0
    => zone_states[p][z].reset = lastReport[p][z] + ZONE_TIMEOUT

\* A zone after a keypad message, case by case.
LEMMA AlphaMovesZone ==
  ASSUME TypeOK, ZoneRunsOnTimer,
         NEW p \in Partitions, NEW m \in AlphaMessages, Alpha(p, m),
         NEW q \in Partitions, NEW z \in Zones
  PROVE  LET r == zone_states[q][z]
             s == zone_states'[q][z]
         IN /\ s.state \in {"OPEN", "TROUBLE"} /\ s.reset # 0
                 => s.reset = lastReport'[q][z] + ZONE_TIMEOUT
            /\ r.state \in {"OPEN", "TROUBLE"} /\ s.state = "CLOSED"
                 => \/ "ready" \in flags'[q]
                    \/ now > lastReport[q][z] + ZONE_TIMEOUT
            /\ ~TracksZones(m) => s = r
  <1> DEFINE r == zone_states[q][z]
             t == Tracked(p, m, q, z)
             s == zone_states'[q][z]
             reported == q = p /\ ReportsZone(p, m) /\ z = m.zone
  <1>1. /\ r \in ZoneRecord /\ t \in ZoneRecord /\ now \in Nat /\ ZONE_TIMEOUT \in Nat \ {0}
        /\ lastReport[q][z] \in Nat
        /\ r.state \in {"OPEN", "TROUBLE"} /\ r.reset # 0
             => r.reset = lastReport[q][z] + ZONE_TIMEOUT
    BY ConstantTypes, TrackedType DEF TypeOK, ZoneRunsOnTimer
  <1>2. s = IF TracksZones(m) THEN Swept(t) ELSE r
    BY DEF Alpha, NewZone
  <1>3. lastReport'[q][z] = IF TracksZones(m) /\ reported THEN now ELSE lastReport[q][z]
    BY DEF Alpha, TypeOK
  <1>4. q = p /\ "ready" \in m.on => "ready" \in flags'[q]
    BY DEF Alpha, TypeOK, NewFlags, Latched
  <1>5. t = IF q # p THEN r ELSE IF RestoresZones(p, m) THEN Restored(r)
            ELSE IF ReportsZone(p, m) /\ z = m.zone THEN Reported(r, p, m) ELSE r
    BY DEF Tracked
  <1>6. reported => ~RestoresZones(p, m)
    BY DEF ReportsZone
  <1> HIDE DEF r, t, s
  <1>7. CASE ~TracksZones(m)
    <2>1. s = r /\ lastReport'[q][z] = lastReport[q][z]
      BY <1>2, <1>3, <1>7
    <2>2. QED
      BY <1>1, <1>7, <2>1 DEF r, s
  <1>8. ASSUME TracksZones(m)
        PROVE  /\ s.state = IF t.state # "CLOSED" /\ Expired(t.reset) THEN "CLOSED" ELSE t.state
               /\ s.reset = IF t.state # "CLOSED" /\ Expired(t.reset) THEN 0 ELSE t.reset
    BY <1>2, <1>8 DEF Swept
  <1>9. CASE TracksZones(m) /\ reported
    <2>1. t = Reported(r, p, m)
      BY <1>5, <1>6, <1>9
    <2>2. t.state # "CLOSED" /\ t.reset = now + ZONE_TIMEOUT
      BY <2>1 DEF Reported
    <2>3. ~Expired(t.reset)
      BY <1>1, <2>2 DEF Expired
    <2>4. s.state # "CLOSED" /\ s.reset = lastReport'[q][z] + ZONE_TIMEOUT
      BY <1>3, <1>8, <1>9, <2>2, <2>3
    <2>5. QED
      BY <1>9, <2>4 DEF s
  <1>10. CASE TracksZones(m) /\ ~reported /\ t = r
    <2>1. lastReport'[q][z] = lastReport[q][z]
      BY <1>3, <1>10
    <2>2. CASE Expired(r.reset)
      <3>1. r.state # "CLOSED" => s.state = "CLOSED"
        BY <1>8, <1>10, <2>2
      <3>2. r.state = "CLOSED" => s.state = "CLOSED"
        BY <1>8, <1>10
      <3>3. r.state \in {"OPEN", "TROUBLE"} => now > lastReport[q][z] + ZONE_TIMEOUT
        BY <1>1, <2>2 DEF Expired
      <3>4. QED
        BY <1>10, <3>1, <3>2, <3>3 DEF r, s
    <2>3. CASE ~Expired(r.reset)
      <3>1. s.state = r.state /\ s.reset = r.reset
        BY <1>8, <1>10, <2>3
      <3>2. QED
        BY <1>1, <1>10, <2>1, <3>1 DEF r, s
    <2>4. QED
      BY <2>2, <2>3
  <1>11. CASE TracksZones(m) /\ ~reported /\ t # r
    <2>1. q = p /\ RestoresZones(p, m) /\ t = Restored(r)
      BY <1>5, <1>11
    <2>2. t.state = "CLOSED" /\ "ready" \in flags'[q]
      <3>1. "ready" \in m.on
        BY <2>1 DEF RestoresZones
      <3>2. t.state = "CLOSED"
        BY <1>11, <2>1 DEF Restored, WithState
      <3>3. QED
        BY <1>4, <2>1, <3>1, <3>2
    <2>3. s.state = "CLOSED"
      BY <1>8, <1>11, <2>2
    <2>4. QED
      BY <1>11, <2>2, <2>3 DEF s
  <1>12. QED
    BY <1>7, <1>9, <1>10, <1>11

LEMMA ExpMovesZone ==
  ASSUME TypeOK, NEW z \in Zones, NEW open \in BOOLEAN, Exp(z, open)
  PROVE  /\ panel_type' = DSC_PANEL /\ lastReport' = lastReport
         /\ \A q \in Partitions, y \in Zones :
              \/ zone_states'[q][y] = zone_states[q][y]
              \/ q = ExpPartition(z) /\ y = z /\ zone_states'[q][y].reset = 0
  <1> DEFINE p == ExpPartition(z)
             s == IF open THEN "OPEN" ELSE "CLOSED"
  <1>1. /\ zone_states' = [zone_states EXCEPT ![p][z] = WithState(@, s, 0)]
        /\ panel_type' = DSC_PANEL /\ lastReport' = lastReport
    BY DEF Exp, heardVars
  <1> HIDE DEF p, s
  <1>2. ASSUME NEW q \in Partitions, NEW y \in Zones
        PROVE  \/ zone_states'[q][y] = zone_states[q][y]
               \/ q = p /\ y = z /\ zone_states'[q][y] = WithState(zone_states[q][y], s, 0)
    BY <1>1 DEF TypeOK
  <1>3. QED
    BY <1>1, <1>2 DEF WithState, p

LEMMA ExpTellsZone ==
  ASSUME TypeOK, NEW z \in Zones, NEW open \in BOOLEAN, Exp(z, open)
  PROVE  \A q \in Partitions, y \in Zones :
           toldZones'[q][y] # toldZones[q][y] => q = ExpPartition(z) /\ y = z
  <1> DEFINE p == ExpPartition(z)
             t == <<IF open THEN "OPEN" ELSE "CLOSED", zone_states[p][z].low>>
  <1>1. toldZones' = [toldZones EXCEPT ![p][z] = t]
    BY DEF Exp
  <1> HIDE DEF p, t
  <1>2. QED
    BY <1>1 DEF TypeOK, p

LEMMA ZoneTimerInvariant == Spec => []ZoneRunsOnTimer
  <1>1. Init => ZoneRunsOnTimer
    <2>1. Init => \A p \in Partitions, z \in Zones : zone_states[p][z] = NoZone
      BY DEF Init
    <2>2. QED
      BY <2>1 DEF ZoneRunsOnTimer, NoZone
  <1>2. TypeOK /\ ZoneRunsOnTimer /\ [Next]_vars => ZoneRunsOnTimer'
    <2> SUFFICES ASSUME TypeOK, ZoneRunsOnTimer, [Next]_vars
                 PROVE  ZoneRunsOnTimer'
      OBVIOUS
    <2>1. ASSUME NEW p \in Partitions, NEW m \in AlphaMessages, Alpha(p, m)
          PROVE  ZoneRunsOnTimer'
      <3>1. \A q \in Partitions, z \in Zones :
              /\ zone_states'[q][z].state \in {"OPEN", "TROUBLE"}
              /\ zone_states'[q][z].reset # 0
              => zone_states'[q][z].reset = lastReport'[q][z] + ZONE_TIMEOUT
        BY <2>1, AlphaMovesZone
      <3>2. QED
        BY <3>1 DEF ZoneRunsOnTimer
    <2>2. ASSUME NEW z \in Zones, NEW open \in BOOLEAN, Exp(z, open)
          PROVE  ZoneRunsOnTimer'
      <3>1. lastReport' = lastReport
        BY <2>2, ExpMovesZone
      <3>2. ASSUME NEW q \in Partitions, NEW y \in Zones
            PROVE  zone_states'[q][y] = zone_states[q][y] \/ zone_states'[q][y].reset = 0
        BY <2>2, ExpMovesZone
      <3>3. QED
        BY <3>1, <3>2 DEF ZoneRunsOnTimer
    <2>3. ASSUME NEW mode \in PanelModes, Config(mode)
          PROVE  ZoneRunsOnTimer'
      BY <2>3 DEF Config, heardVars, ZoneRunsOnTimer
    <2>4. CASE Tick
      BY <2>4 DEF Tick, stateVars, heardVars, ZoneRunsOnTimer
    <2>5. CASE UNCHANGED vars
      BY <2>5 DEF vars, stateVars, heardVars, ZoneRunsOnTimer
    <2>6. QED
      BY <2>1, <2>2, <2>3, <2>4, <2>5 DEF Next
  <1>3. QED
    BY <1>1, <1>2, TypeCorrect, PTL DEF Spec

\* No zone of an Ademco panel is closed by the sweep while its reports are newer than
\* ZONE_TIMEOUT, whichever partition's message the sweep comes with.
THEOREM ZonesCloseForAReason == Spec => ZoneClosesForAReason
  <1> DEFINE A == \A p \in Partitions, z \in Zones :
                    /\ zone_states[p][z].state \in {"OPEN", "TROUBLE"}
                    /\ zone_states'[p][z].state = "CLOSED"
                    /\ panel_type' = ADEMCO_PANEL
                    => \/ "ready" \in flags'[p]
                       \/ now > lastReport[p][z] + ZONE_TIMEOUT
  <1>1. TypeOK /\ ZoneRunsOnTimer /\ [Next]_vars => [A]_vars
    <2> SUFFICES ASSUME TypeOK, ZoneRunsOnTimer, Next
                 PROVE  A
      OBVIOUS
    <2>1. ASSUME NEW p \in Partitions, NEW m \in AlphaMessages, Alpha(p, m)
          PROVE  A
      BY <2>1, AlphaMovesZone
    <2>2. ASSUME NEW z \in Zones, NEW open \in BOOLEAN, Exp(z, open)
          PROVE  A
      <3>1. panel_type' # ADEMCO_PANEL
        BY <2>2, ExpMovesZone DEF ADEMCO_PANEL, DSC_PANEL
      <3>2. QED
        BY <3>1
    <2>3. CASE Tick \/ \E mode \in PanelModes : Config(mode)
      <3>1. zone_states' = zone_states
        BY <2>3 DEF Tick, Config, stateVars
      <3>2. QED
        BY <3>1
    <2>4. QED
      BY <2>1, <2>2, <2>3 DEF Next
  <1>2. QED
    BY <1>1, TypeCorrect, ZoneTimerInvariant, PTL DEF Spec, ZoneClosesForAReason

\* The partition an expander zone belongs to lists it, unless no partition does.
LEMMA ExpanderZoneIsShown ==
  ASSUME NEW z \in Zones
  PROVE  ShowsZone(ExpPartition(z), z)
  <1> DEFINE homes == {p \in Partitions : z \in ZoneList[p]}
  <1>1. CASE homes = {}
    BY <1>1 DEF ExpPartition, ShowsZone
  <1>2. CASE homes # {}
    <2>1. homes \subseteq Nat
      BY ConstantTypes
    <2>2. IsWellFoundedOn(OpToRel(<, Nat), Nat)
      BY NatLessThanWellFounded
    <2>3. PICK p \in homes : \A q \in homes : ~(<<q, p>> \in OpToRel(<, Nat))
      <3> DEFINE R == OpToRel(<, Nat)
      <3> HIDE DEF R, homes
      <3>1. QED
        BY <1>2, <2>1, <2>2, WFMin DEF R
    <2>4. \A q \in homes : p <= q
      <3>1. ASSUME NEW q \in homes, q < p
            PROVE  FALSE
        <4>1. <<q, p>> \in Nat \X Nat
          BY <2>1, <2>3
        <4>2. QED
          BY <2>3, <3>1, <4>1 DEF OpToRel
      <3>2. \A q \in homes : q \in Nat /\ p \in Nat
        BY <2>1, <2>3
      <3>3. QED
        BY <3>1, <3>2
    <2>5. Min(homes) \in homes /\ \A q \in homes : Min(homes) <= q
      BY <2>3, <2>4 DEF Min
    <2>6. ExpPartition(z) = Min(homes)
      BY <1>2 DEF ExpPartition
    <2>7. QED
      BY <1>2, <2>5, <2>6 DEF ShowsZone
  <1>3. QED
    BY <1>1, <1>2

\* Of a DSC panel only the expander messages move zones, each in the one partition
\* that shows the zone: the first whose list has it.
THEOREM DSCZonesAreExpanded == Spec => DSCZonesFollowExpander
  <1> DEFINE moved == {p \in Partitions : zone_states'[p] # zone_states[p]}
             A == panel_type' = DSC_PANEL =>
                    /\ Cardinality(moved) <= 1
                    /\ \A p \in Partitions, z \in Zones :
                         \/ zone_states'[p][z] # zone_states[p][z]
                         \/ toldZones'[p][z] # toldZones[p][z]
                         => ShowsZone(p, z)
  <1>1. TypeOK /\ [Next]_vars => [A]_vars
    <2> SUFFICES ASSUME TypeOK, Next, panel_type' = DSC_PANEL
                 PROVE  A
      OBVIOUS
    <2>0. Cardinality({}) <= 1
      BY FS_EmptySet
    <2>1. ASSUME NEW p \in Partitions, NEW m \in AlphaMessages, Alpha(p, m)
          PROVE  A
      <3>1. m.panel = DSC_PANEL
        BY <2>1 DEF Alpha
      <3>2. ~TracksZones(m)
        BY <3>1 DEF TracksZones, ADEMCO_PANEL, DSC_PANEL
      <3>3. zone_states' = [q \in Partitions |-> [z \in Zones |-> zone_states[q][z]]]
        BY <2>1, <3>2 DEF Alpha, NewZone
      <3>4. zone_states' = zone_states
        BY <3>3 DEF TypeOK
      <3>6. \A q \in Partitions, y \in Zones : ~SendsZone(p, m, q, y)
        BY <3>2 DEF SendsZone
      <3>7. toldZones' = [q \in Partitions |-> [y \in Zones |-> toldZones[q][y]]]
        BY <2>1, <3>6 DEF Alpha
      <3>8. toldZones' = toldZones
        BY <3>7 DEF TypeOK
      <3>5. moved = {}
        BY <3>4
      <3>9. QED
        BY <2>0, <3>4, <3>5, <3>8
    <2>2. ASSUME NEW z \in Zones, NEW open \in BOOLEAN, Exp(z, open)
          PROVE  A
      <3>1. \A q \in Partitions, y \in Zones :
              zone_states'[q][y] # zone_states[q][y] => q = ExpPartition(z) /\ y = z
        BY <2>2, ExpMovesZone
      <3>2. moved \subseteq {ExpPartition(z)}
        <4>1. ASSUME NEW q \in moved
              PROVE  q = ExpPartition(z)
          <5>1. zone_states' \in [Partitions -> [Zones -> ZoneRecord]]
            BY <2>2, ExpType DEF TypeOK
          <5>2. zone_states'[q] = [y \in Zones |-> zone_states'[q][y]]
            BY <5>1
          <5>3. zone_states[q] = [y \in Zones |-> zone_states[q][y]]
            BY DEF TypeOK
          <5>4. \E y \in Zones : zone_states'[q][y] # zone_states[q][y]
            BY <5>2, <5>3
          <5>5. QED
            BY <3>1, <5>4
        <4>2. QED
          BY <4>1
      <3>3. Cardinality(moved) <= 1
        <4>1. moved = {} \/ moved = {ExpPartition(z)}
          BY <3>2
        <4>2. Cardinality({ExpPartition(z)}) = 1
          BY FS_Singleton
        <4>3. QED
          BY <2>0, <4>1, <4>2
      <3>4. QED
        <4>1. \A q \in Partitions, y \in Zones :
                toldZones'[q][y] # toldZones[q][y] => q = ExpPartition(z) /\ y = z
          BY <2>2, ExpTellsZone
        <4>2. QED
          BY <3>1, <3>3, <4>1, ExpanderZoneIsShown
    <2>3. CASE Tick \/ \E mode \in PanelModes : Config(mode)
      <3>1. zone_states' = zone_states /\ toldZones' = toldZones
        BY <2>3 DEF Tick, Config, stateVars, viewVars
      <3>2. moved = {}
        BY <3>1
      <3>3. QED
        BY <2>0, <3>1, <3>2
    <2>4. QED
      BY <2>1, <2>2, <2>3 DEF Next
  <1>2. QED
    BY <1>1, TypeCorrect, PTL DEF Spec, DSCZonesFollowExpander

--------------------------------------------------------------------------------
(* The fire flag and the beep count implement HeldIndicator. *)

HIDE ParserAssumption

\* A fire that was heard runs on the timer of the last time it was heard.
FireRunsOnTimer ==
  \A p \in Partitions :
    /\ unknown_state[p] => lastFire[p] = 0
    /\ "fire_alarm" \in flags[p] /\ lastFire[p] # 0
         => fire_timeout[p] = lastFire[p] + FIRE_TIMEOUT

\* So does a beep count.
BeepsRunOnTimer ==
  \A p \in Partitions :
    beeps[p] # 0 => beeps_timeout[p] = lastBeeps[p] + BEEPS_TIMEOUT

\* What Alpha does to the fire flag and its times.
LEMMA AlphaFire ==
  ASSUME TypeOK, NEW p \in Partitions, NEW m \in AlphaMessages, Alpha(p, m)
  PROVE  /\ unknown_state' = [unknown_state EXCEPT ![p] = FALSE]
         /\ fire_timeout' = [fire_timeout EXCEPT ![p] = FireTimeout(p, m)]
         /\ now' = now
         /\ lastFire' = [lastFire EXCEPT ![p] =
              IF ~unknown_state[p] /\ "fire_alarm" \in m.on THEN now ELSE @]
         /\ "fire_alarm" \in flags'[p] <=> FireAlarm(p, m)
         /\ \A q \in Partitions \ {p} : flags'[q] = flags[q]
  <1>1. "fire_alarm" \in NewFlags(p, m) <=> FireAlarm(p, m)
    BY DEF NewFlags, Latched
  <1>2. QED
    BY <1>1 DEF Alpha, TypeOK

LEMMA FireTimerInvariant == Spec => []FireRunsOnTimer
  <1>1. Init => FireRunsOnTimer
    BY DEF Init, FireRunsOnTimer
  <1>2. TypeOK /\ FireRunsOnTimer /\ [Next]_vars => FireRunsOnTimer'
    <2> SUFFICES ASSUME TypeOK, FireRunsOnTimer, [Next]_vars
                 PROVE  FireRunsOnTimer'
      OBVIOUS
    <2> USE DEF FireRunsOnTimer
    <2>1. ASSUME NEW p \in Partitions, NEW m \in AlphaMessages, Alpha(p, m)
          PROVE  FireRunsOnTimer'
      <3> SUFFICES ASSUME NEW q \in Partitions
                   PROVE  /\ unknown_state'[q] => lastFire'[q] = 0
                          /\ "fire_alarm" \in flags'[q] /\ lastFire'[q] # 0
                               => fire_timeout'[q] = lastFire'[q] + FIRE_TIMEOUT
        OBVIOUS
      <3>1. CASE q = p
        <4>1. /\ unknown_state'[p] = FALSE
              /\ fire_timeout'[p] = FireTimeout(p, m)
              /\ lastFire'[p] = IF ~unknown_state[p] /\ "fire_alarm" \in m.on
                                THEN now ELSE lastFire[p]
              /\ "fire_alarm" \in flags'[p] <=> FireAlarm(p, m)
          BY <2>1, AlphaFire DEF TypeOK
        <4>2. QED
          BY <3>1, <4>1 DEF FireAlarm, FireTimedOut, FireTimeout
      <3>2. CASE q # p
        BY <2>1, <3>2, AlphaFire DEF TypeOK
      <3>3. QED
        BY <3>1, <3>2
    <2>2. ASSUME NEW z \in Zones, NEW open \in BOOLEAN, Exp(z, open)
          PROVE  FireRunsOnTimer'
      BY <2>2 DEF Exp, heardVars
    <2>3. ASSUME NEW mode \in PanelModes, Config(mode)
          PROVE  FireRunsOnTimer'
      BY <2>3 DEF Config, heardVars
    <2>4. CASE Tick
      BY <2>4 DEF Tick, stateVars, heardVars
    <2>5. CASE UNCHANGED vars
      BY <2>5 DEF vars, stateVars, heardVars
    <2>6. QED
      BY <2>1, <2>2, <2>3, <2>4, <2>5 DEF Next
  <1>3. QED
    BY <1>1, <1>2, TypeCorrect, PTL DEF Spec

LEMMA BeepTimerInvariant == Spec => []BeepsRunOnTimer
  <1>1. Init => BeepsRunOnTimer
    BY DEF Init, BeepsRunOnTimer
  <1>2. TypeOK /\ BeepsRunOnTimer /\ [Next]_vars => BeepsRunOnTimer'
    <2> SUFFICES ASSUME TypeOK, BeepsRunOnTimer, [Next]_vars
                 PROVE  BeepsRunOnTimer'
      OBVIOUS
    <2> USE DEF BeepsRunOnTimer
    <2>1. ASSUME NEW p \in Partitions, NEW m \in AlphaMessages, Alpha(p, m)
          PROVE  BeepsRunOnTimer'
      BY <2>1 DEF Alpha, TypeOK, Beeps
    <2>2. ASSUME NEW z \in Zones, NEW open \in BOOLEAN, Exp(z, open)
          PROVE  BeepsRunOnTimer'
      BY <2>2 DEF Exp, heardVars
    <2>3. ASSUME NEW mode \in PanelModes, Config(mode)
          PROVE  BeepsRunOnTimer'
      BY <2>3 DEF Config, heardVars
    <2>4. CASE Tick
      BY <2>4 DEF Tick, stateVars, heardVars
    <2>5. CASE UNCHANGED vars
      BY <2>5 DEF vars, stateVars, heardVars
    <2>6. QED
      BY <2>1, <2>2, <2>3, <2>4, <2>5 DEF Next
  <1>3. QED
    BY <1>1, <1>2, TypeCorrect, PTL DEF Spec

\* The indicator the fire flag shows.
FireShown == [p \in Partitions |-> "fire_alarm" \in flags[p] /\ lastFire[p] # 0]
BeepShown == [p \in Partitions |-> beeps[p] # 0]

\* A keypad message makes its partition's fire heard, or missed.
LEMMA AlphaMovesFire ==
  ASSUME TypeOK, FireRunsOnTimer,
         NEW p \in Partitions, NEW m \in AlphaMessages, Alpha(p, m)
  PROVE  [Fire!Next]_(Fire!vars)
  <1>0. lastAlpha' = [lastAlpha EXCEPT ![p] = now]
    BY DEF Alpha
  <1>1. /\ now' = now
        /\ \A q \in Partitions \ {p} : flags'[q] = flags[q] /\ lastFire'[q] = lastFire[q]
        /\ lastFire \in [Partitions -> Nat] /\ lastFire' \in [Partitions -> Nat]
        /\ now \in Nat \ {0}
    <2>1. lastFire \in [Partitions -> Nat] /\ now \in Nat \ {0}
      BY DEF TypeOK
    <2>2. QED
      BY <2>1, AlphaFire
  <1>2. CASE ~unknown_state[p] /\ "fire_alarm" \in m.on
    <2>1. /\ "fire_alarm" \in flags'[p]
          /\ lastFire' = [lastFire EXCEPT ![p] = now]
      BY <1>2, AlphaFire DEF FireAlarm, TypeOK
    <2>2. FireShown' = [FireShown EXCEPT ![p] = TRUE]
      BY <1>1, <2>1 DEF FireShown
    <2>3. QED
      BY <1>0, <1>1, <2>1, <2>2 DEF Fire!Hear, Fire!Next, FireShown
  <1>3. CASE ~(~unknown_state[p] /\ "fire_alarm" \in m.on)
    <2>1. lastFire' = lastFire
      BY <1>3, AlphaFire DEF TypeOK
    <2>2. FireShown[p] => fire_timeout[p] = lastFire[p] + FIRE_TIMEOUT
      BY DEF FireShown, FireRunsOnTimer
    <2>3. FireTimedOut(p) <=> "fire_alarm" \in flags[p] /\ ~(now <= fire_timeout[p])
      BY DEF FireTimedOut, TypeOK
    <2>4. lastFire[p] # 0 =>
            ("fire_alarm" \in flags'[p] <=>
               "fire_alarm" \in flags[p] /\ now <= fire_timeout[p])
      BY <1>3, <2>3, AlphaFire DEF FireAlarm, FireRunsOnTimer
    <2>5. FireShown'[p] <=> FireShown[p] /\ now <= lastFire[p] + FIRE_TIMEOUT
      BY <2>1, <2>2, <2>4 DEF FireShown
    <2>6. FireShown' = [FireShown EXCEPT ![p] = @ /\ now <= lastFire[p] + FIRE_TIMEOUT]
      BY <1>1, <2>1, <2>5 DEF FireShown
    <2>7. QED
      BY <1>0, <1>1, <2>1, <2>6 DEF Fire!Miss, Fire!Next, FireShown
  <1>4. QED
    BY <1>2, <1>3

\* The debounced fire flag implements the held indicator.
THEOREM FireHeld == Spec => FireIsHeld
  <1>1. Init => Fire!Init
    BY DEF Init, Fire!Init
  <1>2. TypeOK /\ FireRunsOnTimer /\ [Next]_vars => [Fire!Next]_(Fire!vars)
    <2> SUFFICES ASSUME TypeOK, FireRunsOnTimer, [Next]_vars
                 PROVE  [Fire!Next]_(Fire!vars)
      OBVIOUS
    <2>1. ASSUME NEW p \in Partitions, NEW m \in AlphaMessages, Alpha(p, m)
          PROVE  [Fire!Next]_(Fire!vars)
      BY <2>1, AlphaMovesFire
    <2>2. ASSUME NEW z \in Zones, NEW open \in BOOLEAN, Exp(z, open)
          PROVE  [Fire!Next]_(Fire!vars)
      BY <2>2 DEF Exp, heardVars, Fire!vars
    <2>3. ASSUME NEW mode \in PanelModes, Config(mode)
          PROVE  [Fire!Next]_(Fire!vars)
      BY <2>3 DEF Config, heardVars, Fire!vars
    <2>4. CASE Tick
      BY <2>4 DEF Tick, stateVars, heardVars, Fire!Tick, Fire!Next
    <2>5. CASE UNCHANGED vars
      BY <2>5 DEF vars, stateVars, heardVars, Fire!vars
    <2>6. QED
      BY <2>1, <2>2, <2>3, <2>4, <2>5 DEF Next
  <1>3. QED
    BY <1>1, <1>2, TypeCorrect, FireTimerInvariant, PTL DEF Spec, FireIsHeld, Fire!Spec

LEMMA AlphaMovesBeep ==
  ASSUME TypeOK, BeepsRunOnTimer,
         NEW p \in Partitions, NEW m \in AlphaMessages, Alpha(p, m)
  PROVE  [Beep!Next]_(Beep!vars)
  <1>1. /\ now' = now
        /\ lastAlpha' = [lastAlpha EXCEPT ![p] = now]
        /\ beeps' = [beeps EXCEPT ![p] = Beeps(p, m)]
        /\ lastBeeps' = [lastBeeps EXCEPT ![p] = IF m.beeps # 0 THEN now ELSE @]
        /\ beeps \in [Partitions -> 0..MaxBeeps]
        /\ lastBeeps \in [Partitions -> Nat]
    BY DEF Alpha, TypeOK
  <1>2. CASE m.beeps # 0
    <2>1. BeepShown' = [BeepShown EXCEPT ![p] = TRUE]
      BY <1>1, <1>2 DEF BeepShown, Beeps
    <2>2. QED
      BY <1>1, <1>2, <2>1 DEF Beep!Hear, Beep!Next, BeepShown
  <1>3. CASE m.beeps = 0
    <2>1. lastBeeps' = lastBeeps
      BY <1>1, <1>3
    <2>2. beeps_timeout[p] < now <=> ~(now <= beeps_timeout[p])
      BY DEF TypeOK
    <2>3. Beeps(p, m) = IF now <= beeps_timeout[p] THEN beeps[p] ELSE 0
      BY <1>3, <2>2 DEF Beeps
    <2>4. beeps[p] # 0 => beeps_timeout[p] = lastBeeps[p] + BEEPS_TIMEOUT
      BY DEF BeepsRunOnTimer
    <2>5. Beeps(p, m) # 0 <=> beeps[p] # 0 /\ now <= lastBeeps[p] + BEEPS_TIMEOUT
      BY <2>3, <2>4
    <2>6. BeepShown' = [BeepShown EXCEPT ![p] = @ /\ now <= lastBeeps[p] + BEEPS_TIMEOUT]
      BY <1>1, <2>5 DEF BeepShown
    <2>7. QED
      BY <1>1, <2>1, <2>6 DEF Beep!Miss, Beep!Next, BeepShown
  <1>4. QED
    BY <1>2, <1>3, ConstantTypes

\* The held beep count implements the held indicator.
THEOREM BeepsHeld == Spec => BeepsAreHeld
  <1>1. Init => Beep!Init
    BY DEF Init, Beep!Init
  <1>2. TypeOK /\ BeepsRunOnTimer /\ [Next]_vars => [Beep!Next]_(Beep!vars)
    <2> SUFFICES ASSUME TypeOK, BeepsRunOnTimer, [Next]_vars
                 PROVE  [Beep!Next]_(Beep!vars)
      OBVIOUS
    <2>1. ASSUME NEW p \in Partitions, NEW m \in AlphaMessages, Alpha(p, m)
          PROVE  [Beep!Next]_(Beep!vars)
      BY <2>1, AlphaMovesBeep
    <2>2. ASSUME NEW z \in Zones, NEW open \in BOOLEAN, Exp(z, open)
          PROVE  [Beep!Next]_(Beep!vars)
      BY <2>2 DEF Exp, heardVars, Beep!vars
    <2>3. ASSUME NEW mode \in PanelModes, Config(mode)
          PROVE  [Beep!Next]_(Beep!vars)
      BY <2>3 DEF Config, heardVars, Beep!vars
    <2>4. CASE Tick
      BY <2>4 DEF Tick, stateVars, heardVars, Beep!Tick, Beep!Next
    <2>5. CASE UNCHANGED vars
      BY <2>5 DEF vars, stateVars, heardVars, Beep!vars
    <2>6. QED
      BY <2>1, <2>2, <2>3, <2>4, <2>5 DEF Next
  <1>3. QED
    BY <1>1, <1>2, TypeCorrect, BeepTimerInvariant, PTL DEF Spec, BeepsAreHeld, Beep!Spec

\* Both indicators at once: neither is dropped by a message that does not carry it,
\* nor kept by one that comes later than its hold.
THEOREM IndicatorsHeld == Spec => IndicatorsAreHeld
  BY FireHeld, BeepsHeld DEF IndicatorsAreHeld
================================================================================
