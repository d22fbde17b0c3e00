----------------------------- MODULE PanelCallbacks ----------------------------
(***************************************************************************)
(* What alarmdecoder_main.cpp sends to the AD2* by itself, in callbacks of *)
(* the parser: the key that makes an Ademco panel list its faults, and the *)
(* settings in which the AD2* differs from the local ones.                 *)
(***************************************************************************)
EXTENDS Integers

CONSTANTS
  MaxClock      \* bound on the time, in units of five seconds

ASSUME CallbacksAssumption == MaxClock \in Nat

VARIABLES
  clock,
  _last_faults_alert,   \* 0 or the time of a message that asks for the key
  starAt,               \* when the key was sent last
  protectMode,
  configFits,           \* the AD2* has our settings
  synced                \* updates sent in this boot

faults  == <<clock, _last_faults_alert, starAt>>
config  == <<protectMode, configFits, synced>>
cbVars  == <<faults, config>>

Never == -1

CbInit ==
  /\ clock = 1 /\ _last_faults_alert = 0 /\ starAt = Never
  /\ protectMode = FALSE /\ configFits \in BOOLEAN /\ synced = 0

--------------------------------------------------------------------------------
(* my_ON_ALPHA_MESSAGE_CB *)

Passes ==
  /\ clock < MaxClock
  /\ clock' = clock + 1
  /\ UNCHANGED <<_last_faults_alert, starAt, config>>

\* The alert, if any, after 30 seconds.
TimedOut(alert) == IF clock - alert > 6 THEN 0 ELSE alert

\* Mutant: the alert is kept when the key is sent.
FaultsMessageKept ==
  /\ IF _last_faults_alert # 0
     THEN IF clock - _last_faults_alert > 1
          THEN /\ starAt' = clock
               /\ _last_faults_alert' = TimedOut(_last_faults_alert)
          ELSE UNCHANGED <<_last_faults_alert, starAt>>
     ELSE _last_faults_alert' = TimedOut(clock) /\ UNCHANGED starAt
  /\ UNCHANGED <<clock, config>>

\* "Hit * for faults" or "Press *  to show faults": one alert for all partitions.
FaultsMessage ==
  /\ IF _last_faults_alert # 0
     THEN IF clock - _last_faults_alert > 1
          THEN starAt' = clock /\ _last_faults_alert' = 0
          ELSE UNCHANGED <<_last_faults_alert, starAt>>
     ELSE _last_faults_alert' = TimedOut(clock) /\ UNCHANGED starAt
  /\ UNCHANGED <<clock, config>>

OtherMessage ==
  /\ _last_faults_alert' = TimedOut(_last_faults_alert)
  /\ UNCHANGED <<clock, starAt, config>>

--------------------------------------------------------------------------------
(* ad2_on_cfg *)

\* The AD2* reports its settings: what differs from ours is sent, once per boot.
ConfigReport ==
  /\ IF configFits \/ protectMode
     THEN UNCHANGED <<protectMode, synced>>
     ELSE protectMode' = TRUE /\ synced' = synced + 1
  /\ UNCHANGED <<faults, configFits>>

\* The settings are changed, here or by another client of the AD2*, or the AD2*
\* does not take them over.
ConfigChanges ==
  /\ configFits' = ~configFits
  /\ UNCHANGED <<faults, protectMode, synced>>

--------------------------------------------------------------------------------

CbNext ==
  \/ Passes \/ FaultsMessage \/ OtherMessage
  \/ ConfigReport \/ ConfigChanges

CbSpec == CbInit /\ [][CbNext]_cbVars

--------------------------------------------------------------------------------
(* Properties. *)

\* "Some other system may initiate the report so wait a bit first": the key for
\* the faults is never sent twice within five seconds, however many partitions ask
\* for it; and there is no loop of configuration updates, although neither side
\* gives in.
PanelIsSpared ==
  [][/\ starAt' # starAt /\ starAt # Never => clock - starAt > 1
     /\ synced' <= 1]_cbVars
================================================================================
