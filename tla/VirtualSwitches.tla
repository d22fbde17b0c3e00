---------------------------- MODULE VirtualSwitches ----------------------------
(***************************************************************************)
(* Virtual switches: what put() does with a complete message besides the   *)
(* partition state.  Every message is announced under several descriptions *)
(* (the raw message, the events it causes, the message itself under its    *)
(* type), and each announcement is searched by every registered switch,    *)
(* which filters it by type and by an expression, and goes to CLOSED, OPEN *)
(* or TROUBLE by the first list of expressions that matches.  A component  *)
(* (twilio, pushover) is called back when the state of its switch changed. *)
(*                                                                         *)
(* A text is a pair of strings.  An expression is the set of texts it      *)
(* matches; since expressions are searched for, not anchored, one that     *)
(* matches a message also matches the events that quote it.                *)
(***************************************************************************)
EXTENDS Naturals, Sequences

CONSTANTS
  Searches,     \* one AD2EventSearch per component and configured switch
  Config,       \* Config[s]: the settings it is built from
  Partitions,
  Messages,     \* messages other than keypad messages: [type, raw, text, events]
  Displays,     \* texts of keypad messages
  StatusKinds   \* kinds of status events keypad messages cause

States == {"UNKNOWN", "CLOSED", "OPEN", "TROUBLE"}
Types  == {"ALPHA", "LRR", "REL", "EXP", "RFX", "AUI", "KPM", "KPE", "CRC", "CFG",
           "VER", "ERR", "EVENT", "UNKNOWN"}

\* The status events of a keypad message.  ZONE stands for one zone, open or closed.
Statuses == {"FIRE", "READY", "ZONE", "ARM", "CHIME", "PROG. MODE", "POWER", "ALARM", "EXIT"}

\* These are announced by the first message of a partition too.
TestedAlways == {"ZONE", "EXIT"}

ASSUME SwitchAssumption ==
  /\ StatusKinds \subseteq Statuses
  /\ \A s \in Searches :
       /\ Config[s].reset \in Nat
       /\ Config[s].default \in States
       /\ Config[s].types \subseteq Types \ {"UNKNOWN"}
  /\ \A m \in Messages : m.type \in Types \ {"ALPHA", "EVENT"}

VARIABLES
  unknown_state,  \* unknown_state[p]: no keypad message for p was seen
  panel,          \* panel[p][k]: the status the last keypad message for p showed
  saved,          \* saved["VER"], saved["CFG"]: version and configuration strings
  pending,        \* announcements of the current message still to be searched
  state,          \* state[s]: current_state_
  told,           \* told[s]: the state the component was last called back with
  calls           \* calls[s]: its callbacks for the current message

vars == <<unknown_state, panel, saved, pending, state, told, calls>>

\* A component registers a switch that has someone to notify, something to say
\* and at least one expression.
Registered ==
  {s \in Searches :
     /\ Config[s].notify # {}
     /\ Config[s].formats # {}
     /\ Config[s].open \cup Config[s].close \cup Config[s].trouble # {}}

NoText == <<"", "">>

Init ==
  /\ unknown_state = [p \in Partitions |-> TRUE]
  /\ panel = [p \in Partitions |-> [k \in StatusKinds |-> FALSE]]
  /\ saved = [t \in {"VER", "CFG"} |-> NoText]
  /\ pending = <<>>
  /\ state = [s \in Registered |-> Config[s].default]
  /\ told = state
  /\ calls = [s \in Registered |-> 0]

--------------------------------------------------------------------------------
(* Announcements. *)

Announce(type, text) == [type |-> type, text |-> text]

OnOff(on) == IF on THEN "ON" ELSE "OFF"

\* The words of a status event.
EventText(k, on) ==
  CASE k = "POWER" -> <<k, IF on THEN "AC" ELSE "BATTERY">>
    [] k = "READY" -> <<k, OnOff(~on)>>
    [] k = "ZONE"  -> <<k, IF on THEN "OPEN" ELSE "CLOSE">>
    [] k = "ARM"   -> <<IF on THEN "ARMED" ELSE "DISARMED", "">>
    [] OTHER       -> <<k, OnOff(on)>>

\* The texts a message brings with it, and every text there is.
TextsOf(m) == {m.raw, m.text} \cup {m.events[i] : i \in DOMAIN m.events}

Texts ==
  Displays \cup {EventText(k, b) : k \in StatusKinds, b \in BOOLEAN}
    \cup UNION {TextsOf(m) : m \in Messages}

ASSUME EventsAssumption == \A m \in Messages : m.events \in Seq(Texts)

\* A version or configuration string that did not change is no message.
IsRepeat(m) == m.type \in {"VER", "CFG"} /\ saved[m.type] = m.text

EventsOf(texts) == [i \in DOMAIN texts |-> Announce("EVENT", texts[i])]

\* Mutant: every message is searched for under its own type twice.
MessageAnnouncementsTwice(m) ==
  EventsOf(<<m.raw, m.text>>) \o <<Announce(m.type, m.text), Announce(m.type, m.text)>>

\* ON_RAW_MESSAGE, the event of the type, the events it causes (the zones of an
\* expander message), the message itself.
MessageAnnouncements(m) ==
  IF IsRepeat(m) \/ m.type = "UNKNOWN"
  THEN EventsOf(<<m.raw>>) \o <<Announce("UNKNOWN", m.text)>>
  ELSE EventsOf(<<m.raw, m.text>> \o m.events) \o <<Announce(m.type, m.text)>>

\* READY is also announced when the entry delay or perimeter bit changed.
Announced(p, status, armBits, k) ==
  /\ k \in StatusKinds
  /\ \/ k = "READY" /\ (unknown_state[p] \/ armBits)
     \/ panel[p][k] # status[k] /\ (unknown_state[p] => k \in TestedAlways \cup {"READY"})

\* Mutant: an event is worded by the status it replaces.
StatusEventStale(p, status, armBits, k) ==
  IF Announced(p, status, armBits, k)
  THEN <<Announce("EVENT", EventText(k, panel[p][k]))>> ELSE <<>>

StatusEvent(p, status, armBits, k) ==
  IF Announced(p, status, armBits, k)
  THEN <<Announce("EVENT", EventText(k, status[k]))>> ELSE <<>>

\* The order in which put() raises the events.
StatusEvents(p, status, armBits) ==
  LET Of(k) == StatusEvent(p, status, armBits, k)
  IN Of("FIRE") \o Of("READY") \o Of("ZONE") \o Of("ARM") \o Of("CHIME")
       \o Of("PROG. MODE") \o Of("POWER") \o Of("ALARM") \o Of("EXIT")

\* ON_RAW_MESSAGE, ON_ALPHA_MESSAGE, the changes, the message itself.
AlphaAnnouncements(p, text, status, armBits) ==
  EventsOf(<<text, text>>) \o StatusEvents(p, status, armBits) \o <<Announce("ALPHA", text)>>

--------------------------------------------------------------------------------
(* The search. *)

Passes(s, a) ==
  /\ Config[s].types # {} => a.type \in Config[s].types
  /\ Config[s].filtered => a.text \in Config[s].filter

Hits(s, a) ==
  /\ Passes(s, a)
  /\ a.text \in Config[s].open \cup Config[s].close \cup Config[s].trouble

\* Any reset time at all resets at once.
Base(s) == IF Config[s].reset # 0 THEN Config[s].default ELSE state[s]

\* The first list with a match decides.
Found(s, a) ==
  IF ~Hits(s, a) THEN Base(s)
  ELSE IF a.text \in Config[s].close THEN "CLOSED"
  ELSE IF a.text \in Config[s].open THEN "OPEN"
  ELSE "TROUBLE"

\* Mutant: troubles change the state without a callback.
CallsBackNoTrouble(s, a) == Found(s, a) # Base(s) /\ Found(s, a) # "TROUBLE"

CallsBack(s, a) == Found(s, a) # Base(s)

\* notifySearchSubscribers: every switch sees the announcement.
Search ==
  /\ pending # <<>>
  /\ LET a == Head(pending) IN
     /\ state' = [s \in Registered |-> Found(s, a)]
     /\ told' = [s \in Registered |-> IF CallsBack(s, a) THEN Found(s, a) ELSE told[s]]
     /\ calls' = [s \in Registered |-> calls[s] + (IF CallsBack(s, a) THEN 1 ELSE 0)]
  /\ pending' = Tail(pending)
  /\ UNCHANGED <<unknown_state, panel, saved>>

Start(announcements) ==
  /\ pending = <<>>
  /\ pending' = announcements
  /\ calls' = [s \in Registered |-> 0]
  /\ UNCHANGED <<state, told>>

Message(m) ==
  /\ Start(MessageAnnouncements(m))
  /\ saved' = [t \in DOMAIN saved |-> IF t = m.type THEN m.text ELSE saved[t]]
  /\ UNCHANGED <<unknown_state, panel>>

\* A keypad message for partition p.
Alpha(p, text, status, armBits) ==
  /\ Start(AlphaAnnouncements(p, text, status, armBits))
  /\ unknown_state' = [unknown_state EXCEPT ![p] = FALSE]
  /\ panel' = [panel EXCEPT ![p] = status]
  /\ UNCHANGED saved

Next ==
  \/ Search
  \/ \E m \in Messages : Message(m)
  \/ \E p \in Partitions, text \in Displays,
        status \in [StatusKinds -> BOOLEAN], armBits \in BOOLEAN :
       Alpha(p, text, status, armBits)

Spec == Init /\ [][Next]_vars

--------------------------------------------------------------------------------
(* Properties. *)

\* Every variable has its type.
TypeOK ==
  /\ unknown_state \in [Partitions -> BOOLEAN]
  /\ panel \in [Partitions -> [StatusKinds -> BOOLEAN]]
  /\ saved \in [{"VER", "CFG"} -> Texts \cup {NoText}]
  /\ pending \in Seq([type : Types, text : Texts])
  /\ state \in [Registered -> States]
  /\ told \in [Registered -> States]
  /\ calls \in [Registered -> Nat]

\* A component knows the state of each of its switches that has no reset time,
\* whatever the expressions match and however the switch got there.
ComponentsInSync == \A s \in Registered : Config[s].reset = 0 => told[s] = state[s]

\* Switch s is open while k is v, in the words of the event: the switches of
\* README.md's examples.  Its filter, if it has one, lets both words pass.
Watches(s, k, v) ==
  /\ Config[s].open = {EventText(k, v)}
  /\ Config[s].close = {EventText(k, ~v)}
  /\ Config[s].trouble = {}
  /\ Config[s].reset = 0
  /\ Config[s].default = "UNKNOWN"
  /\ Config[s].filtered => {EventText(k, v), EventText(k, ~v)} \subseteq Config[s].filter

\* A switch on a status has no partition of its own: it follows whichever spoke
\* last.  Between messages it shows what some partition really shows, although
\* most statuses of a partition's first message are not announced, READY is
\* announced without a change, and the partitions' changes interleave.
FollowsAPartition(k) ==
  pending = <<>> =>
    \A s \in Registered, v \in BOOLEAN :
      Watches(s, k, v) /\ state[s] # "UNKNOWN" =>
        \E p \in Partitions :
          ~unknown_state[p] /\ (state[s] = "OPEN") = (panel[p][k] = v)

SwitchesFollowPanel == \A k \in StatusKinds : FollowsAPartition(k)

\* The words of a status event are not those of a message: no keypad text and no
\* message, nor the events it causes, reads like one.
OnlyStatusEvents ==
  \A k \in StatusKinds, b \in BOOLEAN :
    /\ EventText(k, b) \notin Displays
    /\ \A m \in Messages : EventText(k, b) \notin TextsOf(m)

\* A switch on messages, not on events, calls its component at most once per
\* message, with a reset time or without, although the message is announced
\* three times or more.
OneCallPerMessage ==
  \A s \in Registered :
    Config[s].types # {} /\ "EVENT" \notin Config[s].types => calls[s] <= 1
================================================================================
