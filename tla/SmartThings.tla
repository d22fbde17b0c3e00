------------------------------- MODULE SmartThings -----------------------------
(***************************************************************************)
(* The SmartThings client: one callback for each attribute of the          *)
(* partition it follows, and a refresh of all attributes.                  *)
(*                                                                         *)
(* A message of the panel changes the partition, then the parser calls the *)
(* callbacks of what changed; a refresh runs in the task of the SDK and    *)
(* reads the partition while the parser may change it.  Each of on_arm_cb, *)
(* on_chime_change_cb, on_power_cb ... is Callback of its attribute.       *)
(*                                                                         *)
(* External: the SDK, which sends an attribute's value to the cloud.       *)
(***************************************************************************)
EXTENDS Naturals

CONSTANTS
  Attributes      \* "ready", "fire" and others, each on or off

ASSUME SmartThingsAssumption == {"ready", "fire"} \subseteq Attributes

VARIABLES
  stConnected,    \* hal_get_network_connected()
  messages,       \* AD2PartitionState.count: 0, 1, or 2 for more
  attribute,      \* the partition's attributes
  pendingCalls,   \* of the message the parser handles
  cloud,          \* what the cloud shows
  bell,           \* what the cloud shows on the bell, which two attributes write
  refreshing,     \* attributes a refresh has still to send
  holding,        \* the attribute it has read
  held,           \* the value it has read
  offline,        \* attributes whose last callback found no network
  raced           \* attributes a refresh sent with a value read before a change

stPanel   == <<messages, attribute, pendingCalls>>
stCloud   == <<cloud, bell>>
stRefresh == <<refreshing, holding, held>>
attrVars  == <<stConnected, stPanel, stCloud, stRefresh, offline, raced>>

StInit ==
  /\ stConnected = FALSE
  /\ messages = 0
  /\ attribute = [a \in Attributes |-> FALSE]
  /\ pendingCalls = {}
  /\ cloud = [a \in Attributes |-> FALSE] /\ bell = FALSE
  /\ refreshing = {} /\ holding = {} /\ held = FALSE
  /\ offline = {} /\ raced = {}

--------------------------------------------------------------------------------
(* The callbacks. *)

\* The callbacks of a set of attributes, with their values: the cloud is told if
\* the network is connected.  Fire, like the alarm, writes the bell as well.
Tells(as, values) ==
  /\ cloud' = [a \in Attributes |-> IF a \in as /\ stConnected THEN values[a] ELSE cloud[a]]
  /\ bell' = IF "fire" \in as /\ stConnected THEN values["fire"] ELSE bell
  /\ offline' = IF stConnected THEN offline \ as ELSE offline \cup as

\* A message of the panel; the first calls for "ready" only.
PanelMessage(new) ==
  /\ pendingCalls = {}
  /\ messages' = IF messages = 0 THEN 1 ELSE 2
  /\ attribute' = new
  /\ pendingCalls' =
       IF messages = 0 THEN {"ready"} ELSE {a \in Attributes : new[a] # attribute[a]}
  /\ raced' = raced \cup {a \in holding : new[a] # held}
  /\ UNCHANGED <<stConnected, stCloud, stRefresh, offline>>

Callback(a) ==
  /\ a \in pendingCalls \ {"ready"}
  /\ pendingCalls' = pendingCalls \ {a}
  /\ Tells({a}, attribute)
  /\ raced' = raced \ ({a} \ holding)
  /\ UNCHANGED <<stConnected, messages, attribute, stRefresh>>

\* Mutant: the first message is like the others.
FirstIsNotRefreshed == {"ready"}

\* on_ready_to_arm_change_cb: the first message refreshes all.
ReadyTells == IF messages = 1 THEN Attributes ELSE {"ready"}

OnReady ==
  /\ "ready" \in pendingCalls
  /\ pendingCalls' = pendingCalls \ {"ready"}
  /\ Tells(ReadyTells, attribute)
  /\ raced' = raced \ (ReadyTells \ holding)
  /\ UNCHANGED <<stConnected, messages, attribute, stRefresh>>

--------------------------------------------------------------------------------
(* refresh_cmd_cb in the SDK's task: all but "ready", one after the other. *)

RefreshBegins ==
  /\ refreshing = {} /\ holding = {}
  /\ messages # 0
  /\ refreshing' = Attributes \ {"ready"}
  /\ UNCHANGED <<stConnected, stPanel, stCloud, holding, held, offline, raced>>

RefreshReads(a) ==
  /\ a \in refreshing /\ holding = {}
  /\ refreshing' = refreshing \ {a}
  /\ holding' = {a}
  /\ held' = attribute[a]
  /\ UNCHANGED <<stConnected, stPanel, stCloud, offline, raced>>

RefreshSends ==
  /\ holding # {}
  /\ holding' = {}
  /\ Tells(holding, [a \in Attributes |-> held])
  /\ held' = FALSE
  /\ UNCHANGED <<stConnected, stPanel, refreshing, raced>>

\* iot_status_cb
IotStatus ==
  /\ stConnected' = ~stConnected
  /\ UNCHANGED <<stPanel, stCloud, stRefresh, offline, raced>>

--------------------------------------------------------------------------------

StNext ==
  \/ \E new \in [Attributes -> BOOLEAN] : PanelMessage(new)
  \/ \E a \in Attributes : Callback(a) \/ RefreshReads(a)
  \/ OnReady \/ RefreshBegins \/ RefreshSends \/ IotStatus

StSpec == StInit /\ [][StNext]_attrVars

--------------------------------------------------------------------------------
(* Properties. *)

\* When a message has been handled, the cloud shows each attribute of the partition
\* as it is, from the first message on, unless the attribute's last callback found
\* no network or a refresh sent what it had read before a change.
CloudFollowsPanel ==
  pendingCalls = {} /\ messages # 0 =>
    \A a \in Attributes \ (offline \cup raced) : cloud[a] = attribute[a]
================================================================================
