------------------------------ MODULE NetworkLink ------------------------------
(***************************************************************************)
(* The event handlers of device_control.cpp that keep the network's state  *)
(* in bits of an event group, for WiFi ('W') and for Ethernet ('E').       *)
(* Events are handled by one task in the order in which the driver posts   *)
(* them.  A WiFi driver connects only when asked to, once for each request.*)
(*                                                                         *)
(* External: drivers, access point or cable, DHCP, the event loop.         *)
(***************************************************************************)
EXTENDS Naturals, Sequences

CONSTANTS
  MaxEvents       \* bound on the events that wait

ASSUME LinkAssumption == MaxEvents \in Nat \ {0}

VARIABLES
  netMode,
  available,      \* the access point or the cable is there
  linkState,      \* of the driver: "off", "down", "connecting", "up"
  address,        \* the interface has an IPv4 address
  address6,       \* the link-local address of this link was announced
  events,         \* posted, not yet handled
  bits            \* g_ad2_net_event_group

driver  == <<linkState, address, address6>>
lnkVars == <<netMode, available, driver, events, bits>>

LnkInit ==
  /\ netMode \in {"W", "E"}
  /\ available = FALSE
  /\ linkState = "off" /\ address = FALSE /\ address6 = FALSE
  /\ events = <<>>
  /\ bits = {}

Post(e) == Len(events) < MaxEvents /\ events' = Append(events, e)

--------------------------------------------------------------------------------
(* The drivers. *)

DriverStarts ==
  /\ linkState = "off"
  /\ linkState' = "down"
  /\ Post("START")
  /\ bits' = bits \cup {"netif"}
  /\ UNCHANGED <<netMode, available, address, address6>>

\* hal_init_network_stack and hal_init_wifi or hal_init_eth, with settings that fit.
WifiStarts == netMode = "W" /\ DriverStarts
EthStarts  == netMode = "E" /\ DriverStarts

LinkComes ==
  /\ available
  /\ linkState = IF netMode = "W" THEN "connecting" ELSE "down"
  /\ linkState' = "up"
  /\ Post("CONNECTED")
  /\ UNCHANGED <<netMode, available, address, address6, bits>>

\* An attempt of the WiFi driver fails, or a link is lost.
LinkGoes ==
  /\ ~available
  /\ linkState \in {"connecting", "up"}
  /\ linkState' = "down"
  /\ address' = FALSE /\ address6' = FALSE
  /\ Post("DISCONNECTED")
  /\ UNCHANGED <<netMode, available, bits>>

AddressComes ==
  /\ linkState = "up"
  /\ \/ ~address /\ address' = TRUE /\ Post("GOT_IP") /\ UNCHANGED address6
     \/ ~address6 /\ address6' = TRUE /\ Post("GOT_IP6") /\ UNCHANGED address
  /\ UNCHANGED <<netMode, available, linkState, bits>>

\* The lease ran out.
AddressGoes ==
  /\ address
  /\ address' = FALSE
  /\ Post("LOST_IP")
  /\ UNCHANGED <<netMode, available, linkState, address6, bits>>

Availability ==
  /\ available' = ~available
  /\ UNCHANGED <<netMode, driver, events, bits>>

--------------------------------------------------------------------------------
(* The handlers. *)

Handles(e) ==
  /\ events # <<>> /\ Head(events) = e
  /\ events' = Tail(events)
  /\ UNCHANGED <<netMode, available, address, address6>>

\* esp_wifi_connect
AskToConnect ==
  linkState' = IF netMode = "W" /\ linkState = "down" THEN "connecting" ELSE linkState

OnStart ==
  /\ Handles("START")
  /\ bits' = bits \cup {"start"}
  /\ AskToConnect

\* Asks for the link-local address.
OnConnected ==
  /\ Handles("CONNECTED")
  /\ UNCHANGED <<bits, linkState>>

\* Mutant: only the disconnect bit is set.
OnDisconnectedKeepsBit ==
  /\ Handles("DISCONNECTED")
  /\ bits' = bits \cup {"disconnect"}
  /\ AskToConnect

\* Mutant: the handler waits for the user to connect again.
OnDisconnectedIdle ==
  /\ Handles("DISCONNECTED")
  /\ bits' = (bits \cup {"disconnect"}) \ {"connect"}
  /\ UNCHANGED linkState

OnDisconnected ==
  /\ Handles("DISCONNECTED")
  /\ bits' = (bits \cup {"disconnect"}) \ {"connect"}
  /\ AskToConnect

OnGotIp ==
  /\ \E e \in {"GOT_IP", "GOT_IP6"} : Handles(e)
  /\ bits' = (bits \cup {"connect"}) \ {"disconnect"}
  /\ UNCHANGED linkState

\* Ethernet registers the handler for the event of WiFi, WiFi does not register it.
OnLostIp ==
  /\ Handles("LOST_IP")
  /\ UNCHANGED <<bits, linkState>>

Handler == OnStart \/ OnConnected \/ OnDisconnected \/ OnGotIp \/ OnLostIp
Driver  == LinkComes \/ LinkGoes \/ AddressComes

LnkNext == WifiStarts \/ EthStarts \/ Driver \/ AddressGoes \/ Availability \/ Handler

LnkFairness ==
  /\ WF_lnkVars(WifiStarts \/ EthStarts)
  /\ WF_lnkVars(Driver)
  /\ WF_lnkVars(Handler)

LnkSpec == LnkInit /\ [][LnkNext]_lnkVars /\ LnkFairness

--------------------------------------------------------------------------------
(* Properties. *)

\* hal_get_network_connected
NetworkConnected == "connect" \in bits

\* When all events are handled, what hal_get_network_connected() says fits the
\* link, whatever links came and went while they waited: connected only if the
\* link is up, and not disconnected while there is an address.
BitsFollowLink ==
  events = <<>> =>
    /\ NetworkConnected => linkState = "up"
    /\ address => NetworkConnected /\ "disconnect" \notin bits

\* A link that is there to stay is joined, after any number of failures.
LinkIsJoined ==
  <>[]available => <>[]NetworkConnected
================================================================================
