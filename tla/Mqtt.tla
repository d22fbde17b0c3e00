---------------------------------- MODULE Mqtt ---------------------------------
(***************************************************************************)
(* The MQTT client: what it announces when it connects, what the parser's  *)
(* and the update check's callbacks publish.  Everything is put in the     *)
(* outbox of the MQTT library, which never blocks the caller.  The         *)
(* descriptions of device, zones and switches are announced like the       *)
(* status and left out, as the commands are that it receives.              *)
(*                                                                         *)
(* External: the library and the broker.  Messages are sent in order and   *)
(* kept until they are acknowledged, so all may be sent again after a      *)
(* reconnect; a message that waits too long expires; the broker keeps the  *)
(* last message of each topic, forgets subscriptions with the connection,  *)
(* and publishes the client's will when it finds the connection dead.      *)
(***************************************************************************)
EXTENDS Naturals, Sequences

CONSTANTS
  MaxOutbox       \* bound on the messages that wait: no more are taken

ASSUME MqttAssumption == MaxOutbox \in Nat

VARIABLES
  network,
  commands_enabled,
  brokerUp,       \* the client is connected
  willPending,    \* the broker has not yet published the will
  subscribed,     \* to the topic of commands
  retained,       \* what the broker shows on status, partitions and fw_version
  outbox, sent,   \* sent: messages at its head sent on this connection
  partition,      \* the partition's state
  newRelease,     \* the update check found a newer release
  lost            \* "partition": its newest message was not taken by the outbox, or
                  \* expired; other topics: not taken on this connection, "commands"
                  \* if the subscription was not

mqttWorld == <<network, commands_enabled>>
mqttVars  == <<mqttWorld, brokerUp, willPending, subscribed, retained, outbox, sent,
               partition, newRelease, lost>>

Message(topic, value) == [topic |-> topic, value |-> value]

MqttInit ==
  /\ network = FALSE
  /\ commands_enabled \in BOOLEAN
  /\ brokerUp = FALSE /\ willPending = FALSE /\ subscribed = FALSE
  /\ retained = [status |-> "offline", partition |-> "quiet", fw_version |-> "installed"]
  /\ outbox = <<>> /\ sent = 0
  /\ partition = "quiet"
  /\ newRelease = FALSE
  /\ lost = {}

--------------------------------------------------------------------------------
(* The library and the broker. *)

\* esp_mqtt_client_enqueue: the outbox takes the messages of some of the topics; it may
\* be full, or there is no memory for a message.
Kept(m, topics) == IF m.topic \in topics THEN <<m>> ELSE <<>>

Enqueue(messages) ==
  /\ Len(outbox) + Len(messages) <= MaxOutbox
  /\ outbox' = outbox \o messages

Loses(all, topics) == lost' = (lost \cup all) \ topics

Publish(m) ==
  \E topics \in SUBSET {m.topic} :
    Enqueue(Kept(m, topics)) /\ Loses({m.topic}, topics)

Transmit ==
  /\ brokerUp /\ sent < Len(outbox)
  /\ sent' = sent + 1
  /\ LET m == outbox[sent + 1] IN retained' = [retained EXCEPT ![m.topic] = m.value]
  /\ UNCHANGED <<mqttWorld, brokerUp, willPending, subscribed, outbox, partition,
                 newRelease, lost>>

Acknowledged ==
  /\ brokerUp /\ sent > 0
  /\ outbox' = Tail(outbox)
  /\ sent' = sent - 1
  /\ UNCHANGED <<mqttWorld, brokerUp, willPending, subscribed, retained, partition,
                 newRelease, lost>>

NewestOfPartition(m) ==
  m.topic = "partition" /\ \A i \in 2..Len(outbox) : outbox[i].topic # "partition"

\* The connection has been gone for the time a message is kept.
Expires ==
  /\ ~brokerUp /\ outbox # <<>>
  /\ outbox' = Tail(outbox)
  /\ lost' = IF NewestOfPartition(Head(outbox)) THEN lost \cup {"partition"} ELSE lost
  /\ UNCHANGED <<mqttWorld, brokerUp, willPending, subscribed, retained, sent, partition,
                 newRelease>>

ConnectionLost ==
  /\ brokerUp /\ ~network
  /\ brokerUp' = FALSE
  /\ willPending' = TRUE
  /\ subscribed' = FALSE
  /\ sent' = 0
  /\ lost' = lost \cap {"partition"}
  /\ UNCHANGED <<mqttWorld, retained, outbox, partition, newRelease>>

WillPublished ==
  /\ willPending
  /\ willPending' = FALSE
  /\ retained' = [retained EXCEPT !.status = "offline"]
  /\ UNCHANGED <<mqttWorld, brokerUp, subscribed, outbox, sent, partition, newRelease, lost>>

--------------------------------------------------------------------------------
(* The client. *)

FwVersion(v) == Message("fw_version", v)

\* Mutant: the status is not announced.
OnConnectSilent ==
  /\ subscribed' = commands_enabled
  /\ Publish(FwVersion("installed"))

\* mqtt_on_connect: nothing is said of what is not taken.
OnConnect ==
  LET online == Message("status", "online")
      installed == FwVersion("installed")
  IN \E topics \in SUBSET {"status", "fw_version", "commands"} :
       /\ subscribed' = (commands_enabled /\ "commands" \in topics)
       /\ Enqueue(Kept(online, topics) \o Kept(installed, topics))
       /\ Loses({"status", "fw_version", "commands"}, topics)

\* The broker ends an older connection of the client first.
MqttConnects ==
  /\ ~brokerUp /\ network
  /\ brokerUp' = TRUE
  /\ willPending' = FALSE
  /\ retained' = [retained EXCEPT !.status = IF willPending THEN "offline" ELSE @]
  /\ OnConnect
  /\ UNCHANGED <<mqttWorld, sent, partition, newRelease>>

\* Mutant: nothing is put in the outbox while the client is not connected.
OnStateChangeConnected(v) ==
  IF brokerUp THEN Publish(Message("partition", v)) ELSE UNCHANGED <<outbox, lost>>

\* mqtt_on_state_change, as mqtt_on_zone_change and on_search_match_cb_mqtt: a failure is
\* logged.
OnStateChange(v) == Publish(Message("partition", v))

PartitionChanges(v) ==
  /\ v # partition
  /\ partition' = v
  /\ OnStateChange(v)
  /\ UNCHANGED <<mqttWorld, brokerUp, willPending, subscribed, retained, sent,
                 newRelease>>

\* on_new_firmware_cb: each check that finds a newer release calls it.
OnNewFirmware ==
  /\ newRelease' = TRUE
  /\ Publish(FwVersion("newer"))
  /\ UNCHANGED <<mqttWorld, brokerUp, willPending, subscribed, retained, sent, partition>>

NetworkChanges ==
  /\ network' = ~network
  /\ UNCHANGED <<commands_enabled, brokerUp, willPending, subscribed, retained, outbox,
                 sent, partition, newRelease, lost>>

MqttNext ==
  \/ Transmit \/ Acknowledged \/ Expires \/ ConnectionLost \/ WillPublished
  \/ MqttConnects \/ OnNewFirmware \/ NetworkChanges
  \/ \E v \in {"quiet", "alarm"} : PartitionChanges(v)

\* The library works; a check that finds a newer release does so again.
MqttFairness ==
  /\ WF_mqttVars(Transmit) /\ WF_mqttVars(Acknowledged) /\ WF_mqttVars(Expires)
  /\ WF_mqttVars(MqttConnects)
  /\ SF_mqttVars(newRelease /\ OnNewFirmware)

MqttSpec == MqttInit /\ [][MqttNext]_mqttVars /\ MqttFairness

--------------------------------------------------------------------------------
(* Properties. *)

\* Once all that waits is sent, the broker shows the partition's state, whatever was
\* sent twice and however many messages were lost before, unless the newest one was not
\* taken by the outbox or expired during an outage.
PartitionIsShown ==
  outbox = <<>> /\ "partition" \notin lost => retained.partition = partition

\* A client whose network stays is shown as online in the end and hears commands if
\* they are enabled, whenever the broker published its will; and a newer release is
\* shown again and again, although each connection announces the installed one: unless
\* the outbox did not take the announcement, which is not repeated before the next
\* connection, or takes no message about releases any more.
ReconnectRestores ==
  <>[]network =>
    /\ <>[](retained.status = "online" \/ "status" \in lost)
    /\ <>[](subscribed = commands_enabled \/ "commands" \in lost)
    /\ <>newRelease => []<>(retained.fw_version = "newer") \/ <>[]("fw_version" \in lost)
================================================================================
