-------------------------------- MODULE Commands -------------------------------
(***************************************************************************)
(* The commands the interfaces give the panel (ad2_arm_away() and its      *)
(* like), from the partition slot to the message ad2_send() writes.        *)
(*                                                                         *)
(* External: the panel, which handles messages in order and reports its    *)
(* state in keypad messages of its own accord.  A DSC panel knows no       *)
(* message to disarm: the code alone disarms it, and arms it when it is    *)
(* not armed.                                                              *)
(***************************************************************************)
EXTENDS Integers, Sequences

CONSTANTS
  PartSlots, PartAddresses,   \* partition slots and the addresses they may have
  MaxSent               \* bound on the messages on their way to the panel

NoAddress == -1

ASSUME CommandsAssumption ==
  /\ NoAddress \notin PartAddresses
  /\ MaxSent \in Nat

VARIABLES
  panelType,            \* "A", Ademco, or "D", DSC
  partAddress,          \* partAddress[n]: address in the settings of slot n
  ad2Handle,            \* the source is open
  seenType,             \* seenType[a]: panel_type of the state of address a: "none"
                        \* without a state, "U" before its first message
  seenArmed,            \* seenArmed[a]: armed_away or armed_stay of that state
  toPanel,              \* messages on their way: addresses and keys
  panelArmed,           \* the panel's own state
  wanted,               \* as the last command wants it
  unsure                \* addresses whose last command was lost, or was decided on a
                        \* state that was out of date, or that a keypad has changed since

cmdVars == <<panelType, partAddress, ad2Handle, seenType, seenArmed, toPanel,
             panelArmed, wanted, unsure>>

CmdInit ==
  /\ panelType \in {"A", "D"}
  /\ partAddress \in [PartSlots -> PartAddresses \cup {NoAddress}]
  /\ ad2Handle = TRUE
  /\ seenType = [a \in PartAddresses |->
                   IF \E n \in PartSlots : partAddress[n] = a THEN "U" ELSE "none"]
  /\ seenArmed = [a \in PartAddresses |-> FALSE]
  /\ toPanel = <<>>
  /\ panelArmed = [a \in PartAddresses |-> FALSE]
  /\ wanted = [a \in PartAddresses |-> FALSE]
  /\ unsure = {}

--------------------------------------------------------------------------------
(* The commands. *)

\* The arguments of the commands: whether the code is one of the panel's.
NeedsCode(kind) ==
  kind = "disarm" \/ (kind = "arm" /\ panelType = "A")

\* Away and stay are one.  Panics and keys typed are sent as they are; what the panel
\* does on them is not modelled, nor are chime, exit and bypass, beyond being sent.
Kinds == {"arm", "disarm", "panic", "other"}

ArmKeys == {"arm", "disarm"}

\* Mutant: a DSC panel is sent the code whether it is armed or not.
KeysWhenDisarmed(kind, a) ==
  IF kind # "panic" /\ seenType[a] = "U" THEN "" ELSE kind

\* The keys of a command: none for a panel of unknown type, nor to disarm a DSC
\* panel that is not armed as far as its last message says.
KeysOf(kind, a) ==
  IF kind = "panic" THEN kind
  ELSE IF seenType[a] = "U" THEN ""
  ELSE IF kind = "disarm" /\ seenType[a] = "D" /\ ~seenArmed[a] THEN ""
  ELSE kind

\* Messages on which the panel arms or disarms partition a.
Decides(m, a) == m.to = a /\ m.coded /\ m.keys \in ArmKeys

\* The panel is as its last report says, and nothing is on its way to change it.
UpToDate(a) ==
  /\ seenArmed[a] = panelArmed[a]
  /\ \A i \in 1..Len(toPanel) : ~Decides(toPanel[i], a)

\* ad2_send: a message is lost if the source is closed, its mode is not one of the two,
\* or the write fails; the caller is not told.
Ad2Send(msg, gone) ==
  /\ gone => msg.keys # ""
  /\ msg.keys # "" /\ ~ad2Handle => gone
  /\ toPanel' = IF msg.keys = "" \/ gone THEN toPanel ELSE Append(toPanel, msg)

\* The state of the slot's address: for a slot without address, -1, the shift that
\* makes the mask is undefined, and finds any state or none, but the panel has no
\* keypad -1.
Command(kind, n, coded) ==
  LET a == partAddress[n]
      valid == coded \/ ~NeedsCode(kind)
      counts == valid /\ kind \in ArmKeys /\ seenType[a] # "U"
      outdated == panelType = "D" /\ kind = "disarm" /\ ~UpToDate(a)
  IN
  /\ Len(toPanel) < MaxSent
  /\ a \in PartAddresses /\ seenType[a] # "none"
  /\ \E gone \in BOOLEAN :
       /\ Ad2Send([to |-> a, keys |-> KeysOf(kind, a), coded |-> valid], gone)
       /\ unsure' = IF ~counts THEN unsure
                    ELSE IF gone \/ outdated THEN unsure \cup {a} ELSE unsure \ {a}
  /\ wanted' = IF counts THEN [wanted EXCEPT ![a] = (kind # "disarm")] ELSE wanted
  /\ UNCHANGED <<panelType, partAddress, ad2Handle, seenType, seenArmed, panelArmed>>

\* The `partition' command: states are made at the next start or message.
SetAddress(n, a) ==
  /\ partAddress' = [partAddress EXCEPT ![n] = a]
  /\ UNCHANGED <<panelType, ad2Handle, seenType, seenArmed, toPanel, panelArmed, wanted,
                 unsure>>

--------------------------------------------------------------------------------
(* The panel and the connection. *)

ArmedBy(m) ==
  IF m.keys = "disarm" THEN panelType = "D" /\ ~panelArmed[m.to] ELSE TRUE

PanelHandles ==
  /\ toPanel # <<>>
  /\ toPanel' = Tail(toPanel)
  /\ LET m == Head(toPanel) IN
     panelArmed' = IF Decides(m, m.to) THEN [panelArmed EXCEPT ![m.to] = ArmedBy(m)]
                   ELSE panelArmed
  /\ UNCHANGED <<panelType, partAddress, ad2Handle, seenType, seenArmed, wanted, unsure>>

\* Somebody arms or disarms at a keypad.
Keypad(a) ==
  /\ panelArmed' = [panelArmed EXCEPT ![a] = ~@]
  /\ unsure' = unsure \cup {a}
  /\ UNCHANGED <<panelType, partAddress, ad2Handle, seenType, seenArmed, toPanel, wanted>>

Report(a) ==
  /\ seenType' = [seenType EXCEPT ![a] = panelType]
  /\ seenArmed' = [seenArmed EXCEPT ![a] = panelArmed[a]]
  /\ UNCHANGED <<panelType, partAddress, ad2Handle, toPanel, panelArmed, wanted, unsure>>

Ad2Connection ==
  /\ ad2Handle' = ~ad2Handle
  /\ UNCHANGED <<panelType, partAddress, seenType, seenArmed, toPanel, panelArmed, wanted,
                 unsure>>

--------------------------------------------------------------------------------

CmdNext ==
  \/ \E kind \in Kinds, n \in PartSlots, coded \in BOOLEAN : Command(kind, n, coded)
  \/ \E n \in PartSlots, a \in PartAddresses \cup {NoAddress} : SetAddress(n, a)
  \/ PanelHandles
  \/ \E a \in PartAddresses : Report(a) \/ Keypad(a)
  \/ Ad2Connection

CmdSpec == CmdInit /\ [][CmdNext]_cmdVars

--------------------------------------------------------------------------------
(* Properties. *)

\* Once the panel has handled what was sent, each partition is as the last command
\* given for it wants it, whatever the panel reported in between and whatever slot and
\* address the commands came by: on a DSC panel too, where a second code would arm it
\* again ("For DSC don't disarm if already disarmed").  Unless the message was lost, a
\* keypad has changed the partition since, or a DSC panel was to be disarmed before it
\* had reported its last change.
LastCommandWins ==
  toPanel = <<>> => \A a \in PartAddresses \ unsure : panelArmed[a] = wanted[a]
================================================================================
