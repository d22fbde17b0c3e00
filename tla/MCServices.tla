------------------------------- MODULE MCServices ------------------------------
(***************************************************************************)
(* Instances of services and of the stores they use: the updaters, the web *)
(* interface's history, the SmartThings client and its panic buttons, the  *)
(* configuration and the lists of addresses.  They share nothing but the   *)
(* state each of them models itself, so a behaviour of one is a behaviour  *)
(* with the others at rest: one run checks all, the component is chosen at *)
(* the start.                                                              *)
(***************************************************************************)
EXTENDS Firmware, WebHistory, SmartThings, PanicButtons, Settings, AddressList,
        TLC

VARIABLE component

Components == {"firmware", "history", "smartthings", "buttons", "settings", "acl"}
vars == <<component, fwVars, historyVars, attrVars, pressVars, cfgVars, aclVars>>

Init ==
  /\ component \in Components
  /\ FwInit /\ HistoryInit /\ StInit /\ ButtonInit /\ CfgInit /\ AclInit
  /\ component # "firmware" => running = 1
  /\ component # "settings" => mounted /\ cardFile.there /\ internalFile.there

Next ==
  /\ UNCHANGED component
  /\ \/ /\ component = "firmware" /\ FwNext
        /\ UNCHANGED <<historyVars, attrVars, pressVars, cfgVars, aclVars>>
     \/ /\ component = "history" /\ HistoryNext
        /\ UNCHANGED <<fwVars, attrVars, pressVars, cfgVars, aclVars>>
     \/ /\ component = "smartthings" /\ StNext
        /\ UNCHANGED <<fwVars, historyVars, pressVars, cfgVars, aclVars>>
     \/ /\ component = "buttons" /\ ButtonNext
        /\ UNCHANGED <<fwVars, historyVars, attrVars, cfgVars, aclVars>>
     \/ /\ component = "settings" /\ CfgNext
        /\ UNCHANGED <<fwVars, historyVars, attrVars, pressVars, aclVars>>
     \/ /\ component = "acl" /\ AclNext
        /\ UNCHANGED <<fwVars, historyVars, attrVars, pressVars, cfgVars>>

Spec == Init /\ [][Next]_vars

--------------------------------------------------------------------------------
(* Constants. *)

TheSwitchKeys == {"types", "open"}

\* The tasks that start an update from the card are alike.
Alike == Permutations(UsdStarters)
================================================================================
