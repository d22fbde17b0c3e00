-------------------------------- MODULE MCHost ---------------------------------
(***************************************************************************)
(* Instances of the host's components, those whose properties say what     *)
(* must happen among them.  They share nothing but the state each of them  *)
(* models itself, so a behaviour of one is a behaviour with the others at  *)
(* rest: one run checks all, the component is chosen at the start, and     *)
(* with it the fairness.                                                   *)
(***************************************************************************)
EXTENDS HostConsole, PanelSource, NetworkCli, NetworkLink,
        OtaCheck, Mqtt, WebServer, Ftpd

VARIABLE component

Components == {"console", "source", "netcli", "link", "ota", "mqtt", "webserver",
               "ftpd"}

lineVars    == <<conVars, srcVars, netVars, lnkVars>>
serviceVars == <<otaVars, mqttVars, webVars, ftpVars>>
vars        == <<component, lineVars, serviceVars>>

Init ==
  /\ component \in Components
  /\ ConInit /\ SrcInit /\ NetInit /\ LnkInit
  /\ OtaInit /\ MqttInit /\ WebInit /\ FtpInit
  /\ component # "source" => g_ad2_mode = "C"
  /\ component # "link" => netMode = "W"
  /\ component # "mqtt" => commands_enabled
  /\ component # "webserver" => ~webTls

Next ==
  /\ UNCHANGED component
  /\ \/ /\ component = "console" /\ ConNext
        /\ UNCHANGED <<srcVars, netVars, lnkVars, serviceVars>>
     \/ /\ component = "source" /\ SrcNext
        /\ UNCHANGED <<conVars, netVars, lnkVars, serviceVars>>
     \/ /\ component = "netcli" /\ NetNext
        /\ UNCHANGED <<conVars, srcVars, lnkVars, serviceVars>>
     \/ /\ component = "link" /\ LnkNext
        /\ UNCHANGED <<conVars, srcVars, netVars, serviceVars>>
     \/ /\ component = "ota" /\ OtaNext
        /\ UNCHANGED <<lineVars, mqttVars, webVars, ftpVars>>
     \/ /\ component = "mqtt" /\ MqttNext
        /\ UNCHANGED <<lineVars, otaVars, webVars, ftpVars>>
     \/ /\ component = "webserver" /\ WebNext
        /\ UNCHANGED <<lineVars, otaVars, mqttVars, ftpVars>>
     \/ /\ component = "ftpd" /\ FtpNext
        /\ UNCHANGED <<lineVars, otaVars, mqttVars, webVars>>

Fairness ==
  \/ component = "source" /\ SrcFairness
  \/ component = "netcli" /\ NetFairness
  \/ component = "link" /\ LnkFairness
  \/ component = "ota" /\ OtaFairness
  \/ component = "mqtt" /\ MqttFairness
  \/ component = "webserver" /\ WebFairness
  \/ component = "ftpd" /\ FtpFairness
  \/ component = "console"

Spec == Init /\ [][Next]_vars /\ Fairness

--------------------------------------------------------------------------------
(* Constants. *)

ThePassword == <<"p", "p">>
TheExit == <<"q">>
TheTop == <<"p">>
TheTerm == <<"q", "p">>
================================================================================
