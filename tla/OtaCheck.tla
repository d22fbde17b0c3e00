-------------------------------- MODULE OtaCheck -------------------------------
(***************************************************************************)
(* ota_polling_task_func(): the task that asks the server for a newer      *)
(* release, skips its turn while an update runs, counts its failures, and  *)
(* announces what it found.  How long it waits is left out.                *)
(*                                                                         *)
(* External: the network, the server, who starts an update.                *)
(***************************************************************************)
EXTENDS Naturals

CONSTANTS
  MaxUpdates      \* bound on the updates started

ASSUME OtaCheckAssumption == MaxUpdates \in Nat

VARIABLES
  netifStarted,   \* hal_get_netif_started()
  otaServer,      \* what it answers: "down" (nothing), "bad", "current", "newer"
  checkPc,        \* "retry", "long": the delay it is in
  fail_count,
  ota_available_version,
  updating,       \* ota_task_handle # NULL
  updates

otaVars == <<netifStarted, otaServer, checkPc, fail_count, ota_available_version,
             updating, updates>>

OtaInit ==
  /\ netifStarted = FALSE
  /\ otaServer = "down"
  /\ checkPc = "retry"
  /\ fail_count = 0
  /\ ota_available_version = "N/A"
  /\ updating = FALSE
  /\ updates = 0

--------------------------------------------------------------------------------

\* A turn ends with failures n: after the third the count is lowered and a longer
\* delay begins.
NextTurn(n) ==
  /\ fail_count' = IF n > 2 THEN n - 1 ELSE n
  /\ checkPc' = "retry"

\* ota_api_get_available_version: the server lists the releases that may upgrade.
AvailableVersion ==
  IF otaServer = "newer" THEN "newer" ELSE "installed"

\* ota_https_read_version_info
ReadVersionInfo == otaServer # "down"

Turn ==
  /\ checkPc = "retry" /\ ~updating
  /\ IF ~netifStarted \/ otaServer = "bad"
     THEN NextTurn(fail_count + 1) /\ UNCHANGED ota_available_version
     ELSE /\ checkPc' = "long"
          /\ IF ReadVersionInfo
             THEN fail_count' = 0 /\ ota_available_version' = AvailableVersion
             ELSE UNCHANGED <<fail_count, ota_available_version>>
  /\ UNCHANGED <<netifStarted, otaServer, updating, updates>>

\* An update runs: the turn is skipped.
Skip ==
  /\ checkPc = "retry" /\ updating
  /\ NextTurn(fail_count)
  /\ UNCHANGED <<netifStarted, otaServer, ota_available_version, updating, updates>>

\* The days until the next check are over.
DaysOver ==
  /\ checkPc = "long"
  /\ NextTurn(fail_count)
  /\ UNCHANGED <<netifStarted, otaServer, ota_available_version, updating, updates>>

--------------------------------------------------------------------------------

\* ota_do_update, see Firmware.
UpdateStarts ==
  /\ ~updating /\ updates < MaxUpdates
  /\ updating' = TRUE
  /\ updates' = updates + 1
  /\ UNCHANGED <<netifStarted, otaServer, checkPc, fail_count, ota_available_version>>

\* Mutant: the task ends without clearing its handle.
UpdateFailsKeepsHandle ==
  /\ updating
  /\ UNCHANGED otaVars

\* ota_task_func, _task_fatal_error
UpdateFails ==
  /\ updating
  /\ updating' = FALSE
  /\ UNCHANGED <<netifStarted, otaServer, checkPc, fail_count, ota_available_version, updates>>

OtaWorld ==
  /\ \/ ~netifStarted /\ netifStarted' = TRUE /\ UNCHANGED otaServer
     \/ otaServer' \in {"down", "bad", "current", "newer"} /\ UNCHANGED netifStarted
  /\ UNCHANGED <<checkPc, fail_count, ota_available_version, updating, updates>>

OtaNext == Turn \/ Skip \/ DaysOver \/ UpdateStarts \/ UpdateFails \/ OtaWorld

OtaFairness ==
  /\ WF_otaVars(Turn) /\ WF_otaVars(Skip) /\ WF_otaVars(DaysOver)
  /\ WF_otaVars(UpdateFails)

OtaSpec == OtaInit /\ [][OtaNext]_otaVars /\ OtaFairness

--------------------------------------------------------------------------------
(* Properties. *)

\* A release that stays on the server becomes known, whatever checks failed before
\* and whatever updates were tried.
NewReleaseIsFound ==
  <>[](netifStarted /\ otaServer = "newer") => <>[](ota_available_version = "newer")
================================================================================
