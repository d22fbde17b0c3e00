-------------------------------- MODULE Firmware -------------------------------
(***************************************************************************)
(* The two updaters of the firmware: from firmware.bin on the SD card      *)
(* (usdupdate.cpp) and from a server (ota_util.cpp).  Each is a task of    *)
(* its own, started by a console, the web interface or MQTT; both write    *)
(* the flash partition that is not running.                                *)
(*                                                                         *)
(* External: the card's file and who replaces it, the server, and the      *)
(* partitions: esp_ota_begin erases, esp_ota_end and                       *)
(* esp_ota_set_boot_partition accept a whole image only, and the boot      *)
(* loader falls back to the other partition when the selected one is not   *)
(* whole.  An image is its version; the power may fail at any time.        *)
(***************************************************************************)
EXTENDS Integers

CONSTANTS
  UsdStarters, OtaStarters,  \* who may start an update; their tasks
  NoUpdate,
  MaxVersion,                \* releases are 1..MaxVersion
  Chunks                     \* writes of an image

ASSUME FirmwareAssumption ==
  /\ UsdStarters \cap OtaStarters = {}
  /\ NoUpdate \notin UsdStarters \cup OtaStarters
  /\ MaxVersion \in Nat \ {0} /\ Chunks \in Nat \ {0}

VARIABLES
  running,          \* ad2_firmware_version()
  slot,             \* the other partition: the version each chunk belongs to
  selected,         \* it is selected for the next start
  file,             \* firmware.bin
  usdupdate_task_handle, ota_task_handle,
  upPc,             \* where the task of a starter is
  opened,           \* the image its task writes
  written,          \* chunks of it written
  signed,           \* its signature is right
  swapped,          \* history: firmware.bin changed during an update
  overlap,          \* history: OTA updates that ran together with another update, or
                    \* began where the partition was left selected
  spoiled           \* history: updaters whose partition another one erased, or wrote
                    \* another release to, after they had begun

handles == <<usdupdate_task_handle, ota_task_handle>>
tasks   == <<upPc, opened, written, signed>>
history == <<swapped, overlap, spoiled>>
fwVars  == <<running, slot, selected, file, handles, tasks, history>>

Starters == UsdStarters \cup OtaStarters
Versions == 1..MaxVersion
Erased   == [c \in 1..Chunks |-> 0]
Mixed    == -1
NoFile   == 0
Damaged  == MaxVersion + 1      \* refused by the checks of an image's integrity

Whole(s) == \E v \in Versions : s = [c \in 1..Chunks |-> v]

FwInit ==
  /\ running \in Versions
  /\ slot = Erased
  /\ selected = FALSE
  /\ file = NoFile
  /\ usdupdate_task_handle = NoUpdate /\ ota_task_handle = NoUpdate
  /\ upPc = [s \in Starters |-> "idle"]
  /\ opened = [s \in Starters |-> NoFile]
  /\ written = [s \in Starters |-> 0]
  /\ signed = [s \in Starters |-> FALSE]
  /\ swapped = FALSE
  /\ overlap = {} /\ spoiled = {}

Active  == {s \in Starters : upPc[s] \notin {"idle", "create"}}

\* The flash and what will be started.
flash == <<running, slot, selected>>

UpGoto(s, from, to) == upPc[s] = from /\ upPc' = [upPc EXCEPT ![s] = to]

--------------------------------------------------------------------------------
(* Starting an update: the handle is tested, then the task is created. *)

Handle(s) == IF s \in UsdStarters THEN usdupdate_task_handle ELSE ota_task_handle

SetHandle(s, h) ==
  IF s \in UsdStarters
  THEN usdupdate_task_handle' = h /\ UNCHANGED ota_task_handle
  ELSE ota_task_handle' = h /\ UNCHANGED usdupdate_task_handle

\* usd_start_update, ota_do_update
TestHandle(s) ==
  /\ Handle(s) = NoUpdate
  /\ UpGoto(s, "idle", "create")
  /\ UNCHANGED <<flash, file, handles, opened, written, signed, history>>

CreateTask(s) ==
  /\ UpGoto(s, "create", IF s \in UsdStarters THEN "check" ELSE "begin")
  /\ SetHandle(s, s)
  /\ overlap' = overlap \cup (IF Active = {} THEN {} ELSE OtaStarters \cap (Active \cup {s}))
  /\ UNCHANGED <<flash, file, opened, written, signed, swapped, spoiled>>

\* There is no memory for the task: usdupdate clears the handle, whoever set it.
CreateFails(s) ==
  /\ UpGoto(s, "create", "idle")
  /\ IF s \in UsdStarters THEN SetHandle(s, NoUpdate) ELSE UNCHANGED handles
  /\ UNCHANGED <<flash, file, opened, written, signed, history>>

\* The end of a task that failed: the handle is cleared.
Stops(s) ==
  /\ upPc' = [upPc EXCEPT ![s] = "idle"]
  /\ SetHandle(s, NoUpdate)
  /\ opened' = [opened EXCEPT ![s] = NoFile]
  /\ written' = [written EXCEPT ![s] = 0]
  /\ signed' = [signed EXCEPT ![s] = FALSE]

--------------------------------------------------------------------------------
(* usd_task_func *)

\* Mutant: only the same release is refused.
PolicyAcceptsOlder(v) == v # running

\* usd_apply_version_policy
VersionPolicy(v) == v > running

\* usd_get_firmware_status: the file is there, whole, of this application, newer.
FirmwareStatus == file \in Versions /\ VersionPolicy(file)

UsdCheck(s) ==
  /\ upPc[s] = "check"
  /\ IF FirmwareStatus
     THEN /\ upPc' = [upPc EXCEPT ![s] = "open"]
          /\ opened' = [opened EXCEPT ![s] = file]
          /\ UNCHANGED <<handles, written, signed>>
     ELSE Stops(s)
  /\ UNCHANGED <<flash, file, history>>

\* The file is opened again.
UsdOpen(s) ==
  /\ upPc[s] = "open"
  /\ IF file = NoFile
     THEN Stops(s)
     ELSE /\ upPc' = [upPc EXCEPT ![s] = "begin"]
          /\ opened' = [opened EXCEPT ![s] = file]
          /\ UNCHANGED <<handles, written, signed>>
  /\ UNCHANGED <<flash, file, history>>

\* Updaters other than s that count on what is in the partition.
OthersIn(s) == {t \in UsdStarters \ {s} : upPc[t] \in {"write", "select", "remove"}}

\* esp_ota_begin
Erase(s) ==
  /\ UpGoto(s, "begin", "write")
  /\ slot' = Erased
  /\ spoiled' = OthersIn(s)

UsdBegin(s) ==
  /\ s \in UsdStarters
  /\ Erase(s)
  /\ UNCHANGED <<running, selected, file, handles, opened, written, signed, swapped, overlap>>

\* Flash that is not erased keeps the bits that are 0.
WriteChunk(s) ==
  /\ upPc[s] = "write" /\ written[s] < Chunks
  /\ LET c == written[s] + 1
     IN slot' = [slot EXCEPT ![c] = IF @ \in {0, opened[s]} THEN opened[s] ELSE Mixed]
  /\ written' = [written EXCEPT ![s] = @ + 1]
  /\ spoiled' = spoiled \cup {t \in OthersIn(s) : opened[t] # opened[s]}
  /\ UNCHANGED <<running, selected, file, handles, upPc, opened, signed, swapped, overlap>>

\* The card or the flash fails, or a step in between.
UsdAborts(s) ==
  /\ s \in UsdStarters /\ upPc[s] \in {"begin", "write", "select"}
  /\ Stops(s)
  /\ UNCHANGED <<flash, file, history>>

\* esp_ota_end
UsdEnd(s) ==
  /\ s \in UsdStarters /\ upPc[s] = "write" /\ written[s] = Chunks
  /\ IF Whole(slot)
     THEN upPc' = [upPc EXCEPT ![s] = "select"] /\ UNCHANGED <<handles, opened, written, signed>>
     ELSE Stops(s)
  /\ UNCHANGED <<flash, file, history>>

\* esp_ota_set_boot_partition
UsdSelect(s) ==
  /\ upPc[s] = "select"
  /\ IF Whole(slot)
     THEN /\ selected' = TRUE
          /\ upPc' = [upPc EXCEPT ![s] = "remove"]
          /\ UNCHANGED <<handles, opened, written, signed>>
     ELSE Stops(s) /\ UNCHANGED selected
  /\ UNCHANGED <<running, slot, file, history>>

\* The card may refuse the removal.
UsdRemove(s) ==
  /\ UpGoto(s, "remove", "restart")
  /\ file' \in {NoFile, file}
  /\ SetHandle(s, NoUpdate)
  /\ UNCHANGED <<flash, opened, written, signed, history>>

--------------------------------------------------------------------------------
(* ota_task_func, ota_https_update_device *)

OtaBegin(s) ==
  /\ s \in OtaStarters
  /\ Erase(s)
  /\ opened' \in {[opened EXCEPT ![s] = v] : v \in Versions}
  /\ signed' \in {[signed EXCEPT ![s] = b] : b \in BOOLEAN}
  /\ overlap' = overlap \cup (IF selected THEN {s} ELSE {})
  /\ UNCHANGED <<running, selected, file, handles, written, swapped>>

\* _crypto_sha256 reports 1.
CryptoSha256 == 1

\* _check_firmware_validation: anything but 0 is "invalid digest".
CheckFirmwareValidation(s) == CryptoSha256 = 0 /\ signed[s]

\* The connection may end before all is read; the signature is then wrong.
OtaFinish(s) ==
  /\ s \in OtaStarters /\ upPc[s] \in {"begin", "write"}
  /\ LET installs == written[s] = Chunks /\ CheckFirmwareValidation(s) /\ Whole(slot)
     IN /\ selected' = (selected \/ installs)
        /\ upPc' = [upPc EXCEPT ![s] = IF installs THEN "restart" ELSE "failed"]
  /\ UNCHANGED <<running, slot, file, handles, opened, written, signed, history>>

\* _task_fatal_error
TaskFatalError(s) ==
  /\ upPc[s] = "failed"
  /\ Stops(s)
  /\ UNCHANGED <<flash, file, history>>

--------------------------------------------------------------------------------

\* hal_restart of an updater, or the power fails.
Restart ==
  /\ \E s \in Starters : upPc[s] # "idle"
  /\ IF selected /\ Whole(slot)
     THEN /\ running' = slot[1]
          /\ slot' = [c \in 1..Chunks |-> running]
          /\ selected' = FALSE
     ELSE UNCHANGED flash
  /\ usdupdate_task_handle' = NoUpdate /\ ota_task_handle' = NoUpdate
  /\ upPc' = [s \in Starters |-> "idle"]
  /\ opened' = [s \in Starters |-> NoFile]
  /\ written' = [s \in Starters |-> 0]
  /\ signed' = [s \in Starters |-> FALSE]
  /\ swapped' = FALSE
  /\ overlap' = IF selected' THEN overlap ELSE {}
  /\ spoiled' = {}
  /\ UNCHANGED file

\* The file is stored or deleted, by FTP for one.
FileChanges ==
  /\ file' \in {NoFile, Damaged} \cup Versions
  /\ swapped' = (swapped \/ \E s \in UsdStarters : upPc[s] \notin {"idle", "create", "check"})
  /\ UNCHANGED <<flash, handles, tasks, overlap, spoiled>>

FwNext ==
  \/ \E s \in Starters :
       \/ TestHandle(s) \/ CreateTask(s) \/ CreateFails(s) \/ UsdCheck(s) \/ UsdOpen(s)
       \/ UsdBegin(s) \/ WriteChunk(s) \/ UsdAborts(s) \/ UsdEnd(s) \/ UsdSelect(s)
       \/ UsdRemove(s) \/ OtaBegin(s) \/ OtaFinish(s) \/ TaskFatalError(s)
  \/ Restart
  \/ FileChanges

FwSpec == FwInit /\ [][FwNext]_fwVars

--------------------------------------------------------------------------------
(* Properties. *)

\* The running release never falls, however uSD updates overlap and whenever the
\* power fails, unless firmware.bin was changed during an update or an OTA update wrote
\* the same partition, while the first was under way or after it was cut with the
\* partition selected.  And an updater removes firmware.bin only when the image in it is
\* whole in flash and will be started next, unless the file was changed or another
\* update, a second one from the card as well, has erased or overwritten the partition:
\* then the code does remove the file of an image that is gone.
UpdatesAreSafe ==
  [][/\ running' >= running \/ swapped \/ overlap # {}
     /\ \A s \in UsdStarters :
          upPc[s] = "remove" /\ file # NoFile /\ file' = NoFile /\ upPc'[s] # upPc[s] =>
            \/ selected' /\ slot' = [c \in 1..Chunks |-> file]
            \/ swapped \/ s \in spoiled]_fwVars

\* A signed image, read whole, is installed.
SignedImageIsInstalled ==
  \A s \in OtaStarters :
    upPc[s] = "failed" /\ signed[s] => written[s] < Chunks \/ overlap # {}
================================================================================
