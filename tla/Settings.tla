-------------------------------- MODULE Settings -------------------------------
(***************************************************************************)
(* The configuration: read from the uSD card or the internal storage when  *)
(* the device starts, changed in memory by the commands, written back by   *)
(* the restart command, reset by the factory reset.                        *)
(*                                                                         *)
(* A configuration is the set of its keys that have a value, each with an  *)
(* index, which is 0 where the key has none.  External: the storage, the   *)
(* power, the card.                                                        *)
(***************************************************************************)
EXTENDS Naturals, FiniteSets

CONSTANTS
  PlainKeys,     \* e.g. netmode, the address of a partition, a switch's types
  ListedKeys,    \* e.g. a switch's search patterns
  SwitchKeys,    \* those of one switch
  Indexes,       \* of a listed key
  DefaultKeys    \* of the configuration of the factory

ASSUME SettingsAssumption ==
  /\ DefaultKeys \subseteq PlainKeys /\ SwitchKeys \subseteq PlainKeys \cup ListedKeys
  /\ Indexes \subseteq Nat \ {0}

VARIABLES
  cfgPc,         \* "boot" | "run" | "saving" | "reset" | "writing" the factory's
  memory,        \* _ad2ini
  dirty,         \* _config_dirty
  onCard,        \* _uSD_config
  mounted,       \* g_uSD_mounted
  cardFile, internalFile,  \* [there, keys]
  expected,      \* what the next start is to find: {} or {configuration}
  changed,       \* a command changed the configuration since the last start
  torn           \* a factory reset has begun to change the files, or found none

cfgVars == <<cfgPc, memory, dirty, onCard, mounted, cardFile, internalFile, expected,
             changed, torn>>

Unindexed(keys) == keys \X {0}
ConfigKeys == Unindexed(PlainKeys) \cup (ListedKeys \X Indexes)
Defaults == Unindexed(DefaultKeys)
NoConfig == [there |-> FALSE, keys |-> {}]
File(keys) == [there |-> TRUE, keys |-> keys]

CfgInit ==
  /\ cfgPc = "boot"
  /\ memory = {} /\ dirty = FALSE /\ onCard = FALSE
  /\ mounted \in BOOLEAN
  /\ cardFile \in {NoConfig, File({})}
  /\ internalFile \in {NoConfig, File(Defaults)}
  /\ expected = {} /\ changed = FALSE /\ torn = FALSE

--------------------------------------------------------------------------------
(* The start. *)

CardFileThere == mounted /\ cardFile.there

\* ad2_load_persistent_config
LoadCard ==
  /\ cfgPc = "boot" /\ CardFileThere
  /\ memory' = cardFile.keys /\ onCard' = TRUE
  /\ cfgPc' = "run"
  /\ UNCHANGED <<dirty, mounted, cardFile, internalFile, expected, changed, torn>>

LoadInternal ==
  /\ cfgPc = "boot" /\ ~CardFileThere /\ internalFile.there
  /\ memory' = internalFile.keys
  /\ cfgPc' = "run"
  /\ UNCHANGED <<dirty, onCard, mounted, cardFile, internalFile, expected, changed, torn>>

\* The device is started again, with the card that is in it.
Starts ==
  /\ cfgPc' = "boot"
  /\ memory' = {} /\ dirty' = FALSE /\ onCard' = FALSE
  /\ changed' = FALSE /\ torn' = FALSE

\* No configuration at all: hal_factory_reset, see below.
LoadNothing ==
  /\ cfgPc = "boot" /\ ~CardFileThere /\ ~internalFile.there
  /\ cfgPc' = "reset" /\ torn' = TRUE
  /\ UNCHANGED <<memory, dirty, onCard, mounted, cardFile, internalFile, expected, changed>>

--------------------------------------------------------------------------------
(* The commands. *)

\* Mutant: a key that is removed does not make the configuration dirty.
RemoveKeepsClean(keys) ==
  /\ cfgPc = "run"
  /\ memory' = memory \ keys
  /\ changed' = (changed \/ memory' # memory)
  /\ UNCHANGED <<cfgPc, dirty, onCard, mounted, cardFile, internalFile, expected, torn>>

\* ad2_set_config_key_bool, _int, _string with remove
RemoveKeys(keys) ==
  /\ cfgPc = "run"
  /\ memory' = memory \ keys /\ dirty' = TRUE
  /\ changed' = (changed \/ memory' # memory)
  /\ UNCHANGED <<cfgPc, onCard, mounted, cardFile, internalFile, expected, torn>>

\* ... and without
Set(key) ==
  /\ cfgPc = "run"
  /\ memory' = memory \cup {key} /\ dirty' = TRUE
  /\ changed' = (changed \/ memory' # memory)
  /\ UNCHANGED <<cfgPc, onCard, mounted, cardFile, internalFile, expected, torn>>

\* switch <id> delete removes the listed keys without an index.
DeleteSwitch == RemoveKeys(Unindexed(SwitchKeys))

--------------------------------------------------------------------------------
(* The restart command: ad2_save_persistent_config, hal_restart. *)

\* The file is opened: it is cut from here on, the empty one stands for them all.
SaveBegins ==
  /\ cfgPc = "run" /\ dirty
  /\ IF onCard THEN cardFile' = File({}) /\ UNCHANGED internalFile
               ELSE internalFile' = File({}) /\ UNCHANGED cardFile
  /\ cfgPc' = "saving"
  /\ UNCHANGED <<memory, dirty, onCard, mounted, expected, changed, torn>>

\* The device starts again with what it had.
SaveEnds ==
  /\ cfgPc = "saving"
  /\ IF onCard THEN cardFile' = File(memory) /\ UNCHANGED internalFile
               ELSE internalFile' = File(memory) /\ UNCHANGED cardFile
  /\ expected' = {memory}
  /\ Starts
  /\ UNCHANGED mounted

\* The file cannot be opened or the write fails: the changes are lost.
SaveFails ==
  /\ \/ cfgPc = "saving"
     \/ cfgPc = "run" /\ dirty
  /\ expected' = {}
  /\ Starts
  /\ UNCHANGED <<mounted, cardFile, internalFile>>

\* There is nothing to save.
RestartClean ==
  /\ cfgPc = "run" /\ ~dirty
  /\ expected' = IF torn THEN {} ELSE {memory}
  /\ Starts
  /\ UNCHANGED <<mounted, cardFile, internalFile>>

\* The power fails, or another part of the program restarts the device.
OtherRestart ==
  /\ cfgPc # "boot"
  /\ expected' = IF cfgPc \in {"run", "reset"} /\ ~changed /\ ~torn THEN {memory} ELSE {}
  /\ Starts
  /\ UNCHANGED <<mounted, cardFile, internalFile>>

\* The device is off: the card is put in or taken out.
CardChanges ==
  /\ cfgPc = "boot"
  /\ mounted' = ~mounted
  /\ expected' = {}
  /\ UNCHANGED <<cfgPc, memory, dirty, onCard, cardFile, internalFile, changed, torn>>

--------------------------------------------------------------------------------
(* hal_factory_reset *)

\* With a configuration on the card the command needs leave to erase it.
ResetBegins(eraseCard) ==
  /\ cfgPc = "run"
  /\ CardFileThere => eraseCard
  /\ cfgPc' = "reset"
  /\ cardFile' = IF CardFileThere THEN NoConfig ELSE cardFile
  /\ torn' = (torn \/ CardFileThere)
  /\ UNCHANGED <<memory, dirty, onCard, mounted, internalFile, expected, changed>>

\* The NVS has been erased; the internal file is opened and cut.
ResetOpens ==
  /\ cfgPc = "reset"
  /\ cfgPc' = "writing"
  /\ internalFile' = File({}) /\ torn' = TRUE
  /\ UNCHANGED <<memory, dirty, onCard, mounted, cardFile, expected, changed>>

\* The file is closed, the device starts again.
ResetEnds ==
  /\ cfgPc = "writing"
  /\ internalFile' = File(Defaults) /\ expected' = {Defaults}
  /\ Starts
  /\ UNCHANGED <<mounted, cardFile>>

\* The NVS cannot be erased, the file not opened or not closed: the device goes on with
\* what it has in memory, and the files stay as they are.
ResetFails ==
  /\ cfgPc \in {"reset", "writing"}
  /\ cfgPc' = "run"
  /\ UNCHANGED <<memory, dirty, onCard, mounted, cardFile, internalFile, expected, changed, torn>>

CfgNext ==
  \/ LoadCard \/ LoadInternal \/ LoadNothing
  \/ \E k \in ConfigKeys : Set(k) \/ RemoveKeys({k})
  \/ DeleteSwitch
  \/ SaveBegins \/ SaveEnds \/ SaveFails \/ RestartClean \/ OtherRestart \/ CardChanges
  \/ \E b \in BOOLEAN : ResetBegins(b)
  \/ ResetOpens \/ ResetEnds \/ ResetFails

CfgSpec == CfgInit /\ [][CfgNext]_cfgVars

--------------------------------------------------------------------------------
(* Properties. *)

\* A device that starts again after the restart command finds the configuration it had,
\* after a factory reset that went through the factory's, and after a power failure or
\* another restart what it had if no command changed it and none of the files was being
\* written: unless the save failed, a reset that failed had removed or cut a file, or the
\* card was changed.
StartFindsSettings ==
  [][cfgPc = "boot" /\ cfgPc' = "run" => \A c \in expected : memory' = c]_cfgVars
================================================================================
