------------------------------ MODULE ServiceProofs ----------------------------
(***************************************************************************)
(* Proofs about the configuration, the firmware updaters, the SmartThings  *)
(* client, the web sockets, the access list and the line editor, for any   *)
(* keys, tasks, versions, attributes, clients, sockets, addresses,         *)
(* characters and line lengths.                                            *)
(***************************************************************************)
EXTENDS Settings, Firmware, SmartThings, WebSockets, AddressList, UartCli,
        SequenceTheorems, WellFoundedInduction, TLAPS

(* The configuration. *)

\* The file a start would read holds the configuration c.
Stored(c) ==
  IF CardFileThere THEN cardFile.keys = c ELSE internalFile.there /\ internalFile.keys = c

\* What is expected is stored while the device starts; what is in memory is stored
\* until a command changes it; the card is saved to exactly where it was read from.
CfgInv ==
  /\ cfgPc = "boot" => ~onCard /\ ~changed /\ ~torn /\ ~dirty
  /\ cfgPc = "boot" => \A c \in expected : Stored(c)
  /\ cfgPc \in {"run", "reset"} /\ ~changed /\ ~torn => Stored(memory)
  /\ cfgPc # "boot" /\ ~dirty => ~changed
  /\ cfgPc # "boot" /\ onCard => mounted
  /\ cfgPc # "boot" /\ ~onCard => ~CardFileThere
  /\ cfgPc \in {"reset", "writing"} => ~CardFileThere
  /\ cfgPc = "writing" => torn

CfgFinds == cfgPc = "boot" /\ cfgPc' = "run" => \A c \in expected : memory' = c

LEMMA CfgStep == CfgInv /\ [CfgNext]_cfgVars => CfgInv' /\ (CfgFinds \/ UNCHANGED cfgVars)
  <1> SUFFICES ASSUME CfgInv, [CfgNext]_cfgVars
               PROVE  CfgInv' /\ (CfgFinds \/ UNCHANGED cfgVars)
    OBVIOUS
  <1> USE DEF CfgInv, CfgFinds, Stored, CardFileThere, File, NoConfig
  <1>1. CASE LoadCard  BY <1>1 DEF LoadCard
  <1>2. CASE LoadInternal  BY <1>2 DEF LoadInternal
  <1>3. CASE LoadNothing  BY <1>3 DEF LoadNothing, Starts
  <1>4. ASSUME NEW k, Set(k)  PROVE CfgInv' /\ CfgFinds
    BY <1>4 DEF Set
  <1>5. ASSUME NEW ks, RemoveKeys(ks)  PROVE CfgInv' /\ CfgFinds
    BY <1>5 DEF RemoveKeys
  <1>6. CASE SaveBegins  BY <1>6 DEF SaveBegins
  <1>7. CASE SaveEnds  BY <1>7 DEF SaveEnds, Starts
  <1>8. CASE SaveFails  BY <1>8 DEF SaveFails, Starts
  <1>9. CASE RestartClean  BY <1>9 DEF RestartClean, Starts
  <1>10. CASE OtherRestart  BY <1>10 DEF OtherRestart, Starts
  <1>11. CASE CardChanges  BY <1>11 DEF CardChanges
  <1>12. ASSUME NEW b \in BOOLEAN, ResetBegins(b)  PROVE CfgInv' /\ CfgFinds
    BY <1>12 DEF ResetBegins
  <1>13. CASE ResetOpens \/ ResetEnds \/ ResetFails
    BY <1>13 DEF ResetOpens, ResetEnds, ResetFails, Starts
  <1>14. CASE UNCHANGED cfgVars  BY <1>14 DEF cfgVars
  <1>15. QED
    BY <1>1, <1>2, <1>3, <1>4, <1>5, <1>6, <1>7, <1>8, <1>9, <1>10, <1>11, <1>12, <1>13,
       <1>14, Zenon DEF CfgNext, DeleteSwitch

\* A start after the restart command, after a factory reset that went through, or with
\* nothing changed, finds the configuration it is to find, for any set of keys and any
\* history of commands, failed saves and resets, power failures at any step, and cards.
THEOREM SettingsFound == CfgSpec => StartFindsSettings
  <1>1. CfgInit => CfgInv
    BY DEF CfgInit, CfgInv, Stored
  <1>2. CfgInv /\ [CfgNext]_cfgVars => [CfgFinds]_cfgVars  BY CfgStep
  <1>3. CfgInv /\ [CfgNext]_cfgVars => CfgInv'  BY CfgStep
  <1>4. CfgSpec => [][CfgFinds]_cfgVars
    BY <1>1, <1>2, <1>3, PTL DEF CfgSpec
  <1>5. QED  BY <1>4 DEF StartFindsSettings, CfgFinds

--------------------------------------------------------------------------------
(* The updaters. *)

UpPcs == {"idle", "create", "check", "open", "begin", "write", "select", "remove",
          "restart", "failed"}

FwTypes ==
  /\ running \in Versions /\ slot \in [1..Chunks -> Int] /\ file \in Int
  /\ upPc \in [Starters -> UpPcs]
  /\ opened \in [Starters -> Int] /\ written \in [Starters -> 0..Chunks]
  /\ \A s \in OtaStarters : upPc[s] \notin {"check", "open", "select", "remove"}
  /\ \A s \in Starters :
       /\ upPc[s] \in {"idle", "create", "check", "open", "begin"} => written[s] = 0
       /\ upPc[s] \in {"select", "remove"} => written[s] = Chunks

\* No file was changed under an update and no OTA update met another.
Clean == ~swapped /\ overlap = {}

Resting == {"idle", "create"}
Busy    == {"open", "begin", "write", "select", "remove", "restart"}

\* No chunk in flash is of a release that is not newer.
NewerOnly == \A c \in 1..Chunks : slot[c] <= 0 \/ slot[c] > running

\* What an updater has open is newer, and so is what it writes; an image that is
\* selected and whole is newer; an OTA update is alone, with nothing selected.
NewerInv ==
  Clean =>
    /\ \A s \in UsdStarters :
         /\ upPc[s] \in Busy => opened[s] > running
         /\ upPc[s] = "open" => file \in {NoFile, opened[s]}
         /\ upPc[s] \in {"write", "select"} => NewerOnly
    /\ selected => NewerOnly \/ ~Whole(slot)
    /\ \A o \in OtaStarters :
         /\ upPc[o] \notin Resting => \A s \in UsdStarters : upPc[s] \in Resting
         /\ upPc[o] = "write" => ~selected

\* An updater has the file open, and in flash the chunks it has written, unless another
\* has erased or overwritten them.
IntactInv ==
  /\ ~swapped => \A s \in UsdStarters :
       upPc[s] \in {"open", "begin", "write", "select", "remove"} => file \in {NoFile, opened[s]}
  /\ \A s \in UsdStarters :
       s \notin spoiled /\ upPc[s] \in {"write", "select", "remove"} =>
         \A c \in 1..Chunks : slot[c] = opened[s] \/ (c > written[s] /\ slot[c] = 0)
  /\ \A s \in UsdStarters : upPc[s] = "remove" => selected

FwInv == FwTypes /\ NewerInv /\ IntactInv

\* Only the end of all updates changes the release, and that of one the file.
FwActedWell ==
  /\ running' >= running \/ swapped \/ overlap # {}
  /\ \A s \in UsdStarters :
       upPc[s] = "remove" /\ file # NoFile /\ file' = NoFile /\ upPc'[s] # upPc[s] =>
         \/ selected' /\ slot' = [c \in 1..Chunks |-> file]
         \/ swapped \/ s \in spoiled

LEMMA TypesStep == FwTypes /\ [FwNext]_fwVars => FwTypes'
  <1> SUFFICES ASSUME FwTypes, [FwNext]_fwVars  PROVE FwTypes'
    OBVIOUS
  <1> USE FirmwareAssumption
      DEF FirmwareAssumption, FwTypes, Versions, Starters, UpPcs, UpGoto, Erase, flash, tasks,
          history
  <1>0. ASSUME NEW s \in Starters, Stops(s), UNCHANGED <<running, slot, file>>
        PROVE  FwTypes'
    BY <1>0 DEF Stops, NoFile
  <1>1. ASSUME NEW s \in Starters,
               TestHandle(s) \/ CreateTask(s) \/ CreateFails(s) \/ UsdRemove(s) \/ UsdBegin(s)
        PROVE  FwTypes'
    <2>1. CASE TestHandle(s)  BY <2>1 DEF TestHandle
    <2>2. CASE CreateTask(s)
      <3>1. upPc[s] = "create" /\ UNCHANGED <<running, slot, file, opened, written>>
            /\ upPc' = [upPc EXCEPT ![s] = IF s \in UsdStarters THEN "check" ELSE "begin"]
        BY <2>2 DEF CreateTask
      <3>2. QED  BY <3>1
    <2>3. CASE CreateFails(s)
      BY <2>3 DEF CreateFails
    <2>4. CASE UsdRemove(s)  BY <2>4 DEF UsdRemove, NoFile
    <2>5. CASE UsdBegin(s)  BY <2>5 DEF UsdBegin, Erased
    <2>6. QED  BY <1>1, <2>1, <2>2, <2>3, <2>4, <2>5
  <1>2. ASSUME NEW s \in Starters, UsdCheck(s) \/ UsdOpen(s)  PROVE FwTypes'
    <2>1. s \notin OtaStarters /\ UNCHANGED <<running, slot, file>>
      BY <1>2 DEF UsdCheck, UsdOpen
    <2>2. CASE Stops(s)  BY <1>0, <2>1, <2>2
    <2>3. CASE ~Stops(s)
      <3>1. /\ upPc[s] \in {"check", "open"}
            /\ \E p \in {"open", "begin"} : upPc' = [upPc EXCEPT ![s] = p]
            /\ opened' = [opened EXCEPT ![s] = file] /\ UNCHANGED written
        BY <1>2, <2>3 DEF UsdCheck, UsdOpen
      <3>2. QED  BY <2>1, <3>1
    <2>4. QED  BY <2>2, <2>3
  <1>3. ASSUME NEW s \in Starters, WriteChunk(s)  PROVE FwTypes'
    BY <1>3 DEF WriteChunk, Mixed
  <1>4. ASSUME NEW s \in Starters,
               UsdAborts(s) \/ UsdEnd(s) \/ UsdSelect(s) \/ TaskFatalError(s)
        PROVE  FwTypes'
    <2>1. CASE UsdAborts(s)  BY <2>1 DEF UsdAborts, Stops, NoFile
    <2>2. CASE UsdEnd(s)
      <3>1. CASE Stops(s)  BY <1>0, <2>2, <3>1 DEF UsdEnd
      <3>2. CASE ~Stops(s)
        <4>1. /\ s \in UsdStarters /\ written[s] = Chunks
              /\ upPc' = [upPc EXCEPT ![s] = "select"]
              /\ UNCHANGED <<running, slot, file, opened, written>>
          BY <2>2, <3>2 DEF UsdEnd
        <4>2. QED  BY <4>1
      <3>3. QED  BY <3>1, <3>2
    <2>3. CASE UsdSelect(s)
      <3>1. CASE Stops(s)  BY <1>0, <2>3, <3>1 DEF UsdSelect
      <3>2. CASE ~Stops(s)
        <4>1. /\ upPc[s] = "select" /\ upPc' = [upPc EXCEPT ![s] = "remove"]
              /\ UNCHANGED <<running, slot, file, opened, written>>
          BY <2>3, <3>2 DEF UsdSelect
        <4>2. QED  BY <4>1
      <3>3. QED  BY <3>1, <3>2
    <2>4. CASE TaskFatalError(s)  BY <2>4 DEF TaskFatalError, Stops, NoFile
    <2>5. QED  BY <1>4, <2>1, <2>2, <2>3, <2>4
  <1>5. ASSUME NEW s \in Starters, OtaBegin(s) \/ OtaFinish(s)  PROVE FwTypes'
    <2>1. CASE OtaBegin(s)
      <3>1. PICK v \in Versions : opened' = [opened EXCEPT ![s] = v]
        BY <2>1 DEF OtaBegin
      <3>2. /\ s \in OtaStarters /\ upPc[s] = "begin" /\ upPc' = [upPc EXCEPT ![s] = "write"]
            /\ slot' = [c \in 1..Chunks |-> 0]
            /\ UNCHANGED <<running, file, written>>
        BY <2>1 DEF OtaBegin, Erased
      <3>3. QED  BY <3>1, <3>2
    <2>2. CASE OtaFinish(s)
      <3>1. s \notin UsdStarters /\ upPc[s] \in {"begin", "write"}
            /\ UNCHANGED <<running, slot, file, opened, written>>
        BY <2>2 DEF OtaFinish
      <3>2. PICK p \in {"restart", "failed"} : upPc' = [upPc EXCEPT ![s] = p]
        BY <2>2 DEF OtaFinish
      <3>3. QED  BY <3>1, <3>2
    <2>3. QED  BY <1>5, <2>1, <2>2
  <1>6. CASE Restart
    BY <1>6 DEF Restart, Whole, NoFile
  <1>7. CASE FileChanges
    BY <1>7 DEF FileChanges, NoFile, Damaged
  <1>8. CASE UNCHANGED fwVars  BY <1>8 DEF fwVars
  <1>9. QED
    BY <1>1, <1>2, <1>3, <1>4, <1>5, <1>6, <1>7, <1>8 DEF FwNext

\* What Stops leaves, and a task that goes on with nothing else changed.
LEMMA NewerQuiet ==
  ASSUME FwTypes, NewerInv, NEW s \in Starters, NEW p \in UpPcs,
         upPc' = [upPc EXCEPT ![s] = p],
         opened' = opened \/ (p = "idle" /\ opened' = [opened EXCEPT ![s] = NoFile]),
         \/ p = "idle"
         \/ upPc[s] \in Busy /\ p \in Busy \ {"open", "write"} /\ p # "select"
         \/ upPc[s] = "write" /\ p = "select"
         \/ s \in OtaStarters /\ upPc[s] \notin Resting /\ p # "write"
         \/ upPc[s] = "idle" /\ p = "create",
         s \in OtaStarters => p \notin {"open", "select"},
         UNCHANGED <<running, slot, selected, swapped, overlap>>,
         file' \in {file, NoFile}
  PROVE  NewerInv'
  <1> SUFFICES ASSUME Clean'
               PROVE NewerInv'
    BY DEF NewerInv
  <1>1. Clean  BY DEF Clean
  <1>2. (selected' <=> selected) /\ (NewerOnly' <=> NewerOnly) /\ (Whole(slot') <=> Whole(slot))
    BY DEF NewerOnly, Whole
  <1> USE FirmwareAssumption DEF FirmwareAssumption
  <1>3. \A u \in Starters : upPc'[u] = IF u = s THEN p ELSE upPc[u]
    BY DEF FwTypes
  <1>4. \A u \in Starters : u = s => p = "idle" \/ opened'[u] = opened[u]
    BY DEF FwTypes
  <1>5. \A u \in Starters : u # s => opened'[u] = opened[u]
    BY DEF FwTypes
  <1>6. ASSUME NEW u \in UsdStarters
        PROVE  /\ upPc'[u] \in Busy => opened'[u] > running'
               /\ upPc'[u] = "open" => file' \in {NoFile, opened'[u]}
               /\ upPc'[u] \in {"write", "select"} => NewerOnly'
    BY <1>1, <1>2, <1>3, <1>4, <1>5 DEF NewerInv, Busy, Resting, Starters
  <1>7. ASSUME NEW o \in OtaStarters
        PROVE  /\ upPc'[o] \notin Resting => \A u \in UsdStarters : upPc'[u] \in Resting
               /\ upPc'[o] = "write" => ~selected'
    BY <1>1, <1>2, <1>3 DEF NewerInv, Busy, Resting, Starters
  <1>8. QED
    BY <1>1, <1>2, <1>6, <1>7 DEF NewerInv

LEMMA NewerStep == FwTypes /\ NewerInv /\ [FwNext]_fwVars => NewerInv'
  <1> SUFFICES ASSUME FwTypes, NewerInv, [FwNext]_fwVars  PROVE NewerInv'
    OBVIOUS
  <1> USE FirmwareAssumption DEF FirmwareAssumption, UpGoto, Erase, flash, tasks, history
  <1>1. ASSUME NEW s \in Starters, Stops(s),
               UNCHANGED <<running, slot, selected, file, swapped, overlap>>
        PROVE  NewerInv'
    BY <1>1, NewerQuiet DEF Stops, UpPcs
  <1>2. ASSUME NEW s \in Starters, TestHandle(s) \/ CreateFails(s)  PROVE NewerInv'
    <2>1. /\ UNCHANGED <<running, slot, selected, file, swapped, overlap, opened>>
          /\ \/ upPc[s] = "idle" /\ upPc' = [upPc EXCEPT ![s] = "create"]
             \/ upPc' = [upPc EXCEPT ![s] = "idle"]
      BY <1>2 DEF TestHandle, CreateFails
    <2>2. QED  BY <2>1, NewerQuiet DEF UpPcs
  <1>3. ASSUME NEW s \in Starters, CreateTask(s)  PROVE NewerInv'
    <2> SUFFICES ASSUME Clean'  PROVE NewerInv'
      BY DEF NewerInv
    <2>1. /\ UNCHANGED <<running, slot, selected, file, swapped, opened>>
          /\ upPc[s] = "create"
          /\ \A u \in Starters :
               upPc'[u] = IF u = s THEN IF s \in UsdStarters THEN "check" ELSE "begin"
                                   ELSE upPc[u]
      BY <1>3 DEF CreateTask, FwTypes
    <2>2. Clean
      BY <1>3 DEF CreateTask, Clean
    <2>3. s \in OtaStarters => \A u \in UsdStarters : upPc[u] \in Resting
      <3> SUFFICES ASSUME s \in OtaStarters, NEW u \in UsdStarters, upPc[u] \notin Resting
                   PROVE  FALSE
        OBVIOUS
      <3>1. Active # {}  BY DEF Active, Resting, Starters
      <3>2. s \in overlap'  BY <1>3, <3>1 DEF CreateTask
      <3>3. QED  BY <3>2 DEF Clean
    <2>4. s \in UsdStarters => \A o \in OtaStarters : upPc[o] \in Resting
      <3> SUFFICES ASSUME s \in UsdStarters, NEW o \in OtaStarters, upPc[o] \notin Resting
                   PROVE  FALSE
        OBVIOUS
      <3>1. o \in Active  BY DEF Active, Resting, Starters
      <3>2. o \in overlap'  BY <1>3, <3>1 DEF CreateTask
      <3>3. QED  BY <3>2 DEF Clean
    <2>5. NewerOnly' <=> NewerOnly  BY <2>1 DEF NewerOnly
    <2>6. Whole(slot') <=> Whole(slot)  BY <2>1 DEF Whole
    <2>7. selected' <=> selected  BY <2>1
    <2>8. QED
      BY <2>1, <2>2, <2>3, <2>4, <2>5, <2>6, <2>7 DEF NewerInv, Busy, Resting, Starters
  <1>4. ASSUME NEW s \in Starters, UsdCheck(s) \/ UsdOpen(s)  PROVE NewerInv'
    <2> SUFFICES ASSUME Clean'  PROVE NewerInv'
      BY DEF NewerInv
    <2>1. Clean /\ UNCHANGED <<running, slot, selected, file, swapped, overlap>>
      BY <1>4 DEF UsdCheck, UsdOpen, Clean
    <2>2. CASE Stops(s)  BY <1>1, <2>1, <2>2
    <2>3. CASE ~Stops(s) /\ UsdOpen(s)
      <3>1. /\ upPc[s] = "open" /\ upPc' = [upPc EXCEPT ![s] = "begin"]
            /\ file # NoFile /\ opened' = [opened EXCEPT ![s] = file]
        BY <2>3 DEF UsdOpen
      <3>2. s \in UsdStarters  BY <3>1 DEF FwTypes, Starters
      <3>3. file = opened[s]  BY <2>1, <3>1, <3>2 DEF NewerInv
      <3>4. opened' = opened  BY <3>1, <3>3 DEF FwTypes
      <3>5. QED  BY <2>1, <3>1, <3>2, <3>4, NewerQuiet DEF UpPcs, Busy
    <2>4. CASE ~Stops(s) /\ UsdCheck(s)
      <3>1. /\ upPc[s] = "check" /\ file > running
            /\ \A u \in Starters : /\ upPc'[u] = IF u = s THEN "open" ELSE upPc[u]
                                   /\ opened'[u] = IF u = s THEN file ELSE opened[u]
        BY <2>4 DEF UsdCheck, FirmwareStatus, VersionPolicy, FwTypes
      <3>2. s \in UsdStarters  BY <3>1 DEF FwTypes, Starters
      <3>3. NewerOnly' <=> NewerOnly  BY <2>1 DEF NewerOnly
      <3>4. Whole(slot') <=> Whole(slot)  BY <2>1 DEF Whole
      <3>5. selected' <=> selected  BY <2>1
      <3>6. QED
        BY <2>1, <3>1, <3>2, <3>3, <3>4, <3>5 DEF NewerInv, Busy, Resting, Starters
    <2>5. QED  BY <1>4, <2>2, <2>3, <2>4
  <1>5. ASSUME NEW s \in Starters, UsdBegin(s) \/ OtaBegin(s)  PROVE NewerInv'
    <2> SUFFICES ASSUME Clean'  PROVE NewerInv'
      BY DEF NewerInv
    <2>1. /\ UNCHANGED <<running, selected, file, swapped>> /\ upPc[s] = "begin"
          /\ \A c \in 1..Chunks : slot'[c] = 0
          /\ \A u \in Starters : upPc'[u] = IF u = s THEN "write" ELSE upPc[u]
      BY <1>5 DEF UsdBegin, OtaBegin, Erased, FwTypes
    <2>2. Clean  BY <1>5 DEF UsdBegin, OtaBegin, Clean
    <2>3. \A u \in Starters : u # s \/ s \in UsdStarters => opened'[u] = opened[u]
      BY <1>5 DEF UsdBegin, OtaBegin, FwTypes
    <2>4. s \in OtaStarters => ~selected
      BY <1>5 DEF UsdBegin, OtaBegin, Clean
    <2>5. NewerOnly'  BY <2>1 DEF NewerOnly
    <2>6. selected' <=> selected  BY <2>1
    <2>7. QED
      BY <2>1, <2>2, <2>3, <2>4, <2>5, <2>6 DEF NewerInv, Busy, Resting, Starters
  <1>6. ASSUME NEW s \in Starters, WriteChunk(s)  PROVE NewerInv'
    <2> SUFFICES ASSUME Clean'  PROVE NewerInv'
      BY DEF NewerInv
    <2> DEFINE d == written[s] + 1
    <2>1. /\ UNCHANGED <<running, selected, file, swapped, overlap, upPc, opened>>
          /\ upPc[s] = "write" /\ d \in 1..Chunks
          /\ slot' = [slot EXCEPT ![d] = IF @ \in {0, opened[s]} THEN opened[s] ELSE Mixed]
      BY <1>6 DEF WriteChunk, FwTypes
    <2>2. Clean  BY <2>1 DEF Clean
    <2>3. selected' <=> selected  BY <2>1
    <2>4. CASE s \in OtaStarters
      <3>1. ~selected /\ \A u \in UsdStarters : upPc[u] \in Resting
        BY <2>1, <2>2, <2>4 DEF NewerInv, Resting
      <3>2. QED
        BY <2>1, <2>2, <2>3, <3>1 DEF NewerInv, Busy, Resting
    <2>5. CASE s \in UsdStarters
      <3>1. NewerOnly /\ opened[s] > running
        BY <2>1, <2>2, <2>5 DEF NewerInv, Busy
      <3>2. NewerOnly'
        <4> SUFFICES ASSUME NEW c \in 1..Chunks  PROVE slot'[c] <= 0 \/ slot'[c] > running
          BY <2>1 DEF NewerOnly
        <4>1. slot'[c] = slot[c] \/ slot'[c] = opened[s] \/ slot'[c] = -1
          BY <2>1 DEF FwTypes, Mixed
        <4>2. QED  BY <3>1, <4>1 DEF NewerOnly
      <3>3. QED
        BY <2>1, <2>2, <2>3, <3>2 DEF NewerInv, Busy, Resting
    <2>6. QED  BY <2>4, <2>5 DEF Starters
  <1>7. ASSUME NEW s \in Starters, UsdAborts(s) \/ UsdEnd(s) \/ TaskFatalError(s)
        PROVE  NewerInv'
    <2>1. UNCHANGED <<running, slot, selected, file, swapped, overlap>>
      BY <1>7 DEF UsdAborts, UsdEnd, TaskFatalError
    <2>2. CASE Stops(s)  BY <1>1, <2>1, <2>2
    <2>3. CASE ~Stops(s)
      <3>1. /\ s \in UsdStarters /\ upPc[s] = "write" /\ opened' = opened
            /\ upPc' = [upPc EXCEPT ![s] = "select"]
        BY <1>7, <2>3 DEF UsdAborts, UsdEnd, TaskFatalError
      <3>2. QED  BY <2>1, <3>1, NewerQuiet DEF UpPcs
    <2>4. QED  BY <2>2, <2>3
  <1>8. ASSUME NEW s \in Starters, UsdSelect(s)  PROVE NewerInv'
    <2> SUFFICES ASSUME Clean'  PROVE NewerInv'
      BY DEF NewerInv
    <2>1. UNCHANGED <<running, slot, file, swapped, overlap>> /\ upPc[s] = "select"
      BY <1>8 DEF UsdSelect
    <2>2. Clean  BY <2>1 DEF Clean
    <2>3. s \in UsdStarters  BY <2>1 DEF FwTypes, Starters
    <2>4. CASE Stops(s)
      <3>1. selected' = selected  BY <1>8, <2>4 DEF UsdSelect, Stops, FwTypes
      <3>2. QED  BY <1>1, <2>1, <2>4, <3>1
    <2>5. CASE ~Stops(s)
      <3>1. upPc' = [upPc EXCEPT ![s] = "remove"] /\ opened' = opened
        BY <1>8, <2>5 DEF UsdSelect
      <3>2. \A u \in Starters : upPc'[u] = IF u = s THEN "remove" ELSE upPc[u]
        BY <3>1 DEF FwTypes
      <3>3. NewerOnly'
        BY <2>1, <2>2, <2>3 DEF NewerInv, NewerOnly
      <3>4. QED
        BY <2>1, <2>2, <2>3, <3>1, <3>2, <3>3 DEF NewerInv, Busy, Resting, Starters
    <2>6. QED  BY <2>4, <2>5
  <1>9. ASSUME NEW s \in Starters, UsdRemove(s) \/ OtaFinish(s)  PROVE NewerInv'
    <2>1. CASE UsdRemove(s)
      <3>1. /\ upPc[s] = "remove" /\ upPc' = [upPc EXCEPT ![s] = "restart"]
            /\ file' \in {file, NoFile} /\ opened' = opened
            /\ UNCHANGED <<running, slot, selected, swapped, overlap>>
        BY <2>1 DEF UsdRemove
      <3>2. QED  BY <3>1, NewerQuiet DEF UpPcs, Busy
    <2>2. CASE OtaFinish(s)
      <3>1. ~CheckFirmwareValidation(s)  BY DEF CheckFirmwareValidation, CryptoSha256
      <3>2. /\ s \in OtaStarters /\ upPc[s] \in {"begin", "write"}
            /\ upPc' = [upPc EXCEPT ![s] = "failed"]
            /\ UNCHANGED <<running, slot, file, swapped, overlap, opened>>
        BY <2>2, <3>1 DEF OtaFinish
      <3>3. selected' <=> selected  BY <2>2, <3>1 DEF OtaFinish
      <3>4. QED  BY <3>2, <3>3, NewerQuiet DEF UpPcs, Resting
    <2>3. QED  BY <1>9, <2>1, <2>2
  <1>10. CASE Restart
    <2>1. \A u \in Starters : upPc'[u] = "idle"  BY <1>10 DEF Restart
    <2>2. selected' => ~Whole(slot')
      BY <1>10 DEF Restart
    <2>3. QED
      BY <2>1, <2>2 DEF NewerInv, Busy, Resting, Starters
  <1>11. CASE FileChanges
    <2> SUFFICES ASSUME Clean'  PROVE NewerInv'
      BY DEF NewerInv
    <2>1. UNCHANGED <<running, slot, selected, upPc, opened, overlap>>
      BY <1>11 DEF FileChanges
    <2>2. Clean /\ \A u \in UsdStarters : upPc[u] # "open"
      BY <1>11 DEF FileChanges, Clean
    <2>3. QED
      BY <2>1, <2>2 DEF NewerInv, Busy, Resting, NewerOnly, Whole
  <1>12. CASE UNCHANGED fwVars
    BY <1>12 DEF fwVars, NewerInv, NewerOnly, Whole, Clean
  <1>13. QED
    BY <1>2, <1>3, <1>4, <1>5, <1>6, <1>7, <1>8, <1>9, <1>10, <1>11, <1>12, Zenon DEF FwNext

\* A task that stops, or goes on with what it has.
LEMMA IntactQuiet ==
  ASSUME FwTypes, IntactInv, NEW s \in Starters, NEW p \in UpPcs,
         \A u \in Starters : u # s => upPc'[u] = upPc[u] /\ opened'[u] = opened[u],
         \A u \in Starters : u # s => written'[u] = written[u],
         upPc'[s] = p,
         \/ p \in {"idle", "create", "restart", "failed"}
         \/ /\ opened'[s] = opened[s] /\ written'[s] = written[s]
            /\ \/ upPc[s] = "open" /\ p = "begin"
               \/ upPc[s] = "write" /\ p = "select",
         UNCHANGED <<slot, file, swapped, spoiled>>, selected => selected'
  PROVE  IntactInv'
  <1>1. ASSUME ~swapped', NEW u \in UsdStarters,
               upPc'[u] \in {"open", "begin", "write", "select", "remove"}
        PROVE  file' \in {NoFile, opened'[u]}
    BY <1>1 DEF IntactInv, Starters
  <1>2. ASSUME NEW u \in UsdStarters, u \notin spoiled',
               upPc'[u] \in {"write", "select", "remove"}, NEW c \in 1..Chunks
        PROVE  slot'[c] = opened'[u] \/ (c > written'[u] /\ slot'[c] = 0)
    BY <1>2 DEF IntactInv, Starters
  <1>3. ASSUME NEW u \in UsdStarters, upPc'[u] = "remove"  PROVE selected'
    BY <1>3 DEF IntactInv, Starters
  <1>4. QED  BY <1>1, <1>2, <1>3 DEF IntactInv

LEMMA IntactStep == FwTypes /\ IntactInv /\ [FwNext]_fwVars => IntactInv'
  <1> SUFFICES ASSUME FwTypes, IntactInv, [FwNext]_fwVars  PROVE IntactInv'
    OBVIOUS
  <1> USE FirmwareAssumption DEF FirmwareAssumption, UpGoto, flash, tasks, history
  <1>1. ASSUME NEW s \in Starters, Stops(s), UNCHANGED <<slot, file, swapped, spoiled>>,
               selected => selected'
        PROVE  IntactInv'
    <2>1. /\ \A u \in Starters : u # s => upPc'[u] = upPc[u] /\ opened'[u] = opened[u]
          /\ \A u \in Starters : u # s => written'[u] = written[u]
          /\ upPc'[s] = "idle"
      BY <1>1 DEF Stops, FwTypes
    <2>2. QED  BY <1>1, <2>1, IntactQuiet DEF UpPcs
  <1>2. ASSUME NEW s \in Starters, TestHandle(s) \/ CreateFails(s)  PROVE IntactInv'
    <2>1. PICK p \in {"create", "idle"} : upPc' = [upPc EXCEPT ![s] = p]
      BY <1>2 DEF TestHandle, CreateFails
    <2>2. UNCHANGED <<slot, file, swapped, spoiled, selected, opened, written>>
      BY <1>2 DEF TestHandle, CreateFails
    <2>3. /\ \A u \in Starters : u # s => upPc'[u] = upPc[u]
          /\ upPc'[s] = p
      BY <2>1 DEF FwTypes
    <2>4. QED  BY <2>1, <2>2, <2>3, IntactQuiet DEF UpPcs
  <1>3. ASSUME NEW s \in Starters, CreateTask(s)  PROVE IntactInv'
    <2>1. /\ UNCHANGED <<slot, file, swapped, spoiled, selected, opened, written>>
          /\ \A u \in Starters :
               upPc'[u] = IF u = s THEN IF s \in UsdStarters THEN "check" ELSE "begin"
                                   ELSE upPc[u]
      BY <1>3 DEF CreateTask, FwTypes
    <2>2. \A u \in UsdStarters : upPc'[u] = upPc[u] \/ upPc'[u] = "check"
      BY <2>1 DEF Starters
    <2>3. QED
      BY <2>1, <2>2 DEF IntactInv
  <1>4. ASSUME NEW s \in Starters, UsdCheck(s) \/ UsdOpen(s)  PROVE IntactInv'
    <2>1. UNCHANGED <<slot, selected, file, swapped, spoiled>>
      BY <1>4 DEF UsdCheck, UsdOpen
    <2>2. CASE Stops(s)  BY <1>1, <2>1, <2>2
    <2>3. CASE ~Stops(s)
      <3>1. PICK p \in {"open", "begin"} :
              /\ \A u \in Starters : /\ upPc'[u] = IF u = s THEN p ELSE upPc[u]
                                     /\ opened'[u] = IF u = s THEN file ELSE opened[u]
              /\ written' = written
        BY <1>4, <2>3 DEF UsdCheck, UsdOpen, FwTypes
      <3>2. QED
        BY <2>1, <3>1 DEF IntactInv, Starters
    <2>4. QED  BY <2>2, <2>3
  <1>5. ASSUME NEW s \in Starters, UsdBegin(s) \/ OtaBegin(s)  PROVE IntactInv'
    <2>1. /\ UNCHANGED <<file, swapped, selected, written>> /\ upPc[s] = "begin"
          /\ \A c \in 1..Chunks : slot'[c] = 0
          /\ \A u \in Starters : upPc'[u] = IF u = s THEN "write" ELSE upPc[u]
          /\ spoiled' = OthersIn(s)
      BY <1>5 DEF UsdBegin, OtaBegin, Erase, Erased, FwTypes
    <2>2. \A u \in UsdStarters : opened'[u] = opened[u]
      BY <1>5 DEF UsdBegin, OtaBegin, FwTypes, Starters
    <2>3. ASSUME NEW u \in UsdStarters, u \notin spoiled',
                 upPc'[u] \in {"write", "select", "remove"}, NEW c \in 1..Chunks
          PROVE  c > written'[u] /\ slot'[c] = 0
      <3>1. u = s  BY <2>1, <2>3 DEF OthersIn, Starters
      <3>2. written[s] = 0  BY <2>1 DEF FwTypes
      <3>3. QED  BY <2>1, <3>1, <3>2
    <2>4. ASSUME ~swapped', NEW u \in UsdStarters,
                 upPc'[u] \in {"open", "begin", "write", "select", "remove"}
          PROVE  file' \in {NoFile, opened'[u]}
      BY <2>1, <2>2, <2>4 DEF IntactInv, Starters
    <2>5. ASSUME NEW u \in UsdStarters, upPc'[u] = "remove"  PROVE selected'
      BY <2>1, <2>5 DEF IntactInv, Starters
    <2>6. QED
      BY <2>3, <2>4, <2>5 DEF IntactInv
  <1>6. ASSUME NEW s \in Starters, WriteChunk(s)  PROVE IntactInv'
    <2> DEFINE d == written[s] + 1
    <2>1. /\ UNCHANGED <<selected, file, swapped, upPc, opened>>
          /\ upPc[s] = "write" /\ d \in 1..Chunks
          /\ slot' = [slot EXCEPT ![d] = IF @ \in {0, opened[s]} THEN opened[s] ELSE Mixed]
          /\ \A u \in Starters : written'[u] = IF u = s THEN d ELSE written[u]
          /\ spoiled' = spoiled \cup {t \in OthersIn(s) : opened[t] # opened[s]}
      BY <1>6 DEF WriteChunk, FwTypes
    <2>2. ASSUME NEW u \in UsdStarters, u \notin spoiled',
                 upPc'[u] \in {"write", "select", "remove"}, NEW c \in 1..Chunks
          PROVE  slot'[c] = opened'[u] \/ (c > written'[u] /\ slot'[c] = 0)
      <3>1. opened[u] = opened[s]  BY <2>1, <2>2 DEF OthersIn, Starters
      <3>2. slot[c] = opened[u] \/ (c > written[u] /\ slot[c] = 0)
        BY <2>1, <2>2 DEF IntactInv
      <3>3. CASE c = d
        <4>1. slot[d] \in {0, opened[s]}  BY <3>1, <3>2, <3>3
        <4>2. slot'[d] = opened[s]  BY <2>1, <4>1 DEF FwTypes
        <4>3. QED  BY <2>1, <3>1, <3>3, <4>2
      <3>4. CASE c # d
        <4>1. slot'[c] = slot[c]  BY <2>1, <3>4 DEF FwTypes
        <4>2. written[s] \in Int  BY DEF FwTypes
        <4>3. c > d <=> c > written[s]  BY <3>4, <4>2
        <4>4. c > written'[u] <=> c > written[u]  BY <2>1, <4>3 DEF Starters
        <4>5. opened'[u] = opened[u]  BY <2>1
        <4> HIDE DEF d
        <4>6. QED  BY <3>2, <4>1, <4>4, <4>5
      <3>5. QED  BY <3>3, <3>4
    <2>3. QED
      BY <2>1, <2>2 DEF IntactInv
  <1>7. ASSUME NEW s \in Starters, UsdAborts(s) \/ UsdEnd(s) \/ TaskFatalError(s)
        PROVE  IntactInv'
    <2>1. UNCHANGED <<slot, selected, file, swapped, spoiled>>
      BY <1>7 DEF UsdAborts, UsdEnd, TaskFatalError
    <2>2. CASE Stops(s)  BY <1>1, <2>1, <2>2
    <2>3. CASE ~Stops(s)
      <3>1. /\ upPc[s] = "write" /\ UNCHANGED <<opened, written>>
            /\ \A u \in Starters : upPc'[u] = IF u = s THEN "select" ELSE upPc[u]
        BY <1>7, <2>3 DEF UsdAborts, UsdEnd, TaskFatalError, FwTypes
      <3>2. QED  BY <2>1, <3>1, IntactQuiet DEF UpPcs
    <2>4. QED  BY <2>2, <2>3
  <1>8. ASSUME NEW s \in Starters, UsdSelect(s)  PROVE IntactInv'
    <2>1. UNCHANGED <<slot, file, swapped, spoiled>> /\ upPc[s] = "select"
      BY <1>8 DEF UsdSelect
    <2>2. CASE Stops(s)
      <3>1. ~Whole(slot) => selected' = selected  BY <1>8 DEF UsdSelect
      <3>2. Whole(slot) => selected'  BY <1>8, Zenon DEF UsdSelect
      <3>3. QED  BY <1>1, <2>1, <2>2, <3>1, <3>2
    <2>3. CASE ~Stops(s)
      <3>1. selected' /\ UNCHANGED <<opened, written>>
        BY <1>8, <2>3, Zenon DEF UsdSelect
      <3>2. \A u \in Starters : upPc'[u] = IF u = s THEN "remove" ELSE upPc[u]
        BY <1>8, <2>3 DEF UsdSelect, FwTypes
      <3>3. QED
        BY <2>1, <3>1, <3>2 DEF IntactInv, Starters
    <2>4. QED  BY <2>2, <2>3
  <1>9. ASSUME NEW s \in Starters, UsdRemove(s)  PROVE IntactInv'
    <2>1. /\ UNCHANGED <<slot, selected, swapped, spoiled, opened, written>>
          /\ file' \in {NoFile, file}
          /\ \A u \in Starters : upPc'[u] = IF u = s THEN "restart" ELSE upPc[u]
      BY <1>9 DEF UsdRemove, FwTypes
    <2>2. QED
      BY <2>1 DEF IntactInv, Starters
  <1>10. ASSUME NEW s \in Starters, OtaFinish(s)  PROVE IntactInv'
    <2>1. UNCHANGED <<slot, file, swapped, spoiled, opened, written>>
      BY <1>10 DEF OtaFinish
    <2>2. selected => selected'  BY <1>10, Zenon DEF OtaFinish
    <2>3. PICK p \in {"restart", "failed"} : upPc' = [upPc EXCEPT ![s] = p]
      BY <1>10 DEF OtaFinish
    <2>4. \A u \in Starters : upPc'[u] = IF u = s THEN p ELSE upPc[u]
      BY <2>3 DEF FwTypes
    <2>5. QED  BY <2>1, <2>2, <2>3, <2>4, IntactQuiet DEF UpPcs
  <1>11. CASE Restart
    <2>1. \A u \in Starters : upPc'[u] = "idle"  BY <1>11 DEF Restart
    <2>2. QED  BY <2>1 DEF IntactInv, Starters
  <1>12. CASE FileChanges
    <2>1. UNCHANGED <<slot, selected, upPc, opened, written, spoiled>>
      BY <1>12 DEF FileChanges
    <2>2. ASSUME ~swapped', NEW u \in UsdStarters
          PROVE  ~swapped /\ upPc[u] \in {"idle", "create", "check"}
      BY <1>12, <2>2, Zenon DEF FileChanges
    <2>3. QED  BY <2>1, <2>2 DEF IntactInv, Starters
  <1>13. CASE UNCHANGED fwVars
    BY <1>13 DEF fwVars, IntactInv
  <1>14. QED
    BY <1>2, <1>3, <1>4, <1>5, <1>6, <1>7, <1>8, <1>9, <1>10, <1>11, <1>12, <1>13, Zenon
    DEF FwNext

LEMMA FwInvStep == FwInv /\ [FwNext]_fwVars => FwInv'
  BY TypesStep, NewerStep, IntactStep DEF FwInv

LEMMA FwActs == FwInv /\ [FwNext]_fwVars => FwActedWell \/ UNCHANGED fwVars
  <1> SUFFICES ASSUME FwInv, FwNext  PROVE FwActedWell
    OBVIOUS
  <1> USE FirmwareAssumption DEF FirmwareAssumption, UpGoto, Erase, flash, tasks, history,
      FwActedWell
  <1>0. running \in Int  BY DEF FwInv, FwTypes, Versions
  <1>1. ASSUME NEW s \in UsdStarters, upPc[s] = "remove", UsdRemove(s), file # NoFile,
               ~swapped, s \notin spoiled
        PROVE  selected' /\ slot' = [c \in 1..Chunks |-> file]
    <2>1. slot' = slot /\ selected' = selected  BY <1>1 DEF UsdRemove
    <2>2. selected'  BY <1>1, <2>1, Zenon DEF FwInv, IntactInv
    <2>3. file = opened[s]  BY <1>1 DEF FwInv, IntactInv
    <2>4. written[s] = Chunks  BY <1>1 DEF FwInv, FwTypes, Starters
    <2>5. \A c \in 1..Chunks : slot[c] = file
      BY <1>1, <2>3, <2>4 DEF FwInv, IntactInv
    <2>6. QED  BY <2>1, <2>2, <2>5 DEF FwInv, FwTypes
  <1>2. ASSUME NEW s \in UsdStarters, upPc[s] = "remove", file # NoFile, file' = NoFile,
               upPc'[s] # upPc[s], ~Restart
        PROVE  UsdRemove(s)
    <2>1. UsdStarters \subseteq Starters  BY DEF Starters
    <2>2. ~FileChanges  BY <1>2 DEF FileChanges
    <2>3. PICK u \in Starters : UsdRemove(u)
      BY <1>2, <2>2 DEF FwNext, TestHandle, CreateTask, CreateFails, UsdCheck, UsdOpen, UsdBegin,
                WriteChunk, UsdAborts, UsdEnd, UsdSelect, OtaBegin, OtaFinish, TaskFatalError
    <2>4. upPc' = [upPc EXCEPT ![u] = "restart"]  BY <2>3 DEF UsdRemove
    <2>5. u = s  BY <1>2, <2>1, <2>4 DEF FwInv, FwTypes
    <2>6. QED  BY <2>3, <2>5
  <1>3. CASE Restart
    <2>1. file' = file  BY <1>3 DEF Restart
    <2>2. ASSUME Clean  PROVE running' >= running
      <3>1. CASE selected /\ Whole(slot)
        <4>1. PICK v \in Versions : slot = [c \in 1..Chunks |-> v]  BY <3>1 DEF Whole
        <4>2. slot[1] = v /\ v > 0  BY <4>1 DEF Versions
        <4>3. NewerOnly  BY <2>2, <3>1 DEF FwInv, NewerInv
        <4>4. running' = slot[1]  BY <1>3, <3>1 DEF Restart
        <4>5. QED  BY <1>0, <4>2, <4>3, <4>4 DEF NewerOnly, Versions
      <3>2. CASE ~(selected /\ Whole(slot))
        BY <1>0, <1>3, <3>2 DEF Restart
      <3>3. QED  BY <3>1, <3>2
    <2>3. QED  BY <2>1, <2>2 DEF Clean
  <1>4. CASE ~Restart
    <2>1. running' = running
      BY <1>4 DEF FwNext, TestHandle, CreateTask, CreateFails, UsdCheck, UsdOpen, UsdBegin,
                  WriteChunk, UsdAborts, UsdEnd, UsdSelect, UsdRemove, OtaBegin, OtaFinish,
                  TaskFatalError, FileChanges
    <2>2. running' >= running  BY <1>0, <2>1
    <2>3. QED  BY <1>1, <1>2, <1>4, <2>2
  <1>5. QED  BY <1>3, <1>4

\* No release is replaced by an older one, unless the file was changed or an OTA update
\* met another; and no file is removed before its image is whole and selected, unless
\* the file was changed or another updater erased or overwrote the image: for any tasks,
\* releases and sizes of an image, whenever the power fails.
THEOREM UpdatesSafe == FwSpec => UpdatesAreSafe
  <1>1. FwInit => FwInv
    <2> USE FirmwareAssumption DEF FirmwareAssumption
    <2> SUFFICES ASSUME FwInit  PROVE FwInv
      OBVIOUS
    <2>1. FwTypes
      BY DEF FwInit, FwTypes, UpPcs, Starters, Versions, Erased, NoFile
    <2>2. \A s \in Starters : upPc[s] = "idle"  BY DEF FwInit
    <2>3. ~selected  BY Zenon DEF FwInit
    <2>4. QED
      BY <2>1, <2>2, <2>3 DEF FwInv, NewerInv, IntactInv, Starters, Busy, Resting
  <1>2. FwInv /\ [FwNext]_fwVars => [FwActedWell]_fwVars  BY FwActs
  <1>3. FwSpec => [][FwActedWell]_fwVars
    BY <1>1, <1>2, FwInvStep, PTL DEF FwSpec
  <1>4. QED  BY <1>3 DEF UpdatesAreSafe, FwActedWell

--------------------------------------------------------------------------------
(* The SmartThings client. *)

\* The cloud is right but for what is still to be told; what a refresh has read is
\* right or known to be old.
CloudInv ==
  /\ messages = 0 => pendingCalls = {}
  /\ \A a \in holding : a \in raced \/ attribute[a] = held
  /\ messages # 0 =>
       \A a \in Attributes \ (offline \cup raced) :
         \/ a \in pendingCalls \/ (messages = 1 /\ "ready" \in pendingCalls)
         \/ cloud[a] = attribute[a]

LEMMA CloudStep == CloudInv /\ [StNext]_attrVars => CloudInv'
  <1> SUFFICES ASSUME CloudInv, [StNext]_attrVars  PROVE CloudInv'
    OBVIOUS
  <1> USE DEF CloudInv, stPanel, stCloud, stRefresh, Tells
  <1>1. ASSUME NEW new \in [Attributes -> BOOLEAN], PanelMessage(new)  PROVE CloudInv'
    BY <1>1 DEF PanelMessage
  <1>2. ASSUME NEW a \in Attributes, Callback(a)  PROVE CloudInv'
    BY <1>2 DEF Callback
  <1>3. ASSUME NEW a \in Attributes, RefreshReads(a)  PROVE CloudInv'
    BY <1>3 DEF RefreshReads
  <1>4. CASE OnReady  BY <1>4 DEF OnReady, ReadyTells
  <1>5. CASE RefreshBegins \/ IotStatus  BY <1>5 DEF RefreshBegins, IotStatus
  <1>6. CASE RefreshSends  BY <1>6 DEF RefreshSends
  <1>7. CASE UNCHANGED attrVars  BY <1>7 DEF attrVars
  <1>8. QED
    BY <1>1, <1>2, <1>3, <1>4, <1>5, <1>6, <1>7 DEF StNext

\* The cloud follows the panel for any attributes, but for one whose last callback
\* found no network or which a refresh sent after it had changed.
THEOREM CloudIsRight == StSpec => []CloudFollowsPanel
  <1>1. StInit => CloudInv  BY DEF StInit, CloudInv
  <1>2. CloudInv => CloudFollowsPanel  BY DEF CloudInv, CloudFollowsPanel
  <1>3. QED  BY <1>1, <1>2, CloudStep, PTL DEF StSpec

--------------------------------------------------------------------------------
(* The web sockets. *)

Sessions == [client : Clients \cup {NoClient}, kind : {"none", "http", "ws"},
             part : Partitions, synced : BOOLEAN]

\* A connection is on one socket, a socket's choice is that of its connection, and so is
\* the partition of the command it sends.
SessionInv ==
  /\ session \in [Sockets -> Sessions]
  /\ asked \in [Clients -> Partitions \cup {NoPartition}]
  /\ \A f, g \in Sockets :
       session[f].client = session[g].client => f = g \/ session[f].client = NoClient
  /\ \A f \in Sockets : session[f].kind # "none" => session[f].client # NoClient
  /\ \A f \in Sockets :
       session[f].synced =>
         session[f].client # NoClient /\ asked[session[f].client] = session[f].part

WsInv == SessionInv /\ CommandIsForOwnPartition

LEMMA SessionStep == WsInv /\ [WsNext]_wsVars => WsInv'
  <1> SUFFICES ASSUME WsInv, [WsNext]_wsVars  PROVE WsInv'
    OBVIOUS
  <1> USE WebSocketsAssumption
      DEF WebSocketsAssumption, WsInv, SessionInv, CommandIsForOwnPartition, Sessions,
          panelState, serverTask, parserTask, clientView
  <1>1. ASSUME NEW f \in Sockets, NEW c \in Clients, Connects(c, f)  PROVE WsInv'
    BY <1>1 DEF Connects, ServerIdle, NewSession, NoSession, Forget
  <1>2. ASSUME NEW f \in Sockets, NEW p \in Partitions, Sync(f, p)  PROVE WsInv'
    <2> DEFINE c == session[f].client
    <2>1. /\ session' = [session EXCEPT ![f].part = p, ![f].synced = TRUE]
          /\ asked' = [asked EXCEPT ![c] = p] /\ session[f].kind = "ws"
          /\ command = {} /\ command' = {}
      BY <1>2 DEF Sync, ServerIdle
    <2>2. c \in Clients  BY <2>1
    <2>3. /\ session'[f].client = c /\ session'[f].kind = "ws" /\ session'[f].part = p
          /\ session'[f] \in Sessions
      <3>1. session'[f] = [session[f] EXCEPT !.part = p, !.synced = TRUE]
        BY <2>1
      <3>2. session[f] \in Sessions
        OBVIOUS
      <3>3. QED
        BY <2>1, <3>1, <3>2
    <2>4. \A g \in Sockets : g # f => session'[g] = session[g]
      BY <2>1
    <2>5. \A d \in Clients : asked'[d] = IF d = c THEN p ELSE asked[d]
      BY <2>1
    <2>6. \A g \in Sockets : g # f => session[g].client # c
      BY <2>2
    <2>7. session' \in [Sockets -> Sessions]
      BY <2>1, <2>3, <2>4
    <2>8. asked' \in [Clients -> Partitions \cup {NoPartition}]
      BY <2>1
    <2> HIDE DEF c
    <2>9. \A g, h \in Sockets :
            session'[g].client = session'[h].client => g = h \/ session'[g].client = NoClient
      BY <2>3, <2>4, <2>6
    <2>10. \A g \in Sockets : session'[g].kind # "none" => session'[g].client # NoClient
      BY <2>2, <2>3, <2>4
    <2>11. \A g \in Sockets :
             session'[g].synced => /\ session'[g].client # NoClient
                                   /\ asked'[session'[g].client] = session'[g].part
      BY <2>2, <2>3, <2>4, <2>5, <2>6
    <2>12. QED  BY <2>1, <2>7, <2>8, <2>9, <2>10, <2>11
  <1>3. ASSUME NEW f \in Sockets, Handshake(f)  PROVE WsInv'
    BY <1>3 DEF Handshake
  <1>4. ASSUME NEW f \in Sockets, Closes(f)  PROVE WsInv'
    BY <1>4 DEF Closes, ServerIdle, NoSession, Forget
  <1>5. ASSUME UNCHANGED <<session, asked>>, command' \subseteq command  PROVE WsInv'
    BY <1>5
  <1>6. ASSUME NEW f \in Sockets, SendCommand(f)  PROVE WsInv'
    BY <1>6 DEF SendCommand
  <1>7. ASSUME NEW f \in Sockets, LooksAt(f)  PROVE WsInv'
    BY <1>5, <1>7 DEF LooksAt
  <1>8. CASE \/ AlarmstateReads \/ AlarmstateSends \/ CommandSent \/ Tell \/ AllTold \/ UiNetwork
             \/ UNCHANGED wsVars
    BY <1>5, <1>8 DEF AlarmstateReads, AlarmstateSends, CommandSent, Tell, AllTold, UiNetwork, wsVars
  <1>9. ASSUME NEW p \in Partitions, StateChanges(p)  PROVE WsInv'
    BY <1>5, <1>9 DEF StateChanges
  <1>10. QED
    BY <1>1, <1>2, <1>3, <1>4, <1>6, <1>7, <1>8, <1>9, Zenon DEF WsNext

LEMMA WsInitInv == WsInit => WsInv
  BY WebSocketsAssumption
  DEF WsInit, WsInv, SessionInv, Sessions, CommandIsForOwnPartition, WebSocketsAssumption, NoSession

\* A command is for the partition its client chose on its own connection, for any
\* clients, sockets and partitions, whoever had the socket before.
THEOREM CommandsForOwnPartition == WsSpec => []CommandIsForOwnPartition
  <1>1. WsInv => CommandIsForOwnPartition
    BY DEF WsInv
  <1>2. QED
    BY <1>1, WsInitInv, SessionStep, PTL DEF WsSpec

\* The parser is still to tell the connection on f.
Telling(f) ==
  notify = session[f].part /\ (f \in toTell \/ \E t \in chosen : t.socket = f)

\* What is on its way to the connection on f.
Awaited(f) ==
  \/ \E i \in 1..Len(work) : work[i] = f
  \/ \E m \in frame : m.socket = f
  \/ Telling(f)

Shown(f) ==
  LET c == session[f].client IN
  /\ shows[c].part = session[f].part
  /\ c \in overtaken \/ shows[c].value = value[session[f].part]

ShowTypes ==
  /\ value \in [Partitions -> Values \cup {NoValue}] /\ uiConnected \in BOOLEAN
  /\ shows \in [Clients -> [part : Partitions \cup {NoPartition}, value : Values \cup {NoValue}]]
  /\ work \in Seq(Sockets)
  /\ notify \in Partitions \cup {NoPartition}
  /\ \A t \in chosen : t.socket \in Sockets /\ t.seen \in Sessions /\ Follows(t.seen, notify)
  /\ \A t, u \in chosen : t = u

\* The frame is for the partition of its socket, which waits while it is sent, and says
\* how it is unless that is told or excused.
FrameFits ==
  \A m \in frame :
    /\ m.socket \in Sockets /\ m.part \in Partitions /\ m.value \in Values \cup {NoValue}
    /\ session[m.socket].kind = "ws" /\ m.part = session[m.socket].part
    /\ \A n \in frame : n = m
    /\ \/ m.value = value[m.part]
       \/ session[m.socket].client \in missed \cup overtaken
       \/ Telling(m.socket)

Served(f) ==
  value[session[f].part] # NoValue =>
    session[f].client \in missed \cup misled \/ Shown(f) \/ Awaited(f)

SyncedInv ==
  \A f \in Sockets : session[f].synced => session[f].kind = "ws" /\ Served(f)

ShowInv == ShowTypes /\ FrameFits /\ SyncedInv

\* What concerns one connection is left alone by what is done to others.
LEMMA ServedKept ==
  ASSUME NEW g, Served(g), UNCHANGED <<value, session[g], shows[session[g].client]>>,
         session[g].client \in missed => session[g].client \in missed',
         session[g].client \in misled => session[g].client \in misled',
         session[g].client \in overtaken => session[g].client \in overtaken',
         Awaited(g) => Awaited(g)'
  PROVE  Served(g)'
  BY DEF Served, Shown

LEMMA ShowStep == SessionInv /\ ShowInv /\ [WsNext]_wsVars => ShowInv'
  <1> SUFFICES ASSUME SessionInv, ShowInv, [WsNext]_wsVars
               PROVE  ShowInv'
    OBVIOUS
  <1>0. /\ session \in [Sockets -> Sessions] /\ NoClient \notin Clients
        /\ NoPartition \notin Partitions /\ 0 \in Partitions
        /\ \A f \in Sockets : session[f].kind # "none" => session[f].client \in Clients
        /\ \A f, g \in Sockets :
             f # g /\ session[f].client = session[g].client => session[f].client = NoClient
    BY WebSocketsAssumption DEF SessionInv, Sessions
  <1>t. ShowTypes /\ FrameFits /\ SyncedInv
    BY DEF ShowInv
  <1> USE DEF panelState, serverTask, parserTask, clientView, wsHistory
  <1>1. ASSUME NEW f \in Sockets, NEW c \in Clients, Connects(c, f)
        PROVE  ShowInv'
    <2>1. /\ frame = {} /\ session' = [session EXCEPT ![f] = NewSession(f, c)]
          /\ \A g \in Sockets : session[g].client # c
          /\ shows' = [shows EXCEPT ![c] = NoFrame]
          /\ missed' = missed \ {c} /\ overtaken' = overtaken \ {c} /\ misled' = misled \ {c}
          /\ UNCHANGED <<uiConnected, value, work, frame, notify, toTell, chosen>>
      BY <1>1 DEF Connects, Forget, ServerIdle
    <2>2. ShowTypes'
      BY <1>t, <2>1 DEF ShowTypes, NoFrame
    <2>3. FrameFits'
      BY <2>1 DEF FrameFits
    <2>4. ~session'[f].synced
      BY <1>0, <2>1 DEF NewSession, NoSession
    <2>5. ASSUME NEW g \in Sockets, g # f, session'[g].synced
          PROVE  session'[g].kind = "ws" /\ Served(g)'
      <3>1. session'[g] = session[g] /\ session[g].client \in Clients
        BY <1>0, <1>t, <2>1, <2>5 DEF SyncedInv
      <3>2. session[g].client # c /\ shows'[session[g].client] = shows[session[g].client]
        BY <1>t, <2>1, <3>1 DEF ShowTypes
      <3>3. Awaited(g) => Awaited(g)'
        BY <2>1, <3>1 DEF Awaited, Telling
      <3>4. session[g].kind = "ws" /\ Served(g)
        BY <1>t, <2>5, <3>1 DEF SyncedInv
      <3>5. Served(g)'
        BY <2>1, <3>1, <3>2, <3>3, <3>4, ServedKept
      <3>6. QED
        BY <3>1, <3>4, <3>5
    <2>6. QED
      BY <2>2, <2>3, <2>4, <2>5 DEF ShowInv, SyncedInv
  <1>2. ASSUME NEW f \in Sockets, NEW p \in Partitions, Sync(f, p)
        PROVE  ShowInv'
    <2>1. /\ frame = {} /\ session' = [session EXCEPT ![f].part = p, ![f].synced = TRUE]
          /\ session[f].kind = "ws" /\ work' = Append(work, f)
          /\ UNCHANGED <<uiConnected, value, frame, notify, toTell, chosen, shows, missed,
                         overtaken, misled>>
      BY <1>2 DEF Sync, ServerIdle
    <2>2. /\ work' \in Seq(Sockets) /\ Len(work') = Len(work) + 1 /\ work'[Len(work) + 1] = f
          /\ \A i \in 1..Len(work) : work'[i] = work[i]
          /\ Len(work) \in Nat
      BY <1>t, <2>1 DEF ShowTypes
    <2>3. ShowTypes' /\ FrameFits'
      BY <1>t, <2>1, <2>2 DEF ShowTypes, FrameFits
    <2>4. session'[f].kind = "ws" /\ Served(f)'
      <3>1. Len(work) + 1 \in 1..Len(work')
        BY <2>2
      <3>2. session'[f].kind = "ws"
        BY <1>0, <2>1
      <3>3. QED
        BY <2>2, <3>1, <3>2 DEF Awaited, Served
    <2>5. ASSUME NEW g \in Sockets, g # f, session'[g].synced
          PROVE  session'[g].kind = "ws" /\ Served(g)'
      <3>1. session'[g] = session[g]
        BY <1>0, <2>1, <2>5
      <3>2. 1..Len(work) \subseteq 1..Len(work')
        BY <2>2
      <3>3. Awaited(g) => Awaited(g)'
        BY <2>1, <2>2, <3>1, <3>2 DEF Awaited, Telling
      <3>4. session[g].kind = "ws" /\ Served(g)
        BY <1>t, <2>5, <3>1 DEF SyncedInv
      <3>5. Served(g)'
        BY <2>1, <3>1, <3>3, <3>4, ServedKept
      <3>6. QED
        BY <3>1, <3>4, <3>5
    <2>6. QED
      BY <2>3, <2>4, <2>5 DEF ShowInv, SyncedInv
  <1>3. ASSUME NEW f \in Sockets, Handshake(f)
        PROVE  ShowInv'
    <2>1. /\ frame = {} /\ session[f].kind = "http" /\ session' = [session EXCEPT ![f].kind = "ws"]
          /\ UNCHANGED <<uiConnected, value, work, frame, notify, toTell, chosen, shows, missed,
                         overtaken, misled>>
      BY <1>3 DEF Handshake, ServerIdle
    <2>2. ShowTypes' /\ FrameFits'
      BY <1>t, <2>1 DEF ShowTypes, FrameFits
    <2>3. ASSUME NEW g \in Sockets, session'[g].synced
          PROVE  session'[g] = session[g] /\ session[g].synced
      <3>1. g = f => session'[g].synced = session[g].synced
        BY <1>0, <2>1 DEF Sessions
      <3>2. g # f
        BY <1>t, <2>1, <2>3, <3>1 DEF SyncedInv
      <3>3. QED
        BY <1>0, <2>1, <2>3, <3>2
    <2>4. ASSUME NEW g \in Sockets, session'[g].synced
          PROVE  session'[g].kind = "ws" /\ Served(g)'
      <3>1. session'[g] = session[g] /\ session[g].kind = "ws" /\ Served(g)
        BY <1>t, <2>3, <2>4 DEF SyncedInv
      <3>2. Awaited(g) => Awaited(g)'
        BY <2>1, <3>1 DEF Awaited, Telling
      <3>3. QED
        BY <2>1, <3>1, <3>2, ServedKept
    <2>5. QED
      BY <2>2, <2>4 DEF ShowInv, SyncedInv
  <1>4. ASSUME NEW f \in Sockets, Closes(f)
        PROVE  ShowInv'
    <2> DEFINE c == session[f].client
    <2>1. /\ frame = {} /\ session' = [session EXCEPT ![f] = NoSession] /\ c # NoClient
          /\ shows' = [shows EXCEPT ![c] = NoFrame]
          /\ missed' = missed \ {c} /\ overtaken' = overtaken \ {c} /\ misled' = misled \ {c}
          /\ UNCHANGED <<uiConnected, value, work, frame, notify, toTell, chosen>>
      BY <1>4 DEF Closes, Forget, ServerIdle
    <2>2. ShowTypes' /\ FrameFits'
      BY <1>t, <2>1 DEF ShowTypes, FrameFits, NoFrame
    <2>3. ~session'[f].synced
      BY <1>0, <2>1 DEF NoSession
    <2>4. ASSUME NEW g \in Sockets, g # f, session'[g].synced
          PROVE  session'[g].kind = "ws" /\ Served(g)'
      <3>1. session'[g] = session[g] /\ session[g].client \in Clients
        BY <1>0, <1>t, <2>1, <2>4 DEF SyncedInv
      <3>2. session[g].client # c
        BY <1>0, <2>1, <2>4
      <3>3. shows'[session[g].client] = shows[session[g].client]
        BY <1>t, <2>1, <3>1, <3>2 DEF ShowTypes
      <3>4. Awaited(g) => Awaited(g)'
        BY <2>1, <3>1 DEF Awaited, Telling
      <3>5. session[g].kind = "ws" /\ Served(g)
        BY <1>t, <2>4, <3>1 DEF SyncedInv
      <3>6. Served(g)'
        BY <2>1, <3>1, <3>2, <3>3, <3>4, <3>5, ServedKept
      <3>7. QED
        BY <3>1, <3>5, <3>6
    <2>5. QED
      BY <2>2, <2>3, <2>4 DEF ShowInv, SyncedInv
  <1>5. ASSUME uiConnected' \in BOOLEAN,
               UNCHANGED <<value, session, work, frame, notify, toTell, chosen, shows, missed,
                           overtaken, misled>>
        PROVE  ShowInv'
    BY <1>5 DEF ShowInv, ShowTypes, FrameFits, SyncedInv, Served, Shown, Awaited, Telling
  <1>6. CASE UiNetwork \/ CommandSent \/ UNCHANGED wsVars \/ \E f \in Sockets : SendCommand(f)
    <2>1. uiConnected \in BOOLEAN
      BY <1>t DEF ShowTypes
    <2>2. QED
      BY <1>5, <1>6, <2>1 DEF UiNetwork, CommandSent, SendCommand, wsVars
  <1>7. CASE AllTold
    <2>1. /\ toTell = {} /\ chosen = {} /\ notify' = NoPartition
          /\ UNCHANGED <<uiConnected, value, session, work, frame, toTell, chosen, shows, missed,
                         overtaken, misled>>
      BY <1>7 DEF AllTold
    <2>2. \A f \in Sockets : ~Telling(f)
      BY <2>1 DEF Telling
    <2>3. ShowTypes' /\ FrameFits'
      BY <1>t, <2>1, <2>2 DEF ShowTypes, FrameFits
    <2>4. SyncedInv'
      BY <1>t, <2>1, <2>2 DEF SyncedInv, Served, Shown, Awaited
    <2>5. QED
      BY <2>3, <2>4 DEF ShowInv
  <1>8. ASSUME NEW f \in Sockets, LooksAt(f)
        PROVE  ShowInv'
    <2>1. /\ chosen = {} /\ toTell' = toTell \ {f}
          /\ chosen' = IF Follows(session[f], notify) THEN {[socket |-> f, seen |-> session[f]]}
                       ELSE {}
          /\ UNCHANGED <<uiConnected, value, session, work, frame, notify, shows, missed,
                         overtaken, misled>>
      BY <1>8 DEF LooksAt
    <2>2. ShowTypes'
      BY <1>0, <1>t, <2>1 DEF ShowTypes
    <2>3. ASSUME NEW g \in Sockets, session[g].kind = "ws", Telling(g)
          PROVE  Telling(g)'
      <3>1. g \in toTell /\ notify = session[g].part
        BY <2>1, <2>3 DEF Telling
      <3>2. CASE g = f
        BY <2>1, <2>3, <3>1, <3>2 DEF Telling, Follows
      <3>3. CASE g # f
        BY <2>1, <3>1, <3>3 DEF Telling
      <3>4. QED
        BY <3>2, <3>3
    <2>4. FrameFits'
      BY <1>t, <2>1, <2>3 DEF FrameFits
    <2>5. ASSUME NEW g \in Sockets, session[g].synced
          PROVE  session[g].kind = "ws" /\ Served(g)'
      <3>1. session[g].kind = "ws" /\ Served(g)
        BY <1>t, <2>5 DEF SyncedInv
      <3>2. Awaited(g) => Awaited(g)'
        BY <2>1, <2>3, <3>1 DEF Awaited
      <3>3. QED
        BY <2>1, <3>1, <3>2, ServedKept
    <2>6. QED
      BY <2>1, <2>2, <2>4, <2>5 DEF ShowInv, SyncedInv
  <1>9. CASE Tell
    <2>1. PICK t \in chosen :
            LET s == session[t.socket]
                d == s.client
            IN /\ shows' = IF s.kind # "ws" THEN shows
                           ELSE [shows EXCEPT ![d] = [part |-> notify, value |-> value[notify]]]
               /\ missed' = IF Follows(s, notify) THEN missed \ {d} ELSE missed
               /\ overtaken' = IF ~Follows(s, notify) THEN overtaken
                               ELSE IF Outdated(t.socket) THEN overtaken \cup {d}
                               ELSE overtaken \ {d}
               /\ misled' = IF Follows(s, notify) THEN misled \ {d}
                            ELSE IF s.kind = "ws" /\ s # t.seen THEN misled \cup {d}
                            ELSE misled
      BY <1>9 DEF Tell
    <2>2. chosen' = {} /\ UNCHANGED <<uiConnected, value, session, work, frame, notify, toTell>>
      BY <1>9 DEF Tell
    <2>3. /\ t.socket \in Sockets /\ Follows(t.seen, notify) /\ notify \in Partitions
          /\ \A u \in chosen : u = t
      BY <1>t, <2>1 DEF ShowTypes, Follows, Sessions
    <2> DEFINE f == t.socket
               s == session[f]
               c == s.client
    <2>4. f \in Sockets /\ s \in Sessions
      BY <1>0, <2>3
    <2>5. /\ missed' = IF Follows(s, notify) THEN missed \ {c} ELSE missed
          /\ overtaken' = IF ~Follows(s, notify) THEN overtaken
                          ELSE IF Outdated(f) THEN overtaken \cup {c} ELSE overtaken \ {c}
          /\ misled' = IF Follows(s, notify) THEN misled \ {c}
                       ELSE IF s.kind = "ws" /\ s # t.seen THEN misled \cup {c} ELSE misled
          /\ shows' = IF s.kind # "ws" THEN shows
                      ELSE [shows EXCEPT ![c] = [part |-> notify, value |-> value[notify]]]
      BY <2>1
    <2> HIDE DEF f, s, c
    <2>6. ShowTypes'
      <3>1. value[notify] \in Values \cup {NoValue}
        BY <1>t, <2>3 DEF ShowTypes
      <3>2. shows' \in [Clients -> [part : Partitions \cup {NoPartition}, value : Values \cup {NoValue}]]
        BY <1>t, <2>3, <2>5, <3>1 DEF ShowTypes
      <3>3. QED
        BY <1>t, <2>2, <3>2 DEF ShowTypes
    <2>7. s = session[f] /\ c = session[f].client /\ f = t.socket
      BY DEF s, c, f
    <2>8. ASSUME NEW g \in Sockets, g # f, session[g].kind = "ws"
          PROVE  /\ session[g].client # c
                 /\ (Telling(g) => Telling(g)')
                 /\ shows'[session[g].client] = shows[session[g].client]
      <3>1. session[g].client \in Clients /\ session[g].client # c
        BY <1>0, <2>4, <2>7, <2>8
      <3>2. Telling(g) => Telling(g)'
        BY <2>2, <2>3, <2>7, <2>8 DEF Telling
      <3>3. shows'[session[g].client] = shows[session[g].client]
        BY <1>t, <2>5, <3>1 DEF ShowTypes
      <3>4. QED
        BY <3>1, <3>2, <3>3
    <2>9. FrameFits'
      <3> SUFFICES ASSUME NEW m \in frame
                   PROVE  \/ m.value = value[m.part]
                          \/ session[m.socket].client \in missed' \cup overtaken'
                          \/ Telling(m.socket)'
        BY <1>t, <2>2 DEF FrameFits
      <3>1. /\ m.socket \in Sockets /\ session[m.socket].kind = "ws"
            /\ m.part = session[m.socket].part
            /\ \/ m.value = value[m.part]
               \/ session[m.socket].client \in missed \cup overtaken
               \/ Telling(m.socket)
        BY <1>t DEF FrameFits
      <3>2. CASE m.socket # f
        <4>1. session[m.socket].client # c /\ (Telling(m.socket) => Telling(m.socket)')
          BY <2>8, <3>1, <3>2
        <4>2. QED
          BY <2>5, <3>1, <4>1
      <3>3. CASE m.socket = f
        <4>1. CASE Follows(s, notify)
          <5>1. m.part = notify
            BY <2>7, <3>1, <3>3, <4>1 DEF Follows
          <5>2. m.value # value[m.part] => Outdated(f)
            BY <3>3, <5>1 DEF Outdated
          <5>3. QED
            BY <2>5, <2>7, <3>3, <4>1, <5>2
        <4>2. CASE ~Follows(s, notify)
          <5>1. ~Telling(f)
            BY <2>7, <3>1, <3>3, <4>2 DEF Telling, Follows
          <5>2. QED
            BY <2>5, <3>1, <3>3, <4>2, <5>1
        <4>3. QED
          BY <4>1, <4>2
      <3>4. QED
        BY <3>2, <3>3
    <2>10. ASSUME NEW g \in Sockets, session[g].synced
           PROVE  session[g].kind = "ws" /\ Served(g)'
      <3>1. session[g].kind = "ws" /\ Served(g)
        BY <1>t, <2>10 DEF SyncedInv
      <3>2. CASE g # f
        <4>1. /\ session[g].client # c
              /\ (Telling(g) => Telling(g)')
              /\ shows'[session[g].client] = shows[session[g].client]
          BY <2>8, <3>1, <3>2
        <4>2. Awaited(g) => Awaited(g)'
          BY <2>2, <4>1 DEF Awaited
        <4>3. /\ session[g].client \in missed => session[g].client \in missed'
              /\ session[g].client \in misled => session[g].client \in misled'
              /\ session[g].client \in overtaken => session[g].client \in overtaken'
          BY <2>5, <4>1
        <4>4. Served(g)'
          BY <2>2, <3>1, <4>1, <4>2, <4>3, ServedKept
        <4>5. QED
          BY <3>1, <4>4
      <3>3. CASE g = f /\ Follows(s, notify)
        <4>1. c \in Clients /\ s.kind = "ws" /\ s.part = notify
          BY <1>0, <2>4, <2>7, <3>3 DEF Follows
        <4>2. shows'[c] = [part |-> notify, value |-> value[notify]]
          BY <1>t, <2>5, <4>1 DEF ShowTypes
        <4>3. Shown(g)'
          BY <2>2, <2>7, <3>3, <4>1, <4>2 DEF Shown
        <4>4. QED
          BY <3>1, <4>3 DEF Served
      <3>4. CASE g = f /\ ~Follows(s, notify)
        <4>1. s.kind = "ws" /\ s # t.seen
          BY <2>3, <2>7, <3>1, <3>4
        <4>2. session'[g].client \in misled'
          BY <2>2, <2>5, <2>7, <3>4, <4>1
        <4>3. QED
          BY <3>1, <4>2 DEF Served
      <3>5. QED
        BY <3>2, <3>3, <3>4
    <2>11. QED
      BY <2>2, <2>6, <2>9, <2>10 DEF ShowInv, SyncedInv
  <1>10. CASE AlarmstateReads
    <2> DEFINE f == work[1]
               s == session[f]
    <2>1. /\ frame = {} /\ work # <<>> /\ work' = Tail(work) /\ Head(work) = f
          /\ UNCHANGED <<uiConnected, value, session, notify, toTell, chosen, shows, misled>>
      BY <1>10 DEF AlarmstateReads, ServerIdle
    <2>2. /\ f \in Sockets /\ Len(work) \in Nat \ {0} /\ Len(work') = Len(work) - 1
          /\ work' \in Seq(Sockets)
          /\ \A i \in 1..Len(work) - 1 : work'[i] = work[i + 1]
      BY <1>t, <2>1 DEF ShowTypes
    <2>3. s \in Sessions
      BY <1>0, <2>2
    <2>4. \/ /\ s.kind = "ws" /\ missed' = missed \ {s.client} /\ overtaken' = overtaken \ {s.client}
             /\ frame' = IF value[s.part] = NoValue THEN {}
                         ELSE {[socket |-> f, part |-> s.part, value |-> value[s.part]]}
          \/ /\ frame' = {} /\ missed' = missed \cup ({s.client} \ {NoClient})
             /\ overtaken' = overtaken
      BY <1>10, <2>1 DEF AlarmstateReads
    <2> HIDE DEF f
    <2>5. ShowTypes' /\ FrameFits'
      <3>1. ShowTypes'
        BY <1>t, <2>1, <2>2 DEF ShowTypes
      <3>2. value[s.part] \in Values \cup {NoValue}
        BY <1>t, <2>3 DEF ShowTypes, Sessions
      <3>3. FrameFits'
        BY <2>1, <2>2, <2>3, <2>4, <3>2 DEF FrameFits, Sessions
      <3>4. QED
        BY <3>1, <3>3
    <2>6. ASSUME NEW g \in Sockets, session'[g].synced
          PROVE  session'[g].kind = "ws" /\ Served(g)'
      <3>1. /\ session[g].kind = "ws" /\ session[g].client \in Clients /\ Served(g)
        BY <1>0, <1>t, <2>1, <2>6 DEF SyncedInv
      <3>2. CASE g = f
        <4>1. CASE frame' = {[socket |-> f, part |-> s.part, value |-> value[s.part]]}
          <5>1. \E m \in frame' : m.socket = g
            BY <3>2, <4>1
          <5>2. QED
            BY <2>1, <3>1, <5>1 DEF Awaited, Served
        <4>2. CASE value[s.part] = NoValue
          <5>1. value'[session'[g].part] = NoValue
            BY <2>1, <3>2, <4>2
          <5>2. QED
            BY <2>1, <3>1, <5>1 DEF Served
        <4>3. CASE missed' = missed \cup ({s.client} \ {NoClient})
          BY <1>0, <2>1, <3>1, <3>2, <4>3 DEF Served
        <4>4. QED
          BY <2>1, <2>4, <3>1, <4>1, <4>2, <4>3
      <3>3. CASE g # f
        <4>1. ASSUME NEW i \in 1..Len(work), work[i] = g
              PROVE  Awaited(g)'
          <5>1. i # 1
            BY <3>3, <4>1 DEF f
          <5>2. i - 1 \in 1..Len(work) - 1 /\ (i - 1) + 1 = i
            BY <2>2, <5>1
          <5>3. i - 1 \in 1..Len(work') /\ work'[i - 1] = g
            BY <2>2, <4>1, <5>2
          <5>4. QED
            BY <5>3 DEF Awaited
        <4>2. Awaited(g) => Awaited(g)'
          BY <2>1, <4>1 DEF Awaited, Telling
        <4>3. session[g].client # s.client
          BY <1>0, <2>2, <3>1, <3>3
        <4>4. /\ session[g].client \in missed => session[g].client \in missed'
              /\ session[g].client \in overtaken => session[g].client \in overtaken'
          BY <2>4, <4>3
        <4>5. Served(g)'
          BY <2>1, <3>1, <4>2, <4>4, ServedKept
        <4>6. QED
          BY <2>1, <3>1, <4>5
      <3>4. QED
        BY <3>2, <3>3
    <2>7. QED
      BY <2>5, <2>6 DEF ShowInv, SyncedInv
  <1>11. CASE AlarmstateSends
    <2>1. PICK m \in frame :
            /\ frame' = {}
            /\ shows' = [shows EXCEPT ![session[m.socket].client] = [part |-> m.part, value |-> m.value]]
            /\ misled' = misled \ {session[m.socket].client}
            /\ UNCHANGED <<uiConnected, value, session, work, notify, toTell, chosen, missed, overtaken>>
      BY <1>11 DEF AlarmstateSends
    <2> DEFINE f == m.socket
               c == session[f].client
    <2>2. /\ f \in Sockets /\ m.part \in Partitions /\ session[f].kind = "ws"
          /\ m.part = session[f].part /\ m.value \in Values \cup {NoValue}
          /\ m.value = value[m.part] \/ c \in missed \cup overtaken \/ Telling(f)
          /\ \A n \in frame : n = m
      BY <1>t DEF FrameFits
    <2>3. c \in Clients
      BY <1>0, <2>2
    <2>4. /\ shows' = [shows EXCEPT ![c] = [part |-> m.part, value |-> m.value]]
          /\ misled' = misled \ {c}
      BY <2>1
    <2> HIDE DEF f, c
    <2>5. ShowTypes' /\ FrameFits'
      <3>1. shows' \in [Clients -> [part : Partitions \cup {NoPartition}, value : Values \cup {NoValue}]]
        BY <1>t, <2>2, <2>4 DEF ShowTypes
      <3>2. QED
        BY <1>t, <2>1, <3>1 DEF ShowTypes, FrameFits
    <2>6. shows'[c] = [part |-> m.part, value |-> m.value]
      BY <1>t, <2>3, <2>4 DEF ShowTypes
    <2>7. Served(f)'
      <3>1. Telling(f) => Telling(f)'
        BY <2>1 DEF Telling
      <3>2. m.value = value[m.part] \/ c \in overtaken => Shown(f)'
        BY <2>1, <2>2, <2>6 DEF Shown, c
      <3>3. c \in missed => session'[f].client \in missed'
        BY <2>1 DEF c
      <3>4. QED
        BY <2>2, <3>1, <3>2, <3>3 DEF Served, Awaited
    <2>8. ASSUME NEW g \in Sockets, g # f, session[g].synced
          PROVE  Served(g)'
      <3>1. session[g].client \in Clients /\ Served(g)
        BY <1>0, <1>t, <2>8 DEF SyncedInv
      <3>2. session[g].client # c
        BY <1>0, <2>2, <2>3, <2>8 DEF c
      <3>3. shows'[session[g].client] = shows[session[g].client]
        BY <1>t, <2>4, <3>1, <3>2 DEF ShowTypes
      <3>4. \A n \in frame : n.socket # g
        BY <2>2, <2>8 DEF f
      <3>5. Awaited(g) => Awaited(g)'
        BY <2>1, <3>4 DEF Awaited, Telling
      <3>6. QED
        BY <2>1, <2>4, <3>1, <3>2, <3>3, <3>5, ServedKept
    <2>9. SyncedInv'
      BY <1>t, <2>1, <2>7, <2>8 DEF SyncedInv
    <2>10. QED
      BY <2>5, <2>9 DEF ShowInv
  <1>12. ASSUME NEW p \in Partitions, StateChanges(p)
         PROVE  ShowInv'
    <2>1. PICK v \in Values : value' = [value EXCEPT ![p] = v]
      BY <1>12 DEF StateChanges
    <2>2. /\ notify = NoPartition
          /\ \/ notify' = p /\ toTell' = Sockets /\ UNCHANGED missed
             \/ missed' = missed \cup Followers(p) /\ UNCHANGED <<notify, toTell>>
          /\ UNCHANGED <<uiConnected, session, work, frame, chosen, shows, overtaken, misled>>
      BY <1>12 DEF StateChanges, ParserIdle
    <2>3. chosen = {}
      BY <1>0, <1>t, <2>2 DEF ShowTypes, Follows, Sessions
    <2>4. /\ value' \in [Partitions -> Values \cup {NoValue}]
          /\ \A q \in Partitions : q # p => value'[q] = value[q]
      BY <1>t, <2>1 DEF ShowTypes
    <2>5. ShowTypes'
      BY <1>t, <2>2, <2>3, <2>4 DEF ShowTypes
    <2>6. ASSUME NEW g \in Sockets, session[g].kind = "ws", session[g].part = p
          PROVE  session[g].client \in missed' \/ Telling(g)'
      <3>1. session[g].client \in Followers(p)
        BY <2>6 DEF Followers, Follows
      <3>2. notify' = p /\ toTell' = Sockets => Telling(g)'
        BY <2>2, <2>6 DEF Telling
      <3>3. QED
        BY <2>2, <3>1, <3>2
    <2>7. \A g \in Sockets : ~Telling(g)
      BY <1>0, <2>2 DEF Telling, Sessions
    <2>8. missed \subseteq missed'
      BY <2>2
    <2>9. FrameFits'
      <3> SUFFICES ASSUME NEW m \in frame
                   PROVE  \/ m.value = value'[m.part]
                          \/ session[m.socket].client \in missed' \cup overtaken'
                          \/ Telling(m.socket)'
        BY <1>t, <2>2 DEF FrameFits
      <3>1. /\ m.socket \in Sockets /\ session[m.socket].kind = "ws" /\ m.part \in Partitions
            /\ m.part = session[m.socket].part
            /\ m.value = value[m.part] \/ session[m.socket].client \in missed \cup overtaken
        BY <1>t, <2>7 DEF FrameFits
      <3>2. CASE m.part = p
        BY <2>6, <3>1, <3>2
      <3>3. CASE m.part # p
        BY <2>2, <2>4, <2>8, <3>1, <3>3
      <3>4. QED
        BY <3>2, <3>3
    <2>10. ASSUME NEW g \in Sockets, session'[g].synced
           PROVE  session'[g].kind = "ws" /\ Served(g)'
      <3>1. session[g].kind = "ws" /\ session[g].part \in Partitions /\ Served(g)
        BY <1>0, <1>t, <2>2, <2>10 DEF SyncedInv, Sessions
      <3>2. CASE session[g].part = p
        BY <2>2, <2>6, <3>1, <3>2 DEF Served, Awaited
      <3>3. CASE session[g].part # p
        <4>1. value'[session[g].part] = value[session[g].part]
          BY <2>4, <3>1, <3>3
        <4>2. Awaited(g) => Awaited(g)'
          BY <2>2, <2>7 DEF Awaited
        <4>3. Shown(g) => Shown(g)'
          BY <2>2, <4>1 DEF Shown
        <4>4. QED
          BY <2>2, <2>8, <3>1, <4>1, <4>2, <4>3 DEF Served
      <3>4. QED
        BY <3>2, <3>3
    <2>11. QED
      BY <2>5, <2>9, <2>10 DEF ShowInv, SyncedInv
  <1>13. QED
    BY <1>1, <1>2, <1>3, <1>4, <1>6, <1>7, <1>8, <1>9, <1>10, <1>11, <1>12, Zenon DEF WsNext

\* A connection that chose a partition shows its state once nothing is on its way
\* (webui_on_state_change, ws_alarmstate_async_send), for any clients, sockets,
\* partitions and states, but for the two races and the network.
THEOREM ClientsShowPartitions == WsSpec => []ClientShowsPartition
  <1>1. WsInit => ShowInv
    <2> SUFFICES ASSUME WsInit
                 PROVE  ShowInv
      OBVIOUS
    <2>1. ShowTypes /\ FrameFits
      BY DEF WsInit, ShowTypes, FrameFits, NoFrame
    <2>2. \A f \in Sockets : ~session[f].synced
      BY DEF WsInit, NoSession
    <2>3. QED
      BY <2>1, <2>2 DEF ShowInv, SyncedInv
  <1>2. WsInv => SessionInv
    BY DEF WsInv
  <1>3. SessionInv /\ ShowInv => ClientShowsPartition
    <2> SUFFICES ASSUME SessionInv, ShowInv, frame = {}, work = <<>>, notify = NoPartition,
                        NEW f \in Sockets, session[f].synced,
                        value[session[f].part] # NoValue,
                        session[f].client \notin missed \cup misled
                 PROVE  Shown(f)
      BY DEF ClientShowsPartition, ParserIdle, Shown
    <2>1. session[f].part # NoPartition
      BY WebSocketsAssumption DEF SessionInv, WebSocketsAssumption, Sessions
    <2>2. ~Awaited(f)
      BY <2>1 DEF Awaited, Telling
    <2>3. QED
      BY <2>2 DEF ShowInv, SyncedInv, Served
  <1>4. QED
    BY <1>1, <1>2, <1>3, WsInitInv, SessionStep, ShowStep, PTL DEF WsSpec

--------------------------------------------------------------------------------
(* The access list. *)

LEMMA Least ==
  ASSUME NEW T, T \subseteq Nat, T # {}
  PROVE  \E x \in T : \A y \in T : ~(y < x)
  <1> DEFINE R == OpToRel(<, Nat)
  <1>1. PICK x \in T : \A y \in T : ~(<<y, x>> \in R)
    <2>1. IsWellFoundedOn(R, Nat)
      BY NatLessThanWellFounded DEF R
    <2> HIDE DEF R
    <2> QED
      BY <2>1, WFMin
  <1>2. ASSUME NEW y \in T, y < x
        PROVE  FALSE
    <2>1. <<y, x>> \in Nat \X Nat
      OBVIOUS
    <2> QED
      BY <1>1, <1>2, <2>1 DEF OpToRel
  <1> QED
    BY <1>2

\* What is looked up is what the entry of the list stands for.
AclInv ==
  /\ entry \in Entries \cup {NoEntry}
  /\ networks = IF entry = NoEntry THEN {} ELSE {Network(entry)}
  /\ \A v \in verdict :
       /\ v.address \in Address
       /\ v.found <=> (entry = NoEntry \/ Between(v.address, Network(entry)))

LEMMA AclStep ==
  ASSUME AclInv, [AclNext]_aclVars
  PROVE  AclInv'
  <1>1. CASE ClearList
    BY <1>1 DEF ClearList, AclInv
  <1>2. CASE NextLookup
    BY <1>2 DEF NextLookup, AclInv
  <1>3. ASSUME NEW e \in Entries, Add(e)
        PROVE  AclInv'
    <2>1. e.kind # "none"
      BY DEF Entries
    <2>2. e # NoEntry
      BY <2>1 DEF NoEntry
    <2>3. /\ entry' = e /\ networks' = {Network(e)} /\ verdict' = {}
      BY <1>3 DEF Add
    <2> QED
      BY <2>2, <2>3 DEF AclInv
  <1>4. ASSUME NEW a \in Address, Find(a)
        PROVE  AclInv'
    <2>1. /\ verdict' = {[address |-> a,
                          found |-> networks = {} \/ \E n \in networks : Between(a, n)]}
          /\ entry' = entry /\ networks' = networks
      BY <1>4 DEF Find
    <2>2. networks = IF entry = NoEntry THEN {} ELSE {Network(entry)}
      BY DEF AclInv
    <2>3. (networks = {} \/ \E n \in networks : Between(a, n))
            <=> (entry = NoEntry \/ Between(a, Network(entry)))
      BY <2>2
    <2> DEFINE result == networks = {} \/ \E n \in networks : Between(a, n)
    <2>4. \A v \in verdict' : v.address = a /\ v.found = result
      <3>1. verdict' = {[address |-> a, found |-> result]}
        BY <2>1
      <3> HIDE DEF result
      <3> QED
        BY <3>1
    <2>5. \A v \in verdict' :
            /\ v.address \in Address
            /\ v.found <=> (entry = NoEntry \/ Between(v.address, Network(entry)))
      BY <2>3, <2>4
    <2> QED
      BY <2>1, <2>5 DEF AclInv
  <1>5. CASE UNCHANGED aclVars
    BY <1>5 DEF aclVars, AclInv
  <1> QED
    BY <1>1, <1>2, <1>3, <1>4, <1>5 DEF AclNext

\* A byte that is not another is smaller or larger: they differ at a first bit.
LEMMA BytesAreOrdered ==
  ASSUME NEW x \in Octet, NEW y \in Octet
  PROVE  x = y \/ Less(x, y) \/ Less(y, x)
  <1> DEFINE T == {k \in 1..Bits : x[k] # y[k]}
  <1>1. CASE T = {}
    <2>1. x = [k \in 1..Bits |-> x[k]] /\ y = [k \in 1..Bits |-> y[k]]
      BY DEF Octet
    <2>2. \A k \in 1..Bits : x[k] = y[k]
      BY <1>1
    <2> QED
      BY <2>1, <2>2
  <1>2. CASE T # {}
    <2>1. PICK k \in T : \A j \in T : ~(j < k)
      <3>1. T \subseteq Nat
        OBVIOUS
      <3> QED
        BY <1>2, <3>1, Least
    <2>2. \A j \in 1..k - 1 : x[j] = y[j]
      <3>1. ASSUME NEW j \in 1..k - 1
            PROVE  j \in 1..Bits /\ j < k
        BY AddressListAssumption
      <3> QED
        BY <2>1, <3>1
    <2>3. x[k] \in {0, 1} /\ y[k] \in {0, 1} /\ x[k] # y[k] /\ k \in 1..Bits
      BY DEF Octet
    <2> QED
      BY <2>2, <2>3 DEF Less
  <1> QED
    BY <1>1, <1>2

\* No byte is smaller than itself.
LEMMA LessIsStrict ==
  ASSUME NEW x \in Octet
  PROVE  ~Less(x, x)
  BY DEF Less, Octet

LEMMA SameBytes ==
  ASSUME NEW a \in Address, NEW b \in Address, \A i \in 1..Bytes : a[i] = b[i]
  PROVE  a = b
  <1>1. a = [i \in 1..Bytes |-> a[i]] /\ b = [i \in 1..Bytes |-> b[i]]
    BY DEF Address
  <1> QED
    BY <1>1

\* At the first byte two addresses differ in, the smaller is smaller.
LEMMA BytewiseIsInOrder ==
  ASSUME NEW a \in Address, NEW b \in Address, \A i \in 1..Bytes : ~Less(b[i], a[i])
  PROVE  AtMost(a, b)
  <1> DEFINE T == {i \in 1..Bytes : a[i] # b[i]}
  <1>2. CASE T = {}
    <2>1. \A i \in 1..Bytes : a[i] = b[i]
      BY <1>2
    <2> QED
      BY <2>1, SameBytes DEF AtMost
  <1>3. CASE T # {}
    <2>1. T \subseteq Nat
      OBVIOUS
    <2>2. PICK i \in T : \A j \in T : ~(j < i)
      BY <1>3, <2>1, Least
    <2>3. i \in 1..Bytes /\ a[i] # b[i] /\ ~Less(b[i], a[i])
      BY <2>2
    <2>4. a[i] \in Octet /\ b[i] \in Octet
      BY <2>3 DEF Address
    <2>5. Less(a[i], b[i])
      BY <2>3, <2>4, BytesAreOrdered
    <2>6. ASSUME NEW j \in 1..i - 1
          PROVE  a[j] = b[j]
      <3>1. j \in 1..Bytes /\ j < i
        BY <2>3, AddressListAssumption
      <3> QED
        BY <2>2, <3>1
    <2> QED
      BY <2>3, <2>5, <2>6 DEF AtMost
  <1> QED
    BY <1>2, <1>3

\* Positions count the bits of an address from left to right.
LEMMA BitsInOrder ==
  ASSUME NEW i \in 1..Bytes, NEW k \in 1..Bits
  PROVE  /\ Position(i, k) \in 1..Bits * Bytes
         /\ k < Bits => Position(i, k + 1) = Position(i, k) + 1
         /\ k = Bits /\ i < Bytes => Position(i + 1, 1) = Position(i, k) + 1
         /\ k = Bits /\ i = Bytes => Position(i, k) = Bits * Bytes
         /\ \A j \in 1..k : Position(i, j) <= Position(i, k)
  <1>1. Bits \in Nat \ {0} /\ Bytes \in Nat
    BY AddressListAssumption
  <1>2. Bits * (i - 1) \in Nat /\ Bits * i = Bits * (i - 1) + Bits
    BY <1>1
  <1>3. PICK more \in Nat : Bytes = i + more
    BY <1>1
  <1>4. Bits * Bytes = Bits * i + Bits * more /\ Bits * more \in Nat
    BY <1>1, <1>3
  <1>5. Bits * ((i + 1) - 1) = Bits * i
    BY <1>1
  <1> QED
    BY <1>1, <1>2, <1>4, <1>5 DEF Position

\* The bits of an address up to one of them.
Leading(n) == [i \in 1..Bytes |-> [k \in 1..Bits |-> IF Position(i, k) <= n THEN 1 ELSE 0]]

LEMMA ShiftedMask ==
  ASSUME NEW n \in Int
  PROVE  n <= Bits * Bytes => ShiftLeftOnce(Leading(n)) = Leading(n - 1)
  <1> SUFFICES ASSUME n <= Bits * Bytes  PROVE ShiftLeftOnce(Leading(n)) = Leading(n - 1)
    OBVIOUS
  <1>1. Bits \in Nat \ {0} /\ Bytes \in Nat
    BY AddressListAssumption
  <1>2. ASSUME NEW i \in 1..Bytes, NEW k \in 1..Bits
        PROVE  (IF k < Bits THEN Leading(n)[i][k + 1] ELSE IF i < Bytes THEN Leading(n)[i + 1][1] ELSE 0)
                 = IF Position(i, k) <= n - 1 THEN 1 ELSE 0
    <2>1. CASE k < Bits
      <3>1. k + 1 \in 1..Bits /\ Position(i, k + 1) = Position(i, k) + 1 /\ Position(i, k) \in Int
        BY <1>1, <2>1, BitsInOrder
      <3>2. Leading(n)[i][k + 1] = IF Position(i, k + 1) <= n THEN 1 ELSE 0
        BY <3>1 DEF Leading
      <3> QED
        BY <2>1, <3>1, <3>2
    <2>2. CASE k = Bits /\ i < Bytes
      <3>1. i + 1 \in 1..Bytes /\ 1 \in 1..Bits
        BY <1>1, <2>2
      <3>2. Position(i + 1, 1) = Position(i, k) + 1 /\ Position(i, k) \in Int
        BY <2>2, BitsInOrder
      <3>3. Leading(n)[i + 1][1] = IF Position(i + 1, 1) <= n THEN 1 ELSE 0
        BY <3>1 DEF Leading
      <3> QED
        BY <1>1, <2>2, <3>2, <3>3
    <2>3. CASE k = Bits /\ i = Bytes
      <3>1. Position(i, k) = Bits * Bytes /\ Bits * Bytes \in Int
        BY <1>1, <2>3, BitsInOrder
      <3> QED
        BY <1>1, <2>3, <3>1
    <2> QED
      BY <1>1, <2>1, <2>2, <2>3
  <1> QED
    BY <1>2 DEF ShiftLeftOnce, Leading

\* The shifts of ad2_acl_check::add leave the leading bits.  That the function which the
\* rounds define is this one is shown by the least round that would differ.
LEMMA ShiftedOnes ==
  ASSUME NEW n \in Nat
  PROVE  ShiftLeft([i \in 1..Bytes |-> AllOnes], n) = Leading(Bits * Bytes - n)
  <1> DEFINE ones == [i \in 1..Bytes |-> AllOnes]
             all  == Bits * Bytes
             Rounds(f) == f = [m \in 0..n |-> IF m = 0 THEN ones ELSE ShiftLeftOnce(f[m - 1])]
             good == [m \in 0..n |-> Leading(all - m)]
             g == CHOOSE f : Rounds(f)
  <1>1. all \in Int
    BY AddressListAssumption
  <1>2. ones = Leading(all)
    <2>1. \A i \in 1..Bytes, k \in 1..Bits : Position(i, k) <= all
      BY BitsInOrder, <1>1
    <2> QED
      BY <2>1 DEF AllOnes, Leading
  <1>3. \A m \in 0..n : m # 0 => ShiftLeftOnce(Leading(all - (m - 1))) = Leading(all - m)
    <2> SUFFICES ASSUME NEW m \in 0..n, m # 0
                 PROVE  ShiftLeftOnce(Leading(all - (m - 1))) = Leading(all - m)
      OBVIOUS
    <2>1. all - (m - 1) \in Int /\ all - (m - 1) <= Bits * Bytes /\ (all - (m - 1)) - 1 = all - m
      BY <1>1
    <2> QED
      BY <2>1, ShiftedMask
  <1> HIDE DEF ones, all
  <1>4. Rounds(good)
    <2>1. ASSUME NEW m \in 0..n
          PROVE  Leading(all - m) = IF m = 0 THEN ones ELSE ShiftLeftOnce(good[m - 1])
      <3>1. CASE m = 0
        <4>1. all - 0 = all
          BY <1>1
        <4> QED
          BY <1>2, <3>1, <4>1
      <3>2. CASE m # 0
        <4>1. m - 1 \in 0..n
          BY <3>2
        <4>2. good[m - 1] = Leading(all - (m - 1))
          BY <4>1
        <4> QED
          BY <1>3, <3>2, <4>2
      <3> QED
        BY <3>1, <3>2
    <2>2. good = [m \in 0..n |-> Leading(all - m)]
      OBVIOUS
    <2> HIDE DEF good
    <2> QED
      BY <2>1, <2>2
  <1>5. Rounds(g)
    <2> HIDE DEF Rounds
    <2> QED
      BY <1>4
  <1>6. \A m \in 0..n : g[m] = IF m = 0 THEN ones ELSE ShiftLeftOnce(g[m - 1])
    <2> HIDE DEF g
    <2> QED
      BY <1>5
  <1>7. \A m \in 0..n : good[m] = IF m = 0 THEN ones ELSE ShiftLeftOnce(good[m - 1])
    <2> HIDE DEF good
    <2> QED
      BY <1>4
  <1> HIDE DEF g, good
  <1>8. \A m \in 0..n : g[m] = good[m]
    <2> DEFINE T == {m \in 0..n : g[m] # good[m]}
    <2> SUFFICES ASSUME T # {}  PROVE FALSE
      OBVIOUS
    <2>1. PICK m \in T : \A l \in T : ~(l < m)
      <3>1. T \subseteq Nat
        OBVIOUS
      <3> QED
        BY <3>1, Least
    <2>2. m \in 0..n /\ g[m] # good[m]
      OBVIOUS
    <2>3. m # 0
      BY <1>6, <1>7, <2>2
    <2>4. m - 1 \in 0..n /\ m - 1 < m
      BY <2>2, <2>3
    <2>5. g[m - 1] = good[m - 1]
      BY <2>1, <2>4
    <2> QED
      BY <1>6, <1>7, <2>2, <2>3, <2>5
  <1>9. n \in 0..n
    OBVIOUS
  <1>10. ShiftLeft(ones, n) = g[n]
    BY DEF ShiftLeft, g
  <1> QED
    BY <1>8, <1>9, <1>10 DEF good, ones, all

\* A mask has the bits that a prefix fixes.
LEMMA MaskBits ==
  ASSUME NEW e, Length(e) \in Nat, NEW i \in 1..Bytes, NEW k \in 1..Bits
  PROVE  Mask(IsV4(e.first), Length(e))[i][k] = IF Position(i, k) <= Fixed(e) THEN 1 ELSE 0
  <1> DEFINE n    == Length(e)
             size == Bits * (IF IsV4(e.first) THEN V4Bytes ELSE Bytes)
             cut  == IF n < size THEN size - n ELSE 0
             rest == IF IsV4(e.first) THEN Bits * (Bytes - V4Bytes) ELSE 0
  <1>1. Bits \in Nat /\ Bytes \in Nat /\ V4Bytes \in Nat /\ V4Bytes < Bytes
    BY AddressListAssumption
  <1>2. size \in Nat /\ rest \in Nat /\ Bits * Bytes = rest + size
    <2>1. Bits * Bytes \in Nat /\ Bits * V4Bytes \in Nat /\ Bits * (Bytes - V4Bytes) \in Nat
          /\ Bits * Bytes = Bits * (Bytes - V4Bytes) + Bits * V4Bytes
      BY <1>1
    <2> QED
      BY <2>1
  <1>3. Fixed(e) = rest + n
    BY DEF Fixed
  <1>4. Mask(IsV4(e.first), n) = ShiftLeft([b \in 1..Bytes |-> AllOnes], cut)
    BY DEF Mask
  <1> HIDE DEF size, rest, n
  <1>5. cut \in Nat
    BY <1>2 DEF n
  <1> HIDE DEF cut
  <1>6. Mask(IsV4(e.first), n)[i][k] = IF Position(i, k) <= Bits * Bytes - cut THEN 1 ELSE 0
    <2>1. Mask(IsV4(e.first), n) = Leading(Bits * Bytes - cut)
      BY <1>4, <1>5, ShiftedOnes
    <2> QED
      BY <2>1 DEF Leading
  <1>7. Position(i, k) \in Int /\ Position(i, k) <= Bits * Bytes
    BY <1>1, BitsInOrder
  <1>8. Position(i, k) <= Bits * Bytes - cut <=> Position(i, k) <= rest + n
    <2>1. n \in Nat /\ cut = IF n < size THEN size - n ELSE 0
      BY DEF n, cut
    <2>2. Position(i, k) <= rest + size /\ Bits * Bytes - cut = rest + size - cut
      BY <1>1, <1>2, <1>5, <1>7
    <2>3. CASE n < size
      BY <1>2, <1>7, <2>1, <2>2, <2>3
    <2>4. CASE ~(n < size)
      BY <1>2, <1>7, <2>1, <2>2, <2>4
    <2> QED
      BY <2>3, <2>4
  <1> QED
    BY <1>3, <1>6, <1>8 DEF n

\* A network of a prefix holds the addresses with its bits: a bit that is not would make
\* its byte smaller than that of the first address, or larger than that of the last.
LEMMA NetworkOfPrefix ==
  ASSUME NEW e \in Entries, e.kind = "cidr", NEW a \in Address
  PROVE  Between(a, Network(e))
           <=> \A i \in 1..Bytes, k \in 1..Bits :
                 Position(i, k) <= Fixed(e) => a[i][k] = e.first[i][k]
  <1> DEFINE low  == Network(e).first
             high == Network(e).last
             Fixes(i, k) == Position(i, k) <= Fixed(e)
  <1>1. e.first \in Address /\ Length(e) \in Nat
    <2>1. e.first \in Address /\ e.length \in 0..LengthValues
      BY DEF Entries
    <2>2. LengthValues \in Nat \ {0}
      BY AddressListAssumption
    <2> QED
      BY <2>1, <2>2 DEF Length
  <1>2. ASSUME NEW i \in 1..Bytes, NEW k \in 1..Bits
        PROVE  /\ a[i][k] \in {0, 1} /\ e.first[i][k] \in {0, 1}
               /\ low[i][k]  = IF Fixes(i, k) THEN e.first[i][k] ELSE 0
               /\ high[i][k] = IF Fixes(i, k) THEN e.first[i][k] ELSE 1
    <2> DEFINE mask == Mask(IsV4(e.first), Length(e))
    <2>1. mask[i][k] = IF Fixes(i, k) THEN 1 ELSE 0
      BY <1>1, MaskBits
    <2>2. low = AddrAnd(e.first, mask) /\ high = AddrOr(e.first, AddrNot(mask))
      BY DEF Network
    <2> HIDE DEF mask, low, high, Fixes
    <2>3. a[i][k] \in {0, 1} /\ e.first[i][k] \in {0, 1}
      <3>1. a[i] \in Octet /\ e.first[i] \in Octet
        BY <1>1 DEF Address
      <3> QED
        BY <3>1 DEF Octet
    <2>4. low[i][k] = IF e.first[i][k] = 1 /\ mask[i][k] = 1 THEN 1 ELSE 0
      BY <2>2 DEF AddrAnd
    <2>5. high[i][k] = IF e.first[i][k] = 1 \/ 1 - mask[i][k] = 1 THEN 1 ELSE 0
      <3>1. AddrNot(mask)[i][k] = 1 - mask[i][k]
        BY DEF AddrNot
      <3>2. high[i][k] = IF e.first[i][k] = 1 \/ AddrNot(mask)[i][k] = 1 THEN 1 ELSE 0
        BY <2>2 DEF AddrOr
      <3> QED
        BY <3>1, <3>2
    <2> QED
      BY <2>1, <2>3, <2>4, <2>5
  <1>3. \A i \in 1..Bytes, k \in 1..Bits : \A j \in 1..k - 1 :
          /\ j \in 1..Bits /\ j < k
          /\ Fixes(i, k) => Fixes(i, j)
    <2> SUFFICES ASSUME NEW i \in 1..Bytes, NEW k \in 1..Bits, NEW j \in 1..k - 1
                 PROVE  /\ j \in 1..Bits /\ j < k
                        /\ Fixes(i, k) => Fixes(i, j)
      OBVIOUS
    <2>1. j \in 1..Bits /\ j < k /\ j \in 1..k
      BY AddressListAssumption
    <2>2. Position(i, j) <= Position(i, k)
      BY <2>1, BitsInOrder
    <2>3. Position(i, j) \in Int /\ Position(i, k) \in Int
      BY <2>1, BitsInOrder, AddressListAssumption
    <2>4. Fixed(e) \in Int
      BY <1>1, AddressListAssumption DEF Fixed
    <2> QED
      BY <2>1, <2>2, <2>3, <2>4
  <1> HIDE DEF low, high, Fixes
  <1>4. ASSUME \A i \in 1..Bytes, k \in 1..Bits : Fixes(i, k) => a[i][k] = e.first[i][k],
               NEW i \in 1..Bytes
        PROVE  ~Less(a[i], low[i]) /\ ~Less(high[i], a[i])
    <2>1. ~Less(a[i], low[i])
      <3> SUFFICES ASSUME NEW k \in 1..Bits, a[i][k] < low[i][k]  PROVE FALSE
        BY DEF Less
      <3> QED
        BY <1>2, <1>4
    <2>2. ~Less(high[i], a[i])
      <3> SUFFICES ASSUME NEW k \in 1..Bits, high[i][k] < a[i][k]  PROVE FALSE
        BY DEF Less
      <3> QED
        BY <1>2, <1>4
    <2> QED
      BY <2>1, <2>2
  <1>5. ASSUME \A i \in 1..Bytes : ~Less(a[i], low[i]) /\ ~Less(high[i], a[i]),
               NEW i \in 1..Bytes
        PROVE  \A k \in 1..Bits : Fixes(i, k) => a[i][k] = e.first[i][k]
    <2> DEFINE T == {k \in 1..Bits : Fixes(i, k) /\ a[i][k] # e.first[i][k]}
    <2> SUFFICES ASSUME T # {}  PROVE FALSE
      OBVIOUS
    <2>1. PICK k \in T : \A j \in T : ~(j < k)
      <3>1. T \subseteq Nat
        OBVIOUS
      <3> QED
        BY <3>1, Least
    <2>2. k \in 1..Bits /\ Fixes(i, k) /\ a[i][k] # e.first[i][k]
      OBVIOUS
    <2>3. \A j \in 1..k - 1 : j \in 1..Bits /\ Fixes(i, j) /\ a[i][j] = e.first[i][j]
      BY <1>3, <2>1, <2>2
    <2>4. \A j \in 1..k - 1 : a[i][j] = low[i][j] /\ high[i][j] = a[i][j]
      BY <1>2, <2>3
    <2>5. a[i][k] < low[i][k] \/ high[i][k] < a[i][k]
      BY <1>2, <2>2
    <2> HIDE DEF T
    <2> QED
      BY <1>5, <2>2, <2>4, <2>5 DEF Less
  <1>6. Between(a, Network(e)) <=> \A i \in 1..Bytes : ~Less(a[i], low[i]) /\ ~Less(high[i], a[i])
    BY DEF Between, low, high
  <1> QED
    BY <1>4, <1>5, <1>6 DEF Fixes

\* What the access list of a daemon admits is what it lists: a prefix the addresses that
\* begin with its bits, a single address itself, a range no address that is not between its
\* ends (ad2_acl_check::add, find), for any size of a byte and of an address.
THEOREM ListAdmitsItsOwn == AclSpec => []AdmitsWhatItLists
  <1>1. AclInit => AclInv
    BY DEF AclInit, AclInv
  <1>2. AclInv /\ [AclNext]_aclVars => AclInv'
    BY AclStep
  <1>3. AclInv => RangeAdmitsNoOther
    <2> SUFFICES ASSUME AclInv, NEW v \in verdict, entry.kind = "range", v.found
                 PROVE  AtMost(entry.first, v.address) /\ AtMost(v.address, entry.last)
      BY DEF RangeAdmitsNoOther
    <2>1. /\ entry # NoEntry /\ entry \in Entries /\ v.address \in Address
          /\ Between(v.address, Network(entry))
      BY DEF AclInv, NoEntry
    <2>2. entry.first \in Address /\ entry.last \in Address
      BY <2>1 DEF Entries
    <2>3. Network(entry).first = entry.first /\ Network(entry).last = entry.last
      BY DEF Network
    <2> QED
      BY <2>1, <2>2, <2>3, BytewiseIsInOrder DEF Between
  <1>4. AclInv => AddressAdmitsItself
    <2> SUFFICES ASSUME AclInv, NEW v \in verdict, entry.kind = "single"
                 PROVE  v.found <=> v.address = entry.first
      BY DEF AddressAdmitsItself
    <2>1. /\ entry # NoEntry /\ entry \in Entries /\ v.address \in Address
          /\ v.found <=> Between(v.address, Network(entry))
      BY DEF AclInv, NoEntry
    <2>2. entry.first \in Address
      BY <2>1 DEF Entries
    <2>3. Network(entry).first = entry.first /\ Network(entry).last = entry.first
      BY DEF Network
    <2>4. Between(v.address, Network(entry))
            <=> \A i \in 1..Bytes :
                  ~Less(v.address[i], entry.first[i]) /\ ~Less(entry.first[i], v.address[i])
      BY <2>3 DEF Between
    <2>5. ASSUME NEW i \in 1..Bytes
          PROVE  (~Less(v.address[i], entry.first[i]) /\ ~Less(entry.first[i], v.address[i]))
                   <=> v.address[i] = entry.first[i]
      <3>1. entry.first[i] \in Octet /\ v.address[i] \in Octet
        BY <2>1, <2>2 DEF Address
      <3> QED
        BY <3>1, BytesAreOrdered, LessIsStrict
    <2>6. (\A i \in 1..Bytes : v.address[i] = entry.first[i]) <=> v.address = entry.first
      BY <2>1, <2>2, SameBytes
    <2> QED
      BY <2>1, <2>4, <2>5, <2>6
  <1>5. AclInv => PrefixAdmitsItsOwn
    <2> SUFFICES ASSUME AclInv, NEW v \in verdict, entry.kind = "cidr"
                 PROVE  v.found <=> \A i \in 1..Bytes, k \in 1..Bits :
                          Position(i, k) <= Fixed(entry) => v.address[i][k] = entry.first[i][k]
      BY DEF PrefixAdmitsItsOwn
    <2>1. /\ entry # NoEntry /\ entry \in Entries /\ v.address \in Address
          /\ v.found <=> Between(v.address, Network(entry))
      BY DEF AclInv, NoEntry
    <2> QED
      BY <2>1, NetworkOfPrefix
  <1> QED
    BY <1>1, <1>2, <1>3, <1>4, <1>5, PTL DEF AclSpec, AdmitsWhatItLists

--------------------------------------------------------------------------------
(* The line editor. *)

Last == MAX_UART_CMD_SIZE - 1

\* A buffer ends in two NULs: the command in it ends, and the byte behind the cursor
\* that Right reads is in it.
Fits(b) ==
  /\ b \in [Positions -> Chars \cup {NUL}]
  /\ b[Last - 1] = NUL /\ b[Last] = NUL

Line(s) == s \in Seq(Chars) /\ Len(s) <= MAX_UART_CMD_SIZE - 2

\* The halt is only asked for by a dot that was typed.
EdInv ==
  /\ rx_buffer \in Seq(Chars \cup Control)
  /\ halting => "." \in Chars /\ rx_buffer # <<>>
  /\ _cmd_len \in 0..(MAX_UART_CMD_SIZE - 2)
  /\ Fits(_cmd_buffer) /\ Fits(prev_cmd)
  /\ ~moved => Line(typed) /\ _cmd_buffer = Buffer(typed) /\ _cmd_len = Len(typed)
  /\ ~prevMoved => \E s : Line(s) /\ prev_cmd = Buffer(s)

LEMMA Sizes == MAX_UART_CMD_SIZE \in Nat /\ MAX_UART_CMD_SIZE > 2 /\ NUL \notin Chars
               /\ "." \notin Control /\ Chars \cap Control = {}
  BY EditorAssumption DEF Control, NUL

LEMMA StrlenIsFirst ==
  ASSUME NEW b, Fits(b)
  PROVE  /\ Strlen(b) \in Positions
         /\ b[Strlen(b)] = NUL
         /\ \A i \in 0..(Strlen(b) - 1) : b[i] # NUL
  <1> DEFINE T == {n \in Positions : b[n] = NUL}
  <1>1. Last \in T
    BY Sizes DEF Fits, Positions, Last
  <1>2. T \subseteq Nat
    BY Sizes DEF Positions
  <1>4. PICK x \in T : \A y \in T : ~(y < x)
    BY <1>1, <1>2, Least
  <1>5. x \in Positions /\ b[x] = NUL /\ \A i \in 0..(x - 1) : b[i] # NUL
    <2>1. ASSUME NEW i \in 0..(x - 1)  PROVE i \in Positions /\ i < x
      BY <2>1, Sizes DEF Positions
    <2> QED
      BY <1>4, <2>1
  <1> QED
    BY <1>5 DEF Strlen

LEMMA LineIsText ==
  ASSUME NEW s, Line(s)
  PROVE  Fits(Buffer(s)) /\ Strlen(Buffer(s)) = Len(s) /\ Text(Buffer(s)) = s
  <1> DEFINE b == Buffer(s)
             n == Strlen(b)
  <1>1. Len(s) \in Nat /\ s = [i \in 1..Len(s) |-> s[i]] /\ \A i \in 1..Len(s) : s[i] \in Chars
    BY LenProperties, ElementOfSeq DEF Line
  <1>2. \A i \in Positions : b[i] = IF i < Len(s) THEN s[i + 1] ELSE NUL
    BY DEF Buffer
  <1>3. Fits(b)
    <2>1. \A i \in Positions : (IF i < Len(s) THEN s[i + 1] ELSE NUL) \in Chars \cup {NUL}
      BY <1>1, Sizes DEF Positions
    <2>2. b \in [Positions -> Chars \cup {NUL}]
      BY <2>1 DEF Buffer
    <2> HIDE DEF b
    <2> QED
      BY <1>1, <1>2, <2>2, Sizes DEF Fits, Positions, Last, Line
  <1>4. n \in Positions /\ b[n] = NUL /\ \A i \in 0..(n - 1) : b[i] # NUL
    BY <1>3, StrlenIsFirst
  <1>5. n = Len(s)
    <2> HIDE DEF n, b
    <2>1. ASSUME n < Len(s)  PROVE FALSE
      <3>1. b[n] = s[n + 1] /\ n + 1 \in 1..Len(s)
        BY <1>1, <1>2, <1>4, <2>1, Sizes DEF Positions
      <3> QED
        BY <1>1, <1>4, <3>1, Sizes
    <2>2. ASSUME Len(s) < n  PROVE FALSE
      <3>1. Len(s) \in 0..(n - 1) /\ Len(s) \in Positions
        BY <1>1, <1>4, <2>2, Sizes DEF Positions
      <3>2. ~(Len(s) < Len(s))
        BY <1>1
      <3> QED
        BY <1>2, <1>4, <3>1, <3>2
    <2> QED
      BY <1>1, <1>4, <2>1, <2>2, Sizes DEF Positions
  <1>6. Text(b) = s
    <2>1. Text(b) = [i \in 1..Len(s) |-> b[i - 1]]
      BY <1>5 DEF Text
    <2>2. \A i \in 1..Len(s) : b[i - 1] = s[i]
      <3> HIDE DEF b
      <3>1. ASSUME NEW i \in 1..Len(s)
            PROVE  i - 1 \in Positions /\ i - 1 < Len(s) /\ (i - 1) + 1 = i
        BY <1>1, <3>1, Sizes DEF Positions, Line
      <3> QED
        BY <1>2, <3>1
    <2> HIDE DEF b
    <2> QED
      BY <1>1, <2>1, <2>2
  <1> QED
    BY <1>3, <1>5, <1>6

LEMMA EmptyLine == Line(<<>>) /\ Buffer(<<>>) = Empty /\ Len(<<>>) = 0 /\ Fits(Empty)
  <1>1. Line(<<>>) /\ Len(<<>>) = 0
    BY Sizes, EmptySeq DEF Line
  <1>2. Buffer(<<>>) = Empty
    BY Sizes DEF Buffer, Empty, Positions
  <1> QED
    BY <1>1, <1>2, LineIsText

\* A character put behind a line that has room.
LEMMA LineGrows ==
  ASSUME NEW s, Line(s), NEW c \in Chars, Len(s) < MAX_UART_CMD_SIZE - 2
  PROVE  /\ Line(Append(s, c)) /\ Len(Append(s, c)) = Len(s) + 1
         /\ Buffer(Append(s, c)) = [Buffer(s) EXCEPT ![Len(s)] = c]
  <1> DEFINE a == Append(s, c)
  <1>1. /\ a \in Seq(Chars) /\ Len(a) = Len(s) + 1 /\ Len(s) \in Nat
        /\ \A i \in 1..Len(s) : a[i] = s[i]
        /\ a[Len(s) + 1] = c
    BY AppendProperties, LenProperties DEF Line
  <1> HIDE DEF a
  <1>2. Line(a)
    BY <1>1, Sizes DEF Line
  <1>3. ASSUME NEW i \in Positions
        PROVE  (IF i < Len(a) THEN a[i + 1] ELSE NUL)
                 = (IF i = Len(s) THEN c ELSE IF i < Len(s) THEN s[i + 1] ELSE NUL)
    BY <1>1, <1>3, Sizes DEF Positions
  <1>4. Buffer(a) = [Buffer(s) EXCEPT ![Len(s)] = c]
    BY <1>3 DEF Buffer
  <1> QED
    BY <1>1, <1>2, <1>4 DEF a

\* The last character taken back.
LEMMA LineShrinks ==
  ASSUME NEW s, Line(s), Len(s) > 0
  PROVE  LET r == SubSeq(s, 1, Len(s) - 1)
         IN  /\ Line(r) /\ Len(r) = Len(s) - 1
             /\ Buffer(r) = [Buffer(s) EXCEPT ![Len(s) - 1] = NUL]
  <1> DEFINE r == SubSeq(s, 1, Len(s) - 1)
  <1>1. Len(s) \in Nat /\ \A i \in 1..Len(s) : s[i] \in Chars
    BY LenProperties, ElementOfSeq DEF Line
  <1>2. /\ r \in Seq(Chars) /\ Len(r) = Len(s) - 1
        /\ \A i \in 1..(Len(s) - 1) : r[i] = s[i]
    <2>1. 1 \in Int /\ Len(s) - 1 \in Int /\ \A i \in 1..(Len(s) - 1) : s[i] \in Chars
      BY <1>1
    <2>2. /\ r \in Seq(Chars)
          /\ Len(r) = IF 1 <= Len(s) - 1 THEN Len(s) - 1 - 1 + 1 ELSE 0
          /\ \A i \in 1..(Len(s) - 1 - 1 + 1) : r[i] = s[1 + i - 1]
      BY <2>1, SubSeqProperties
    <2> HIDE DEF r
    <2>3. Len(r) = Len(s) - 1
      <3>1. ASSUME NEW k \in Nat, k > 0
            PROVE  (IF 1 <= k - 1 THEN k - 1 - 1 + 1 ELSE 0) = k - 1
        BY <3>1
      <3> QED
        BY <1>1, <2>2, <3>1
    <2>4. ASSUME NEW i \in 1..(Len(s) - 1)  PROVE r[i] = s[i]
      <3>1. i \in 1..(Len(s) - 1 - 1 + 1) /\ 1 + i - 1 = i
        BY <1>1
      <3> QED
        BY <2>2, <3>1
    <2> QED
      BY <2>2, <2>3, <2>4
  <1> HIDE DEF r
  <1>3. Line(r)
    BY <1>1, <1>2, Sizes DEF Line
  <1>4. ASSUME NEW i \in Positions
        PROVE  (IF i < Len(r) THEN r[i + 1] ELSE NUL)
                 = (IF i = Len(s) - 1 THEN NUL ELSE IF i < Len(s) THEN s[i + 1] ELSE NUL)
    BY <1>1, <1>2, <1>4, Sizes DEF Positions
  <1>5. Buffer(r) = [Buffer(s) EXCEPT ![Len(s) - 1] = NUL]
    BY <1>4 DEF Buffer
  <1> QED
    BY <1>2, <1>3, <1>5 DEF r

\* What is not yet handled of a read is of the same bytes.
LEMMA RestOfRead ==
  ASSUME NEW n \in Nat, rx_buffer \in Seq(Chars \cup Control)
  PROVE  SubSeq(rx_buffer, n + 1, Len(rx_buffer)) \in Seq(Chars \cup Control)
  <1>1. Len(rx_buffer) \in Int /\ n + 1 \in Int
    BY LenProperties
  <1>2. \A i \in (n + 1)..Len(rx_buffer) : rx_buffer[i] \in Chars \cup Control
    <2>1. ASSUME NEW i \in (n + 1)..Len(rx_buffer)  PROVE i \in 1..Len(rx_buffer)
      BY <1>1
    <2> QED
      BY <2>1, ElementOfSeq
  <1> QED
    BY <1>1, <1>2, SubSeqProperties

LEMMA FitsExcept ==
  ASSUME NEW b, Fits(b), NEW n \in 0..(MAX_UART_CMD_SIZE - 2), NEW c \in Chars \cup {NUL},
         n < MAX_UART_CMD_SIZE - 2 \/ c = NUL
  PROVE  Fits([b EXCEPT ![n] = c])
  BY Sizes DEF Fits, Positions, Last

LEMMA InsertKeeps ==
  ASSUME EdInv, NEW c \in Chars, Insert(c), UNCHANGED <<prev_cmd, moved, prevMoved>>
  PROVE  /\ _cmd_len' \in 0..(MAX_UART_CMD_SIZE - 2) /\ Fits(_cmd_buffer')
         /\ ~moved' => Line(typed') /\ _cmd_buffer' = Buffer(typed') /\ _cmd_len' = Len(typed')
  <1>1. CASE _cmd_len >= MAX_UART_CMD_SIZE - 2
    BY <1>1 DEF Insert, EdInv
  <1>2. CASE ~(_cmd_len >= MAX_UART_CMD_SIZE - 2)
    <2>1. /\ _cmd_buffer' = [_cmd_buffer EXCEPT ![_cmd_len] = c]
          /\ _cmd_len' = _cmd_len + 1
          /\ typed' = IF moved THEN <<>> ELSE Append(typed, c)
      BY <1>2 DEF Insert
    <2>2. _cmd_len \in 0..(MAX_UART_CMD_SIZE - 2) /\ _cmd_len < MAX_UART_CMD_SIZE - 2
      BY <1>2, Sizes DEF EdInv
    <2>3. Fits(_cmd_buffer')
      BY <2>1, <2>2, FitsExcept DEF EdInv
    <2>4. ~moved => Line(typed') /\ _cmd_buffer' = Buffer(typed') /\ _cmd_len' = Len(typed')
      BY <2>1, <2>2, LineGrows DEF EdInv
    <2> QED
      BY <2>1, <2>2, <2>3, <2>4, Sizes
  <1> QED
    BY <1>1, <1>2

LEMMA EdStep == EdInv /\ [EdNext]_edVars => EdInv'
  <1> SUFFICES ASSUME EdInv, [EdNext]_edVars  PROVE EdInv'
    OBVIOUS
  <1> DEFINE Kept == UNCHANGED <<_cmd_buffer, _cmd_len, prev_cmd, typed, moved, prevMoved>>
             Rx == rx_buffer' \in Seq(Chars \cup Control)
  <1>k. ASSUME Kept, Rx, UNCHANGED halting, ~halting  PROVE EdInv'
    BY <1>k DEF EdInv
  <1>t. ASSUME NEW c, NEW n \in Nat, TakeByte(c, n)  PROVE Rx /\ ~halting
    BY <1>t, RestOfRead DEF TakeByte, EdInv
  <1>0. CASE UNCHANGED edVars
    BY <1>0 DEF edVars, editor, boot, EdInv
  <1>1. ASSUME NEW r \in Reads, Read(r)  PROVE EdInv'
    <2>1. Rx /\ ~halting
      BY <1>1, EditorAssumption DEF Read, EdInv
    <2> QED
      BY <1>1, <1>k, <2>1 DEF Read, boot
  <1>2. CASE LineFeed
    BY <1>2, <1>k, <1>t DEF LineFeed, boot
  <1>3. CASE CarriageReturn
    <2>1. Rx /\ ~halting /\ UNCHANGED halting
      BY <1>3, <1>t DEF CarriageReturn, boot
    <2>2. CASE _cmd_len = 0
      BY <1>3, <2>1, <2>2, <1>k DEF CarriageReturn
    <2>3. CASE _cmd_len # 0
      <3>1. prev_cmd' = _cmd_buffer /\ prevMoved' = moved /\ Clear
        BY <1>3, <2>3 DEF CarriageReturn
      <3>2. ~prevMoved' => \E s : Line(s) /\ prev_cmd' = Buffer(s)
        BY <3>1 DEF EdInv
      <3>3. 0 \in 0..(MAX_UART_CMD_SIZE - 2)
        BY Sizes
      <3> QED
        BY <2>1, <3>1, <3>2, <3>3, EmptyLine DEF EdInv, Clear
    <2> QED
      BY <2>2, <2>3
  <1>4. CASE Backspace
    <2>1. Rx /\ ~halting /\ UNCHANGED <<halting, prev_cmd, moved, prevMoved>>
      BY <1>4, <1>t DEF Backspace, boot
    <2>2. CASE _cmd_len = 0
      BY <1>4, <2>1, <2>2, <1>k DEF Backspace
    <2>3. CASE _cmd_len # 0
      <3>1. /\ _cmd_len' = _cmd_len - 1
            /\ _cmd_buffer' = [_cmd_buffer EXCEPT ![_cmd_len - 1] = NUL]
            /\ typed' = IF moved THEN <<>> ELSE SubSeq(typed, 1, Len(typed) - 1)
        BY <1>4, <2>3 DEF Backspace
      <3>2. _cmd_len' \in 0..(MAX_UART_CMD_SIZE - 2) /\ _cmd_len > 0
        BY <2>3, <3>1, Sizes DEF EdInv
      <3>3. Fits(_cmd_buffer')
        BY <3>1, <3>2, FitsExcept DEF EdInv
      <3>4. ~moved => Line(typed') /\ _cmd_buffer' = Buffer(typed') /\ _cmd_len' = Len(typed')
        BY <3>1, <3>2, LineShrinks DEF EdInv
      <3> QED
        BY <2>1, <3>2, <3>3, <3>4 DEF EdInv
    <2> QED
      BY <2>2, <2>3
  <1>5. CASE ControlC
    <2>1. Rx /\ ~halting /\ UNCHANGED <<halting, prev_cmd, prevMoved>> /\ Clear
      BY <1>5, <1>t DEF ControlC, boot
    <2>2. 0 \in 0..(MAX_UART_CMD_SIZE - 2)
      BY Sizes
    <2> QED
      BY <2>1, <2>2, EmptyLine DEF EdInv, Clear
  <1>6. CASE Up
    <2>1. /\ Rx /\ ~halting /\ UNCHANGED <<halting, prev_cmd, prevMoved>>
          /\ _cmd_buffer' = prev_cmd /\ _cmd_len' = Strlen(prev_cmd)
          /\ moved' = prevMoved
          /\ typed' = IF prevMoved THEN <<>> ELSE Text(prev_cmd)
      BY <1>6, <1>t DEF Up, Arrow, boot
    <2>2. Strlen(prev_cmd) \in 0..(MAX_UART_CMD_SIZE - 2)
      <3>1. /\ Strlen(prev_cmd) \in Positions
            /\ \A i \in 0..(Strlen(prev_cmd) - 1) : prev_cmd[i] # NUL
            /\ prev_cmd[Last - 1] = NUL
        BY StrlenIsFirst DEF EdInv, Fits
      <3> HIDE DEF Strlen
      <3> QED
        BY <3>1, Sizes DEF Positions, Last
    <2>3. ~prevMoved => Line(typed') /\ _cmd_buffer' = Buffer(typed') /\ _cmd_len' = Len(typed')
      <3>1. SUFFICES ASSUME ~prevMoved
                     PROVE  Line(typed') /\ _cmd_buffer' = Buffer(typed') /\ _cmd_len' = Len(typed')
        OBVIOUS
      <3>2. PICK s : Line(s) /\ prev_cmd = Buffer(s)
        BY <3>1 DEF EdInv
      <3>3. Strlen(prev_cmd) = Len(s) /\ Text(prev_cmd) = s
        BY <3>2, LineIsText
      <3> QED
        BY <2>1, <3>1, <3>2, <3>3
    <2> QED
      BY <2>1, <2>2, <2>3 DEF EdInv
  <1>7. CASE Down
    BY <1>7, <1>k, <1>t DEF Down, Arrow, boot
  <1>8. CASE Right
    <2>1. Rx /\ ~halting /\ UNCHANGED <<halting, _cmd_buffer, prev_cmd, prevMoved>>
      BY <1>8, <1>t DEF Right, Arrow, boot
    <2>2. CASE _cmd_buffer[_cmd_len + 1] # NUL
      <3>1. _cmd_len' = _cmd_len + 1 /\ moved'
        BY <1>8, <2>2 DEF Right
      <3>2. _cmd_len \in 0..(MAX_UART_CMD_SIZE - 2) /\ _cmd_buffer[Last] = NUL /\ _cmd_len # Last - 1
        BY <2>2, Sizes DEF EdInv, Fits, Last
      <3>3. _cmd_len' \in 0..(MAX_UART_CMD_SIZE - 2)
        BY <3>1, <3>2, Sizes DEF Last
      <3> QED
        BY <2>1, <3>1, <3>3 DEF EdInv
    <2>3. CASE ~(_cmd_buffer[_cmd_len + 1] # NUL)
      BY <1>8, <2>1, <2>3, <1>k DEF Right
    <2> QED
      BY <2>2, <2>3
  <1>9. CASE Left
    <2>1. Rx /\ ~halting /\ UNCHANGED <<halting, _cmd_buffer, prev_cmd, prevMoved>>
      BY <1>9, <1>t DEF Left, Arrow, boot
    <2>2. CASE _cmd_len > 0
      <3>1. _cmd_len' = _cmd_len - 1 /\ moved'
        BY <1>9, <2>2 DEF Left
      <3>2. _cmd_len' \in 0..(MAX_UART_CMD_SIZE - 2)
        BY <2>2, <3>1, Sizes DEF EdInv
      <3> QED
        BY <2>1, <3>1, <3>2 DEF EdInv
    <2>3. CASE ~(_cmd_len > 0)
      BY <1>9, <2>1, <2>3, <1>k DEF Left
    <2> QED
      BY <2>2, <2>3
  <1>10. CASE OtherEscape
    BY <1>10, <1>k, <1>t DEF OtherEscape, boot
  <1>11. ASSUME NEW c \in Chars, Printable(c)  PROVE EdInv'
    <2>1. Rx /\ ~halting /\ UNCHANGED <<halting, prev_cmd, moved, prevMoved>> /\ Insert(c)
      BY <1>11, <1>t DEF Printable, boot
    <2> QED
      BY <2>1, InsertKeeps DEF EdInv
  <1>12. CASE ThirdDot
    <2>1. "." \in Chars
      <3>1. rx_buffer # <<>> /\ Head(rx_buffer) = "."
        BY <1>12 DEF ThirdDot
      <3>2. Head(rx_buffer) \in Chars \cup Control
        BY <3>1, HeadTailProperties DEF EdInv
      <3> QED
        BY <3>1, <3>2, Sizes
    <2> QED
      BY <1>12, <2>1 DEF ThirdDot, editor, EdInv
  <1>13. CASE Halt
    <2>1. /\ rx_buffer' = Tail(rx_buffer) /\ Insert(".") /\ "." \in Chars
          /\ rx_buffer # <<>> /\ ~halting' /\ UNCHANGED <<prev_cmd, moved, prevMoved>>
      BY <1>13 DEF Halt, EdInv
    <2>2. Rx
      BY <2>1, HeadTailProperties DEF EdInv
    <2> QED
      BY <2>1, <2>2, InsertKeeps DEF EdInv
  <1>14. CASE WaitOver
    BY <1>14 DEF WaitOver, editor, EdInv
  <1>15. CASE Test
    BY <1>15 DEF Test, editor, EdInv
  <1> QED
    BY <1>0, <1>1, <1>2, <1>3, <1>4, <1>5, <1>6, <1>7, <1>8, <1>9, <1>10, <1>11, <1>12,
       <1>13, <1>14, <1>15 DEF EdNext

\* As long as the cursor keys are left alone the editor holds exactly the line typed:
\* nothing of an older or a recalled line shows behind its end.
THEOREM EditorHoldsLine == EdSpec => []LineAsTyped
  <1>1. EdInit => EdInv
    <2>1. 0 \in 0..(MAX_UART_CMD_SIZE - 2) /\ <<>> \in Seq(Chars \cup Control)
      BY Sizes, EmptySeq
    <2> QED
      BY <2>1, EmptyLine DEF EdInit, EdInv
  <1>2. EdInv => LineAsTyped
    BY DEF EdInv, LineAsTyped
  <1> QED
    BY <1>1, <1>2, EdStep, PTL DEF EdSpec
================================================================================
