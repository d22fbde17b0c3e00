---------------------------------- MODULE SdLog --------------------------------
(***************************************************************************)
(* The log: every line goes to a ring in memory, read one entry at a time, *)
(* and, where it is enabled, through a queue to the task that writes a     *)
(* file on the uSD card and renames it when it is full.                    *)
(*                                                                         *)
(* A line is its number.  External: the card and its file system, whose    *)
(* calls may fail.  One console enables the log at a time.                 *)
(***************************************************************************)
EXTENDS Naturals, SequencesExt

CONSTANTS
  RingSize,      \* AD2_LOG_HISTORY_SIZE
  QueueSize,     \* AD2_SD_LOG_QUEUE_SIZE
  MaxBytes,      \* AD2_SD_LOG_MAX_BYTES, a line is one byte
  MaxLines       \* bound on the number of lines

ASSUME SdLogAssumption ==
  {RingSize, QueueSize, MaxBytes, MaxLines} \subseteq Nat \ {0}

VARIABLES
  uSDMounted,            \* g_uSD_mounted
  enabled, taskStarted,  \* _ad2_sd_log_enabled, _ad2_sd_log_task_started
  lines,                 \* the number of lines captured
  logRing, logHead, logCount,  \* _ad2_log_history and its counters
  logQueue,              \* _ad2_sd_log_queue
  dropped, writeErrors,  \* the two counters
  fileOpen, fileSize,    \* log_file # NULL, file_size
  logFile, oldFile,      \* what the two files hold
  missing,               \* lines to be written that are in no file
  viewer                 \* a reader of the ring: [at, count, head, offset, items]

ringVars == <<lines, logRing, logHead, logCount>>
fileVars == <<fileOpen, fileSize, logFile, oldFile>>
logVars  == <<uSDMounted, enabled, taskStarted, ringVars, logQueue, dropped, writeErrors,
              fileVars, missing, viewer>>

NoView == [at |-> "rest", newest |-> 0, count |-> 0, head |-> 0, offset |-> 0, items |-> <<>>]

LogInit ==
  /\ uSDMounted \in BOOLEAN
  /\ enabled = FALSE /\ taskStarted = FALSE
  /\ lines = 0 /\ logRing = [i \in 0..RingSize - 1 |-> 0] /\ logHead = 0 /\ logCount = 0
  /\ logQueue = <<>> /\ dropped = 0 /\ writeErrors = 0
  /\ fileOpen = FALSE /\ fileSize = 0 /\ logFile = <<>> /\ oldFile = <<>>
  /\ missing = 0 /\ viewer = NoView

--------------------------------------------------------------------------------
(* ad2_set_sd_logging_enabled: the flag is set though the task cannot start. *)
SetEnabled(b) ==
  /\ enabled' = b
  /\ taskStarted' \in IF b /\ ~taskStarted /\ uSDMounted THEN BOOLEAN ELSE {taskStarted}
  /\ UNCHANGED <<uSDMounted, ringVars, logQueue, dropped, writeErrors, fileVars, missing, viewer>>

\* ad2_capture_log_line
Capture ==
  /\ lines < MaxLines
  /\ lines' = lines + 1
  /\ logRing' = [logRing EXCEPT ![logHead] = lines']
  /\ logHead' = (logHead + 1) % RingSize
  /\ logCount' = IF logCount < RingSize THEN logCount + 1 ELSE logCount
  /\ IF enabled /\ taskStarted
     THEN IF Len(logQueue) < QueueSize
          THEN logQueue' = Append(logQueue, lines') /\ UNCHANGED <<dropped, missing>>
          ELSE dropped' = dropped + 1 /\ missing' = missing + 1 /\ UNCHANGED logQueue
     ELSE UNCHANGED <<logQueue, dropped, missing>>
  /\ UNCHANGED <<uSDMounted, enabled, taskStarted, writeErrors, fileVars, viewer>>

--------------------------------------------------------------------------------
(* _ad2_sd_log_task: what it does with a line it receives. *)

Takes == /\ taskStarted /\ logQueue # <<>>
         /\ logQueue' = Tail(logQueue)
         /\ UNCHANGED <<uSDMounted, enabled, taskStarted, ringVars, dropped, viewer>>

Line == Head(logQueue)

\* The log has been disabled since: the line is not to be written any more.
Discards ==
  /\ Takes /\ ~enabled
  /\ UNCHANGED <<fileVars, writeErrors, missing>>

OpenFails ==
  /\ Takes /\ enabled /\ ~fileOpen
  /\ writeErrors' = writeErrors + 1 /\ missing' = missing + 1
  /\ UNCHANGED fileVars

\* The size, once the file is open.
Size == IF fileOpen THEN fileSize ELSE Len(logFile)

Full == Size + 1 > MaxBytes

\* The write may fail after it has written the line, or before.
Writes ==
  /\ Takes /\ enabled /\ ~Full
  /\ fileOpen' = TRUE
  /\ \/ /\ logFile' = Append(logFile, Line) /\ fileSize' = Size + 1
        /\ UNCHANGED <<writeErrors, missing>>
     \/ /\ writeErrors' = writeErrors + 1
        /\ \/ logFile' = Append(logFile, Line) /\ fileSize' = Size + 1 /\ UNCHANGED missing
           \/ fileSize' = Size /\ missing' = missing + 1 /\ UNCHANGED logFile
  /\ UNCHANGED oldFile

\* The old file is removed, this one renamed, a new one begun.
Rotates ==
  /\ Takes /\ enabled /\ Full
  /\ oldFile' = logFile
  /\ logFile' = <<Line>> /\ fileOpen' = TRUE /\ fileSize' = 1
  /\ UNCHANGED <<writeErrors, missing>>

\* Mutant: a line is lost without an error.
RotateFailsSilently ==
  /\ Takes /\ enabled /\ Full
  /\ oldFile' = logFile /\ logFile' = <<>>
  /\ fileOpen' = FALSE /\ fileSize' = 0
  /\ missing' = missing + 1
  /\ UNCHANGED writeErrors

\* The new file cannot be opened.
RotateFails ==
  /\ Takes /\ enabled /\ Full
  /\ oldFile' = logFile /\ logFile' = <<>>
  /\ fileOpen' = FALSE /\ fileSize' = 0
  /\ writeErrors' = writeErrors + 1 /\ missing' = missing + 1

\* The old file is gone and this one stays; it may not open again.
RenameFails ==
  /\ Takes /\ enabled /\ Full
  /\ oldFile' = <<>>
  /\ missing' = missing + 1
  /\ fileSize' = Size
  /\ \/ fileOpen' = TRUE /\ writeErrors' = writeErrors + 1
     \/ fileOpen' = FALSE /\ writeErrors' = writeErrors + 2
  /\ UNCHANGED logFile

\* A second without a line, and the log is disabled.
ClosesFile ==
  /\ taskStarted /\ logQueue = <<>> /\ ~enabled /\ fileOpen
  /\ fileOpen' = FALSE /\ fileSize' = 0
  /\ UNCHANGED <<uSDMounted, enabled, taskStarted, ringVars, logQueue, dropped, writeErrors,
                 logFile, oldFile, missing, viewer>>

--------------------------------------------------------------------------------
(* ad2_get_recent_logs_json; ad2_print_recent_logs reads the same, oldest first. *)

Smaller(m, n) == IF m < n THEN m ELSE n

ViewBegins(limit) ==
  /\ viewer.at = "rest"
  /\ viewer' = [NoView EXCEPT !.at = "read", !.head = logHead, !.newest = lines,
                              !.count = Smaller(limit, logCount)]
  /\ UNCHANGED <<uSDMounted, enabled, taskStarted, ringVars, logQueue, dropped, writeErrors,
                 fileVars, missing>>

ViewIndex(v) == (v.head + RingSize - 1 - v.offset) % RingSize

\* The lock is taken for one entry: lines may arrive between two.
ViewReads ==
  /\ viewer.at = "read" /\ viewer.offset < viewer.count
  /\ viewer' = [viewer EXCEPT !.items = Append(@, logRing[ViewIndex(viewer)]), !.offset = @ + 1]
  /\ UNCHANGED <<uSDMounted, enabled, taskStarted, ringVars, logQueue, dropped, writeErrors,
                 fileVars, missing>>

ViewEnds ==
  /\ viewer.at = "read" /\ viewer.offset = viewer.count
  /\ viewer' = NoView
  /\ UNCHANGED <<uSDMounted, enabled, taskStarted, ringVars, logQueue, dropped, writeErrors,
                 fileVars, missing>>

LogNext ==
  \/ \E b \in BOOLEAN : SetEnabled(b)
  \/ Capture
  \/ Discards \/ OpenFails \/ Writes \/ Rotates \/ RotateFails \/ RenameFails \/ ClosesFile
  \/ \E limit \in 1..RingSize : ViewBegins(limit)
  \/ ViewReads \/ ViewEnds

LogSpec == LogInit /\ [][LogNext]_logVars

--------------------------------------------------------------------------------
(* Properties. *)

\* The two files hold lines in the order they were logged, none twice, and neither
\* file outgrows its limit, whichever calls failed and however often the log was
\* disabled and enabled.
LogFilesAreInOrder ==
  LET all == oldFile \o logFile
  IN /\ \A i, j \in DOMAIN all : i < j => all[i] < all[j]
     /\ Len(logFile) <= MaxBytes /\ Len(oldFile) <= MaxBytes

\* Every line that should have been written and was not is in a counter shown by
\* the status command.
MissingIsCounted == missing <= dropped + writeErrors

\* The list of recent lines begins with the newest there were, in order; lines that
\* arrive while it is made can only replace the oldest of it.
RecentIsNewest ==
  \A i \in DOMAIN viewer.items :
    \/ viewer.items[i] = viewer.newest + 1 - i
    \/ \A j \in i..Len(viewer.items) : viewer.items[j] > viewer.newest

\* The log loses nothing unseen: on the card, in the counters, in the list.
LogIsComplete == LogFilesAreInOrder /\ MissingIsCounted /\ RecentIsNewest
================================================================================
