------------------------------ MODULE HostConsole ------------------------------
(***************************************************************************)
(* The lock of the host console: ad2_take_host_console() and               *)
(* ad2_give_host_console(), used by the lines tasks print and, around all  *)
(* the bytes of one read, by the command line task.  What that prints      *)
(* meanwhile takes and gives the console again, and the give of the first  *)
(* line is that of all.  The text of help and the lines of the log it      *)
(* writes without taking the console.                                      *)
(*                                                                         *)
(* External: the FreeRTOS mutex.  A give by a task that does not hold it   *)
(* does nothing if nobody holds it, and else fails an assertion of         *)
(* FreeRTOS, which restarts the device.                                    *)
(***************************************************************************)
EXTENDS Naturals

CONSTANTS
  Printers,     \* tasks that print
  CliTask,      \* uart_cli_task, one of them
  NoTask        \* nullptr

ASSUME ConsoleAssumption == CliTask \in Printers /\ NoTask \notin Printers

VARIABLES
  g_ad2_console_mutex,  \* the task that holds it, or NoTask
  LAST_OWNER,
  console_locked,
  conPc,                \* conPc[t]: where task t is
  spool                 \* the command line's outer take and give: "no", "taking",
                        \* "held", and "open" once a line of its own has given the
                        \* console, or if it could not be taken

conVars == <<g_ad2_console_mutex, LAST_OWNER, console_locked, conPc, spool>>

ConInit ==
  /\ g_ad2_console_mutex = NoTask
  /\ LAST_OWNER = NoTask
  /\ console_locked = FALSE
  /\ conPc = [t \in Printers |-> "idle"]
  /\ spool = "no"

Goto(t, p) == conPc' = [conPc EXCEPT ![t] = p]

\* A task prints a line.
PrintHost(t) ==
  /\ conPc[t] = "idle"
  /\ Goto(t, "check")
  /\ UNCHANGED <<g_ad2_console_mutex, LAST_OWNER, console_locked, spool>>

\* The command line task takes the console for the bytes it has read.
SpoolBegin ==
  /\ conPc[CliTask] = "idle" /\ spool = "no"
  /\ spool' = "taking"
  /\ Goto(CliTask, "check")
  /\ UNCHANGED <<g_ad2_console_mutex, LAST_OWNER, console_locked>>

\* What follows a take: the line is written, or the spooled bytes are handled.
Taken(t) ==
  IF t = CliTask /\ spool = "taking"
  THEN spool' = "held" /\ Goto(t, "idle")
  ELSE UNCHANGED spool /\ Goto(t, "write")

\* Mutant: the owner is not compared.
CheckLockedOnly(t) ==
  /\ conPc[t] = "check"
  /\ IF console_locked THEN Taken(t) ELSE Goto(t, "wait") /\ UNCHANGED spool
  /\ UNCHANGED <<g_ad2_console_mutex, LAST_OWNER, console_locked>>

\* Locked already by the same owner?
Check(t) ==
  /\ conPc[t] = "check"
  /\ IF console_locked /\ LAST_OWNER = t
     THEN Taken(t)
     ELSE Goto(t, "wait") /\ UNCHANGED spool
  /\ UNCHANGED <<g_ad2_console_mutex, LAST_OWNER, console_locked>>

Acquire(t) ==
  /\ conPc[t] = "wait" /\ g_ad2_console_mutex = NoTask
  /\ g_ad2_console_mutex' = t
  /\ Goto(t, "own")
  /\ UNCHANGED <<LAST_OWNER, console_locked, spool>>

\* 500 ms passed: the line is lost, the spooled bytes are handled all the same.
TakeTimeout(t) ==
  /\ conPc[t] = "wait" /\ g_ad2_console_mutex # NoTask
  /\ Goto(t, "idle")
  /\ spool' = IF t = CliTask /\ spool = "taking" THEN "open" ELSE spool
  /\ UNCHANGED <<g_ad2_console_mutex, LAST_OWNER, console_locked>>

\* The owner and the flag are written outside the critical section.
Own(t) ==
  /\ conPc[t] = "own"
  /\ LAST_OWNER' = t
  /\ Goto(t, "lock")
  /\ UNCHANGED <<g_ad2_console_mutex, console_locked, spool>>

Lock(t) ==
  /\ conPc[t] = "lock"
  /\ console_locked' = TRUE
  /\ Taken(t)
  /\ UNCHANGED <<g_ad2_console_mutex, LAST_OWNER>>

\* cli_cmd_help, ad2_print_recent_logs: written as it is.
WriteBare ==
  /\ conPc[CliTask] = "idle" /\ spool \in {"held", "open"}
  /\ Goto(CliTask, "bare")
  /\ UNCHANGED <<g_ad2_console_mutex, LAST_OWNER, console_locked, spool>>

BareEnd ==
  /\ conPc[CliTask] = "bare"
  /\ Goto(CliTask, "idle")
  /\ UNCHANGED <<g_ad2_console_mutex, LAST_OWNER, console_locked, spool>>

\* A line is out.
WriteEnd(t) ==
  /\ conPc[t] = "write"
  /\ Goto(t, "give")
  /\ UNCHANGED <<g_ad2_console_mutex, LAST_OWNER, console_locked, spool>>

\* The bytes of a read are handled.
SpoolEnd ==
  /\ conPc[CliTask] = "idle" /\ spool \in {"held", "open"}
  /\ spool' = "no"
  /\ Goto(CliTask, "give")
  /\ UNCHANGED <<g_ad2_console_mutex, LAST_OWNER, console_locked>>

\* ad2_give_host_console: neither the owner nor the depth is tested.  A task on the
\* other core can take the mutex before the flag is cleared.
Give(t) ==
  /\ conPc[t] = "give" /\ g_ad2_console_mutex \in {t, NoTask}
  /\ g_ad2_console_mutex' = NoTask
  /\ spool' = IF t = CliTask /\ spool = "held" THEN "open" ELSE spool
  /\ Goto(t, "clear")
  /\ UNCHANGED <<LAST_OWNER, console_locked>>

ClearLocked(t) ==
  /\ conPc[t] = "clear"
  /\ console_locked' = FALSE
  /\ Goto(t, "idle")
  /\ UNCHANGED <<g_ad2_console_mutex, LAST_OWNER, spool>>

\* The assertion of FreeRTOS: every task starts again.
GiveForeign(t) ==
  /\ conPc[t] = "give" /\ g_ad2_console_mutex \notin {t, NoTask}
  /\ g_ad2_console_mutex' = NoTask
  /\ LAST_OWNER' = NoTask
  /\ console_locked' = FALSE
  /\ conPc' = [u \in Printers |-> "idle"]
  /\ spool' = "no"

ConNext ==
  \/ SpoolBegin
  \/ SpoolEnd
  \/ WriteBare \/ BareEnd
  \/ \E t \in Printers :
       \/ PrintHost(t) \/ Check(t) \/ Acquire(t) \/ TakeTimeout(t) \/ Own(t) \/ Lock(t)
       \/ WriteEnd(t) \/ Give(t) \/ ClearLocked(t) \/ GiveForeign(t)

ConSpec == ConInit /\ [][ConNext]_conVars

--------------------------------------------------------------------------------
(* Properties. *)

\* A task that prints a line holds the mutex, so that no two lines mix, although the
\* flag that lets a task in without taking it is cleared by tasks that do not own it,
\* late, and outside the mutex; and the command line, once it has the console for the
\* bytes of a read, keeps it up to the first line it prints itself.  Not after it ("lock
\* the console as we spool out the message"), and not for what it writes without
\* taking the console: the lines of others then come in between.
WriterHoldsConsole ==
  /\ \A t \in Printers : conPc[t] \in {"own", "lock", "write"} => g_ad2_console_mutex = t
  /\ spool = "held" => g_ad2_console_mutex = CliTask
================================================================================
