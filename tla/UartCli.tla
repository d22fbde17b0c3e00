-------------------------------- MODULE UartCli --------------------------------
(***************************************************************************)
(* uart_cli_task, the line editor of the command line, and the five        *)
(* seconds at start-up in which three dots typed there halt the start.     *)
(* The editor handles the bytes of one read after the other.  The          *)
(* commands it runs are in other modules.                                  *)
(*                                                                         *)
(* The cursor keys move _cmd_len, the only length the editor keeps: what   *)
(* is typed next overwrites the buffer from there on.                      *)
(***************************************************************************)
EXTENDS Naturals, Sequences

CONSTANTS
  Chars,              \* printable characters
  Reads,              \* what one read may return: sequences of bytes
  MAX_UART_CMD_SIZE

NUL == "NUL"
Control == {"CR", "LF", "BS", "^C", "ESC"}

ASSUME EditorAssumption ==
  /\ MAX_UART_CMD_SIZE \in Nat /\ MAX_UART_CMD_SIZE > 2
  /\ Reads \subseteq Seq(Chars \cup Control)
  /\ Chars \cap (Control \cup {NUL}) = {}

VARIABLES
  rx_buffer,          \* the bytes of the last read still to handle
  _cmd_buffer, _cmd_len,
  prev_cmd,
  break_count,
  halting,            \* the third dot was seen, g_StopMainTask is not yet written
  bootStop,           \* g_StopMainTask
  bootPc,             \* where app_main is in cli_main
  typed,              \* the line as typed: what an editor without cursor holds
  moved, prevMoved    \* the cursor was moved in this line, in the previous one

editor == <<rx_buffer, _cmd_buffer, _cmd_len, prev_cmd, typed, moved, prevMoved>>
boot   == <<halting, bootStop, bootPc>>
edVars == <<editor, break_count, boot>>

Positions == 0..(MAX_UART_CMD_SIZE - 1)
Empty == [i \in Positions |-> NUL]

\* The buffer that holds line s and nothing behind it.
Buffer(s) == [i \in Positions |-> IF i < Len(s) THEN s[i + 1] ELSE NUL]

\* strlen(): the first NUL.
Strlen(b) == CHOOSE n \in Positions : b[n] = NUL /\ \A i \in 0..(n - 1) : b[i] # NUL
Text(b)   == [i \in 1..Strlen(b) |-> b[i - 1]]

EdInit ==
  /\ rx_buffer = <<>>
  /\ _cmd_buffer = Empty /\ _cmd_len = 0
  /\ prev_cmd = Empty
  /\ break_count = 0
  /\ halting = FALSE
  /\ bootStop = 1
  /\ bootPc = "wait"
  /\ typed = <<>> /\ moved = FALSE /\ prevMoved = FALSE

Read(r) ==
  /\ rx_buffer = <<>>
  /\ rx_buffer' = r
  /\ UNCHANGED <<_cmd_buffer, _cmd_len, prev_cmd, typed, moved, prevMoved,
                 break_count, boot>>

\* The next byte is c; n bytes of the read are used up.  The rest of the read is 0.
TakeByte(c, n) ==
  /\ rx_buffer # <<>> /\ Head(rx_buffer) = c
  /\ ~halting
  /\ rx_buffer' = SubSeq(rx_buffer, n + 1, Len(rx_buffer))

Byte(i) == IF i <= Len(rx_buffer) THEN rx_buffer[i] ELSE NUL

Clear ==
  /\ _cmd_buffer' = Empty
  /\ _cmd_len' = 0
  /\ typed' = <<>>
  /\ moved' = FALSE

LineFeed ==
  /\ TakeByte("LF", 1)
  /\ break_count' = 0
  /\ UNCHANGED <<_cmd_buffer, _cmd_len, prev_cmd, typed, moved, prevMoved, boot>>

\* Runs the command up to the NUL, wherever the cursor is, and keeps it.  At the
\* start of the line nothing is run, nor cleared.
CarriageReturn ==
  /\ TakeByte("CR", 1)
  /\ break_count' = 0
  /\ IF _cmd_len = 0
     THEN UNCHANGED <<_cmd_buffer, _cmd_len, prev_cmd, typed, moved, prevMoved>>
     ELSE /\ prev_cmd' = _cmd_buffer
          /\ prevMoved' = moved
          /\ Clear
  /\ UNCHANGED boot

\* Mutant: the length is taken back, the character is not erased.
BackspaceKeepsByte ==
  /\ TakeByte("BS", 1)
  /\ break_count' = 0
  /\ IF _cmd_len = 0
     THEN UNCHANGED <<_cmd_buffer, _cmd_len, typed>>
     ELSE /\ _cmd_len' = _cmd_len - 1
          /\ UNCHANGED _cmd_buffer
          /\ typed' = IF moved THEN <<>> ELSE SubSeq(typed, 1, Len(typed) - 1)
  /\ UNCHANGED <<prev_cmd, moved, prevMoved, boot>>

Backspace ==
  /\ TakeByte("BS", 1)
  /\ break_count' = 0
  /\ IF _cmd_len = 0
     THEN UNCHANGED <<_cmd_buffer, _cmd_len, typed>>
     ELSE /\ _cmd_len' = _cmd_len - 1
          /\ _cmd_buffer' = [_cmd_buffer EXCEPT ![_cmd_len - 1] = NUL]
          /\ typed' = IF moved THEN <<>> ELSE SubSeq(typed, 1, Len(typed) - 1)
  /\ UNCHANGED <<prev_cmd, moved, prevMoved, boot>>

ControlC ==
  /\ TakeByte("^C", 1)
  /\ break_count' = 0
  /\ Clear
  /\ UNCHANGED <<prev_cmd, prevMoved, boot>>

\* ESC [ and a letter: the byte behind the letter is used up as well.
Arrow(letter) ==
  /\ TakeByte("ESC", 4)
  /\ Byte(2) = "[" /\ Byte(3) = letter
  /\ break_count' = 0

Up ==
  /\ Arrow("A")
  /\ _cmd_buffer' = prev_cmd
  /\ _cmd_len' = Strlen(prev_cmd)
  /\ moved' = prevMoved
  /\ typed' = IF prevMoved THEN <<>> ELSE Text(prev_cmd)
  /\ UNCHANGED <<prev_cmd, prevMoved, boot>>

Down ==
  /\ Arrow("B")
  /\ UNCHANGED <<_cmd_buffer, _cmd_len, prev_cmd, typed, moved, prevMoved, boot>>

\* Stops one short of the end of the line.
Right ==
  /\ Arrow("C")
  /\ IF _cmd_buffer[_cmd_len + 1] # NUL
     THEN _cmd_len' = _cmd_len + 1 /\ moved' = TRUE /\ typed' = <<>>
     ELSE UNCHANGED <<_cmd_len, moved, typed>>
  /\ UNCHANGED <<_cmd_buffer, prev_cmd, prevMoved, boot>>

Left ==
  /\ Arrow("D")
  /\ IF _cmd_len > 0
     THEN _cmd_len' = _cmd_len - 1 /\ moved' = TRUE /\ typed' = <<>>
     ELSE UNCHANGED <<_cmd_len, moved, typed>>
  /\ UNCHANGED <<_cmd_buffer, prev_cmd, prevMoved, boot>>

\* An escape cut off by the end of the read, or of another key: what follows it
\* is taken as typed.
OtherEscape ==
  /\ TakeByte("ESC", 1)
  /\ ~(Byte(2) = "[" /\ Byte(3) \in {"A", "B", "C", "D"})
  /\ break_count' = 0
  /\ UNCHANGED <<_cmd_buffer, _cmd_len, prev_cmd, typed, moved, prevMoved, boot>>

Insert(c) ==
  IF _cmd_len >= MAX_UART_CMD_SIZE - 2
  THEN UNCHANGED <<_cmd_buffer, _cmd_len, typed>>
  ELSE /\ _cmd_buffer' = [_cmd_buffer EXCEPT ![_cmd_len] = c]
       /\ _cmd_len' = _cmd_len + 1
       /\ typed' = IF moved THEN <<>> ELSE Append(typed, c)

Dot(c) == bootStop = 1 /\ c = "."

Printable(c) ==
  /\ TakeByte(c, 1)
  /\ Dot(c) => break_count < 2
  /\ break_count' = IF Dot(c) THEN break_count + 1 ELSE 0
  /\ Insert(c)
  /\ UNCHANGED <<prev_cmd, moved, prevMoved, boot>>

\* The third dot: the test is made outside the critical section of the write.
ThirdDot ==
  /\ rx_buffer # <<>> /\ Head(rx_buffer) = "." /\ ~halting
  /\ Dot(".") /\ break_count = 2
  /\ halting' = TRUE
  /\ UNCHANGED <<editor, break_count, bootStop, bootPc>>

Halt ==
  /\ halting
  /\ bootStop' = 2
  /\ halting' = FALSE
  /\ break_count' = 0
  /\ rx_buffer' = Tail(rx_buffer)
  /\ Insert(".")
  /\ UNCHANGED <<prev_cmd, moved, prevMoved, bootPc>>

\* _cli_util_wait_for_user_input: the five seconds are over or the start is halted.
WaitOver ==
  /\ bootPc = "wait"
  /\ bootStop' = IF bootStop = 1 THEN 0 ELSE bootStop
  /\ bootPc' = "test"
  /\ UNCHANGED <<editor, break_count, halting>>

Test ==
  /\ bootPc = "test"
  /\ bootPc' = IF bootStop = 0 THEN "started" ELSE "halted"
  /\ UNCHANGED <<editor, break_count, halting, bootStop>>

EdNext ==
  \/ \E r \in Reads : Read(r)
  \/ LineFeed \/ CarriageReturn \/ Backspace \/ ControlC
  \/ Up \/ Down \/ Right \/ Left \/ OtherEscape
  \/ \E c \in Chars : Printable(c)
  \/ ThirdDot \/ Halt
  \/ WaitOver \/ Test

EdSpec == EdInit /\ [][EdNext]_edVars

--------------------------------------------------------------------------------
(* Properties. *)

\* If the cursor keys are left alone, the command run is the line as typed, with
\* erasures, lines that were too long, interrupts and recalled lines: nothing of
\* an older line shows behind its end.
LineAsTyped ==
  ~moved => _cmd_buffer = Buffer(typed) /\ _cmd_len = Len(typed)
================================================================================
