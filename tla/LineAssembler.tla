----------------------------- MODULE LineAssembler -----------------------------
(***************************************************************************)
(* What the parser's framing promises: the printable characters of a line  *)
(* are collected in order, the oldest are given up when the line is longer *)
(* than Capacity, an end of line hands over what was collected, and a line *)
(* with any other byte in it is given up as a whole.                       *)
(***************************************************************************)
EXTENDS Naturals, Sequences

CONSTANTS Chars,     \* printable characters
          Capacity,  \* longest message
          LossWrap   \* the count of lost characters wraps here

VARIABLES line,      \* what was collected of the current line
          message,   \* the last message handed over
          lost       \* characters given up because a line was too long

vars == <<line, message, lost>>

Init ==
  /\ line = <<>>
  /\ message = <<>>
  /\ lost = 0

Collect(c) ==
  /\ Len(line) < Capacity
  /\ line' = Append(line, c)
  /\ UNCHANGED <<message, lost>>

CollectLosingOldest(c) ==
  /\ Len(line) = Capacity
  /\ line' = Append(Tail(line), c)
  /\ lost' = (lost + 1) % LossWrap
  /\ UNCHANGED message

\* Only a line with something in it is a message.
HandOver ==
  /\ line # <<>>
  /\ message' = line
  /\ line' = <<>>
  /\ UNCHANGED lost

GiveUp ==
  /\ line' = <<>>
  /\ UNCHANGED <<message, lost>>

Next ==
  \/ \E c \in Chars : Collect(c) \/ CollectLosingOldest(c)
  \/ HandOver
  \/ GiveUp

Spec == Init /\ [][Next]_vars
================================================================================
