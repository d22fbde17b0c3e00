----------------------------- MODULE HeldIndicator -----------------------------
(***************************************************************************)
(* What the parser promises of an indication it debounces (the fire bit,   *)
(* the beep count): once it was heard on the wire it stays on, and the     *)
(* first message that does not carry it more than Hold seconds later ends  *)
(* it.  No message, no end: nothing runs on a timer of its own.            *)
(***************************************************************************)
EXTENDS Naturals

CONSTANTS Ids,    \* one indicator per partition
          Hold    \* seconds an indicator outlives the last time it was heard

VARIABLES now,    \* clock, seconds
          on,     \* on[i]: the indicator is shown
          heard,  \* heard[i]: time it was last heard
          asked   \* asked[i]: time of the last message that might have carried it

vars == <<now, on, heard, asked>>

Init ==
  /\ now = 1
  /\ on = [i \in Ids |-> FALSE]
  /\ heard = [i \in Ids |-> 0]
  /\ asked = [i \in Ids |-> 0]

\* A message with the indication.
Hear(i) ==
  /\ on' = [on EXCEPT ![i] = TRUE]
  /\ heard' = [heard EXCEPT ![i] = now]
  /\ asked' = [asked EXCEPT ![i] = now]
  /\ UNCHANGED now

\* A message without it: it stays within the hold, and must go after it.
Miss(i) ==
  /\ on' = [on EXCEPT ![i] = @ /\ now <= heard[i] + Hold]
  /\ asked' = [asked EXCEPT ![i] = now]
  /\ UNCHANGED <<now, heard>>

Tick ==
  /\ now' = now + 1
  /\ UNCHANGED <<on, heard, asked>>

Next == Tick \/ \E i \in Ids : Hear(i) \/ Miss(i)

Spec == Init /\ [][Next]_vars
================================================================================
