------------------------------- MODULE MCCommands ------------------------------
(***************************************************************************)
(* Instances of what stands between the user and the panel: the command    *)
(* line's editor, the table that finds a partition, the commands, the web  *)
(* page's socket and what the parser's callbacks send.  Each is at rest    *)
(* while another moves; one run checks all, the component is chosen at the *)
(* start.                                                                  *)
(***************************************************************************)
EXTENDS PartitionTable, UartCli, Commands, PanelCallbacks, WebSockets, SdLog, TLC

VARIABLE component

allVars == <<component, vars, edVars, cmdVars, cbVars, wsVars, logVars>>

InitAll ==
  /\ component \in {"table", "editor", "commands", "callbacks", "web", "log"}
  /\ Init /\ EdInit /\ CmdInit /\ CbInit /\ WsInit /\ LogInit
  /\ component # "commands" =>
       panelType = "A" /\ partAddress = [n \in PartSlots |-> NoAddress]
  /\ component # "callbacks" => configFits
  /\ value[0] # NoValue /\ (component # "web" => value[1] = value[0])
  /\ component # "log" => uSDMounted

NextAll ==
  /\ UNCHANGED component
  /\ \/ /\ component = "table" /\ Next
        /\ UNCHANGED <<edVars, cmdVars, cbVars, wsVars, logVars>>
     \/ /\ component = "editor" /\ EdNext
        /\ UNCHANGED <<vars, cmdVars, cbVars, wsVars, logVars>>
     \/ /\ component = "commands" /\ CmdNext
        /\ UNCHANGED <<vars, edVars, cbVars, wsVars, logVars>>
     \/ /\ component = "callbacks" /\ CbNext
        /\ UNCHANGED <<vars, edVars, cmdVars, wsVars, logVars>>
     \/ /\ component = "web" /\ WsNext
        /\ UNCHANGED <<vars, edVars, cmdVars, cbVars, logVars>>
     \/ /\ component = "log" /\ LogNext
        /\ UNCHANGED <<vars, edVars, cmdVars, cbVars, wsVars>>

SpecAll == InitAll /\ [][NextAll]_allVars

--------------------------------------------------------------------------------
(* Constants. *)

\* Messages for all or some keypads of three partitions and for the system partition,
\* for keypads of two partitions, so that a key grows into another one, and one whose
\* mask has the sign bit.
PanelMasks ==
  {{}, {1, 2}, {1, 3}, {4}, {4, 5}, {8, 9}, {2, 8}, {1, 9}, {1, 2, 8}, {6, 7}}

\* Whole cursor keys with a byte behind them, and cut off ones.
SomeReads ==
  {<<".">>, <<".", ".", ".">>, <<"[">>, <<"BS">>, <<"CR">>, <<"LF">>, <<"^C">>,
   <<"ESC">>, <<"ESC", "[", "A", ".">>, <<"ESC", "[", "B">>,
   <<"ESC", "[", "C">>, <<"ESC", "[", "D", "CR">>}

\* The clients of the web page are alike, and so are the states it shows.
Alike == Permutations(Clients) \cup Permutations(Values)
================================================================================
