--------------------------- MODULE MCVirtualSwitches ---------------------------
(* Configurations of switches for TLC, after the examples of README.md. *)
EXTENDS VirtualSwitches

Switch(default, reset, types, open, close, trouble) ==
  [default |-> default, reset |-> reset, types |-> types,
   filtered |-> FALSE, filter |-> {},
   open |-> open, close |-> close, trouble |-> trouble,
   notify |-> {1}, formats |-> {"OPEN", "CLOSED", "TROUBLE"}]

StatusSwitch(k, v) ==
  Switch("UNKNOWN", 0, {"EVENT"}, {EventText(k, v)}, {EventText(k, ~v)}, {})

\* A 5800 sensor's reports: open, closed, open with a low battery.
RfxMessage(word) == [type |-> "RFX", raw |-> <<"RFX hex", word>>, text |-> <<"RFX", word>>,
                     events |-> <<>>]
VerMessage(word) == [type |-> "VER", raw |-> <<"VER", word>>, text |-> <<"VER", word>>,
                     events |-> <<>>]
ExpMessage == [type |-> "EXP", raw |-> <<"EXP", "1">>, text |-> <<"EXP", "1">>,
               events |-> <<<<"ZONE", "OPEN">>>>]
BootMessage == [type |-> "UNKNOWN", raw |-> <<"boot", "">>, text |-> <<"boot", "">>,
                events |-> <<>>]

RfxTexts(words) == {<<"RFX", w>> : w \in words}
RfxSwitch(reset, types, trouble) ==
  [Switch("UNKNOWN", reset, types, RfxTexts({"open"}), RfxTexts({"closed"}), trouble)
     EXCEPT !.filtered = TRUE, !.filter = RfxTexts({"open", "closed", "low"})]

\* "silent" has nothing to say and is not registered.
PanelConfig == [s \in {"alarm", "ready", "silent", "sensor", "pulse", "any", "version"} |->
  CASE s = "alarm"   -> StatusSwitch("ALARM", TRUE)
    [] s = "ready"   -> [StatusSwitch("READY", TRUE) EXCEPT !.filtered = TRUE,
                           !.filter = {EventText("READY", b) : b \in BOOLEAN}]
    [] s = "silent"  -> [StatusSwitch("ALARM", TRUE) EXCEPT !.formats = {}]
    [] s = "sensor"  -> RfxSwitch(0, {"RFX"}, RfxTexts({"low"}))
    [] s = "pulse"   -> RfxSwitch(2, {"RFX"}, {})
    [] s = "any"     -> RfxSwitch(0, {}, RfxTexts({"low"}))
    [] OTHER         -> Switch("CLOSED", 2, {"VER", "EXP"},
                               {<<"VER", "a">>, <<"EXP", "1">>}, {<<"VER", "b">>}, {})]

PanelMessages ==
  {RfxMessage(w) : w \in {"open", "closed", "low"}}
    \cup {VerMessage(w) : w \in {"a", "b"}} \cup {ExpMessage, BootMessage}

AlphaTexts == {<<"[", "alpha">>}

ASSUME OnlyStatusEvents
================================================================================
