# AlarmDecoder-IoT in TLA+

AlarmDecoder-IoT is ESP32 firmware that reads the byte stream of an AlarmDecoder
(AD2\*) attached to an alarm panel, keeps a virtual copy of the panel's partitions,
and passes what happens on: to HTTP services, MQTT, a web interface and TCP clients.
This directory holds TLA+ modules translated from its source, TLC runs on small
instances, and proofs checked by TLAPS. `src/` below is the repository root;
`PROJECT.json` names, for each definition, the lines it stands for.

Contents: 1 the system, 2 hard behaviour, 3 the modules, 4 the runs, 5 the proofs,
6 disagreements, 7 what is not modelled, 8 what is left.

## 1. The system

Everything starts at bytes. A source task (UART, or a TCP client of a remote
ser2sock) reads a chunk and calls `AlarmDecoderParser::put`. `put` runs to the end
in the caller's task: it cuts the stream into lines, decodes each line, updates the
partition it is about, and calls every subscriber before it takes the next byte. Any
work that may block is handed to another task through a queue or a table.

    source task ──put──▶ framer ──line──▶ raw/type subscribers ──▶ ser2sockd, webUI
                                   │
                                   ├─ mask ▶ partition table ▶ state ▶ ON_* subscribers
                                   │                                    (webUI, MQTT, stsdk)
                                   └─ every announcement ▶ virtual switches
                                                             │ state changed
                                                             ▼
                                             twilio, pushover ──▶ http sendQ ──▶ sendQ task
    console tasks (UART, network) ──settings, g_StopMainTask, console lock──▶ all of them

| component | state | operations | what must be right |
|---|---|---|---|
| framer (`alarmdecoder_api.cpp` 710-830, 1429-1446) | parser state, ring of `ALARMDECODER_MAX_MESSAGE_SIZE`, two `int8_t` positions, loss counter | `put` | messages are the lines; positions stay in the ring; `put` returns; no empty message |
| parser (`alarmdecoder_api.cpp` 840-1491) | `AD2PartitionState` per partition: status bits, fire and beep timers, zones with two timers each; panel mode | keypad, EXP, CONFIG messages, zone sweep | no silent change; holds hold and end; zones close for a reason |
| partition table (583-631, `alarmdecoder_main.cpp` 1043-1070) | map from address mask to state | `getAD2PState`, slots of the configuration | an address finds the state its messages update |
| virtual switches (419-557) | `current_state_` of each `AD2EventSearch` | `notifySearchSubscribers` | switch and component agree; one call per message |
| notifications (`twilio.cpp`, `pushover.cpp`, `ad2_utils.cpp` 2045-2164) | account settings, request objects, bounded queue | match callback, consumer task, ready and done handlers, settings | requests neither leak nor are freed twice; in order; served |
| ser2sockd (`ser2sock.cpp`) | socket table, FIFO per client, listening socket, shutdown flag | `ser2sockd_sendall`, server task, shutdown handler | no gap in a client's stream; a socket has one owner; slow clients go |
| source tasks (`alarmdecoder_main.cpp`), ad2term | socket, connection | read, reconnect, take over by a terminal | the panel's data reaches the parser after any loss; no socket lost |
| main, start-up (`alarmdecoder_main.cpp`) | `g_init_done`, `g_StopMainTask` | `app_main`, halt by key, callbacks that send by themselves | halted means halted; the panel is not flooded |
| console lock (`ad2_utils.cpp` 2222-2296) | mutex, flag, last owner | take, give | one writer, which holds the mutex |
| SD log (`ad2_utils.cpp`) | ring in memory, queue, two files | write, rotate, list, enable, disable | nothing lost unseen |
| configuration store (`ad2_utils.cpp`, `device_control.cpp`) | configuration in memory, a dirty flag, two files | get, set, remove, save, factory reset | a start finds what was saved |
| ACL (`ad2_utils.cpp`) | list of ranges | add, find, clear | admits what it lists |
| commands (`ad2_utils.cpp`, `ad2_cli_cmd.cpp`) | none of their own | arm, disarm, panic, bypass, keypad | the right partition ends in the wanted state |
| UART command line (`ad2_uart_cli.cpp`) | line buffer, previous line, boot window | edit, recall, run | what runs is what was typed |
| network command line (`network_cli.cpp`) | client, redirected output | accept, password, run | output only to who has proved himself |
| web interface (`webUI.cpp`) | server, TLS session counter, WebSocket sessions, history ring | start, stop, SYNC, commands, events | sockets that change hands; counters; current state shown |
| MQTT (`ad2mqtt.cpp`) | connection, outbox of the library | connect, announce, publish | retained state is current |
| SmartThings (`stsdk_main.cpp`) | attributes, press counters | callbacks, refresh, buttons | the cloud follows; three presses |
| OTA and SD update (`ota_util.cpp`, `usdupdate.cpp`) | task handles, failure counter, flash partition | poll, update | no downgrade; a file is removed when its image is safe |
| FTP daemon (`ftpd.cpp`) | connection, login, directory, data sockets | commands | work is for who logged in |
| HAL (`device_control.cpp`) | event group | Wi-Fi, Ethernet, IP events | connected means an address |

## 2. Hard behaviour

- **Order of updates and events inside `put`.** Some fifteen status bits, a beep count
  and the zones are compared, restored from the last state, held and swept, on paths
  that differ for the first message, the panel type and the partition. A value stored
  on one path without its event leaves every subscriber stale.
- **Timeouts without a timer.** Holds and zone timers are looked at only when a
  message arrives, and some are looked at for *other* partitions.
- **Keys that are learnt.** Partition states move from mask to mask as messages show
  which keypads belong together.
- **Tasks.** The parser's task, the sendQ task, the ser2sockd and web server tasks, the
  SmartThings SDK, updaters, log writer, consoles and the restart handler share settings,
  request objects, sockets, files and the flash.
- **Limits.** A ring of at most 127 bytes indexed by `int8_t`, a queue of 20 requests
  that is never waited for, a FIFO of 30 buffers per client, mutexes waited for with a limit.
- **Partial failure.** Requests that fail, `send` that takes part of a buffer, sockets
  that die between two calls, networks that come and go, cards that are pulled.
- **Crashes.** The power may fail between the writes of an image, its selection and the
  removal of the file, between a change of the configuration and its save, and between the
  steps of a save or a factory reset.
- **Numbers that come back.** A socket number, a task handle or a flag read before a call
  may belong to somebody else after it.

`PROJECT.json` lists each hazard at its line with the properties that cover it, or why
none does.

## 3. The modules

Each module keeps the source's names for its variables and operations. Mutants —
operators commented `Mutant:` just before the definition they replace — are plausible
bugs; each property has one that it catches.

### MessageFramer, LineAssembler
One step is one turn of the loop in `put`; a turn may leave its byte in place. `ring_buffer`,
both positions and `ring_error_count` are the C++ members; `Put` is a call with a chunk.
`Int8` is the narrowing of the position. `LineAssembler` is the abstract specification:
a line collects characters up to `Size - 1`, loses the oldest beyond that, is handed over
at an end of line if not empty, or given up. The refinement maps `line` to the ring's
content between the two positions. Bytes are classes: some printable ones, an end of line
(CR and LF act alike), and any other byte. Left out is the test that resets `qin` at the
end of the ring before a store: `TypeOK` shows that it never fires.

### AlarmDecoderParser, HeldIndicator
`Alpha(p, m)` is all of `put` for a keypad message for partition `p`: new flags, held
indications, events, zone tracking, sweep of all partitions. `Exp` is a DSC expander
message, `Config` the panel mode from a `!CONFIG` message, `Tick` the clock. A message is
the record of what `put` reads from it. `unknown_state`, `fire_timeout`, `beeps`,
`beeps_timeout` and `zone_states` are the members of `AD2PartitionState`; its Boolean
members are the set `flags[p]`. History variables: `told*` is what a subscriber knows from
events alone, `last*` when something was last heard. `filter_zero` is the uninitialised
`address_mask_filter` of the system partition: `Init` chooses. `HeldIndicator` states what
a debounced indication promises: a message that carries it (`Hear`) shows it, and a message of
the partition that does not (`Miss`) keeps it within the hold and must end it after the hold.
`asked` is the time of the last message, which ties its steps to the messages: a step that
leaves an overdue indication on is neither, and no stutter. Fire and beeps are shown to
implement it. Nothing ends one without a message, in the code and in the module.

### PartitionTable
`AD2PStates` is the map; `Lookup` and `Update` are `getAD2PState` without and with
`update`; `Configure` is the loop of `app_main` over slots, `Alpha` the lookup of a keypad
message. A mask is a set of bits, compared as a number (`Below`). `home` records for each
address the state its last message updated. `Received` is what `strtol` makes of a mask. Any
masks may come; `tainted` records the addresses of states that a message has mixed up, because
its mask overlaps several keys or was not read as it was sent.

### VirtualSwitches
A message becomes a sequence of announcements (`Message`, `Alpha`), which `Search` takes
one at a time through all switches, as `notifySubscribers` and `notifySearchSubscribers`
do. Texts are pairs of strings, an expression is the set of texts it matches. `told` and
`calls` record the callbacks. The `put` of another message starts when the last one is done,
since a single task runs it.

### NotificationQueue
`Match` is a switch calling its component; `Enqueue`, `Drop`, `SkipDisabled` and `AbortUnknown`
are the turns of the callback's loop; `Poll`, `Receive`, `Ready`, `Perform`, `FollowUp`,
`Done` are the consumer task; `SetType`, `SetDisabled` the command line; `Network` and
`Console` the two conditions the consumer tests. A request object is a record while it is
allocated and `Free` after `delete`.

### Ser2sockd
A step is one critical section of `fds_mutex`, or what lies between two: `_cleanup_fd` is
`CleanUp` (under the mutex) and `Close` (after it); `_add_fd` is `TestFlag` and `Place`;
`_poll_read_fdset` copies a descriptor (`PollRead`) and uses it later (`Recv`, `Accept`).
Sockets are numbers of which the lowest free one is given out, so a stale number may name
another client. `sent` and `reached` count bytes of the panel's stream. Which descriptors
`select` reports is decided where each is tested. Received bytes go to `ad2_send` and are
left out, as are the ACL (a rejected client is closed at once, which is `AcceptNone`),
the command line and the memory of the FIFO tables.

### HostConsole, PanelSource, NetworkCli, NetworkLink
The host's lines to the outside. `HostConsole` has the reads and writes of
`ad2_take_host_console` and `ad2_give_host_console` one by one, because `LAST_OWNER` and the flag
are used outside the mutex; three tasks print, the command line takes the console around its own
printing, and the first line it prints inside gives the console for good (`spool`). Help and the
lines of the log are written without taking it (`WriteBare`). `PanelSource` is `app_main` up to `g_init_done`, the
two source tasks and any number of terminals (`ad2term`), which stop the source task and read themselves; `fate`
records whether what the panel sent was parsed, printed by a terminal or thrown away. `NetworkCli` is the network
command line's task with its password and its redirected output, where `top` and `ad2term` are dialogs that only a
byte of the client ends; `NetworkLink` the event handlers of `device_control.cpp`, with the events that wait while
the link changes again.

### WebServer, WebSockets, WebHistory
`WebServer` starts and stops the server as network and certificates come and go, with the session
counter the server's task keeps and the first task clears. `WebSockets` has the WebSocket
connections: SYNC, state frames sent by the server's task and by the parser's callback, commands,
slots without a state, and sockets that go to another client. What can leave a client behind is
recorded by client: `missed` (network down), `overtaken` and `misled` (the two races). `WebHistory` is the ring of
events behind a mutex that both sides give up waiting for.

### Mqtt, OtaCheck, Firmware, SmartThings, PanicButtons, Ftpd
`Mqtt` puts the announcement, states and releases in an outbox that sends in order, repeats after a
reconnect, lets messages expire and takes none when it is full, which callers only log (`Publish`,
`lost`); the broker retains and publishes wills. `OtaCheck` is the
polling task. `Firmware` is both updaters, step by step from the test of the handle to the restart,
on one flash partition, with power failures and a file that is replaced. `SmartThings` is the
attribute callbacks and the refresh that races them, `PanicButtons` the press counter and its timer.
`Ftpd` is the daemon: one client served, others turned away or ending it, login, directory, rename
in two commands, passive and active data sockets. The daemon waits for its client in the middle of
a line, for the connection of a passive transfer and for the end of a received file (`Held`); nothing
makes the client come.

### Settings, SdLog, AddressList, Commands, UartCli, PanelCallbacks
`Settings` follows a configuration, as the set of keys with a value, from the file that is read to the
file that is written, through a save and a factory reset in the steps between which the power may
fail. `SdLog` has the ring in memory with its reader, the queue, the writer task with
rotation, and each call of the file system failing. `AddressList` computes the ranges of
`ad2_acl_check` with its byte arithmetic, on bytes of few bits, against a reference on bits.
`Commands` goes from a slot to the message, which may be lost, and to the panel, where somebody
may use the keypad; `UartCli` is the line editor
byte by byte with the boot window, `PanelCallbacks` what `alarmdecoder_main.cpp` sends by itself.

### How they compose
`MCHost`, `MCServices` and `MCCommands` extend several components. These share no variable: one is chosen
in `Init` and moves while the others are at rest, so that one run checks them all over the sum of
their state spaces, not the product. Where components do interact (parser and zones of
other partitions, consumer and callback, server task and producer, source and terminals, updater and
updater), the interaction is inside one module.

## 4. The runs

Ten runs pass; two end in a violation that is a disagreement of the repository with itself (section 6).
Each type invariant is proved (section 5) instead of run, except where a module has none. Every property
has a mutant, an operator in the module it is about, under which TLC finds it violated.

Bounds: the clocks (`MaxTime`, `MaxClock`), what is made in a run (`MaxRequests`, `MaxSent`, `MaxStates`,
`MaxData`, `MaxEvents`, `MaxUpdates`, `MaxEntries`, `MaxLines`, `MaxBytes`, `MaxWork`), releases
and pieces of an image (`MaxVersion`, `Chunks`). They guard the actions that count up and nothing else.
`MaxOutbox` is a limit of the library, at which it refuses a message.
Deadlock is checked in the runs of the parser, framer, switches, queue and ser2sockd; the three composed
runs say `CHECK_DEADLOCK FALSE`, since a component of theirs may have used up its bound or, like a
halted start or a shut down device, really has stopped.

| run | properties | instance and why it is enough |
|---|---|---|
| framer | `AssemblesLines` | ring of 4: lines of 0 to beyond 4 characters, cut in all positions; two different characters, so order and loss show; wrap of the loss counter at 3 |
| parser_zones | `SubscribersInSync`, `NoOverdueZone`, `ZoneClosesForAReason` | two partitions and one zone number in each, timeout 1, three seconds: report, expire, be swept by the other partition's message, report again |
| parser_panels | `DSCZonesFollowExpander` | both panel types in turn, three partitions, a zone in two lists and one in none |
| parser_alarm | `IndicatorsAreHeld` | hold 2 and 1 over six seconds: every order of fire, bell and beep bits, extended and expired |
| switches | `SwitchesFollowPanel`, `ComponentsInSync`, `OneCallPerMessage` | six switches: on ALARM and READY, on RFX with and without a type filter and a reset time, on VER and EXP with a default; one more that has nothing to say and is not registered |
| queue | `RequestsAreHandledOnce`, `RequestsAreServed` | two accounts, a queue of two, three requests: one in hand, a full queue, a follow-up, settings that change at any step |
| ser2sockd | `StreamHasNoGap`, `SocketsAreOwnedOnce`, `SlowClientsAreClosed` | two clients, FIFO of two, buffers of two bytes, four sockets: a full FIFO, a buffer sent in parts, a number reused after a close |
| commands | `LookupFindsHome`, `SlotsAreSeparate`, `LineAsTyped`, `LastCommandWins`, `PanelIsSpared`, `ClientShowsPartition`, `CommandIsForOwnPartition`, `LogIsComplete` | partition table: two slots, the system partition, keypads that come alone and later together, masks that bridge two keys, a key that grows into another, one mask with the sign bit; editor: a buffer of four, whole, cut and foreign escapes; commands: one slot whose address is changed between two, both panels, two messages on their way, each taken or lost, a keypad; callbacks: 80 s in steps of 5, the wait of the fault key several times over; web: two clients on one socket, so every connection takes over a number, two partitions with and without a state; log: a ring of three, a queue of two, files of two, five lines, so each overflows |
| services | `HistoryIsLatest`, `CloudFollowsPanel`, `PanicTakesThreePresses`, `AdmitsWhatItLists`, `UpdatesAreSafe`, `StartFindsSettings` | history: a ring of three that wraps; SmartThings: two attributes, and presses with a timer of period 2; ACL: all lists of one entry over three bytes of two bits, all lengths; updaters: two starters of one kind and one of the other, three releases (see below); configuration: three kinds of keys, both files there or not, power failures between all steps |
| host | `WriterHoldsConsole`, `DataReachesParser`, `IoSocketIsProved`, `ClosedPeerIsLeft`, `BitsFollowLink`, `LinkIsJoined`, `NewReleaseIsFound`, `PartitionIsShown`, `ReconnectRestores`, `ServerComesBack`, `WorkIsForLogin`, `FtpClientIsServed` | three tasks on the console, one of them nested; both kinds of source with a terminal; a password of two letters; four waiting link events; an outbox of two, so that each of the announcements may be refused; two TLS sessions; two FTP clients, a directory and a name |
| link_closed | `StaysConnected` (violated) | the source on a ser2sock server that closes the connection |
| ota_signed | `SignedImageIsInstalled` (violated) | one image with the right signature, in two pieces |

Three releases (0 to `MaxVersion`) are needed for the updaters: with two, no release can be older than the selected one and
newer than nothing at the same time, and an unsafe order stays hidden (section 6, hazard 1 of the updaters).
Pieces of an image matter only as "some" and "all", so one piece does there; the proof covers any number of
both.

What they show, beyond types:

- `SubscribersInSync`: from events alone a subscriber knows every flag, beep count and
  zone of every partition.
- `NoOverdueZone`, `ZoneClosesForAReason`: the sweep misses no timer of any partition, and
  a zone that is still reported does not close.
- `DSCZonesFollowExpander`: an expander message moves, and announces, its zone in one partition, the first that
  lists it (the comment at `alarmdecoder_api.cpp` 866 says in every one, section 6), and a change of panel type
  never mixes the two ways to track zones.
- `IndicatorsAreHeld`: fire and beeps stay within their hold, and the partition's first message after it ends them.
- `SwitchesFollowPanel`: between messages a switch on a status shows what some partition
  really has, though most statuses of a first message are not announced.
- `OneCallPerMessage`: a switch on message types calls once, however often a message is
  announced. It does not hold, and is not claimed, for a switch on events with a reset time.
- `RequestsAreHandledOnce`: with a full queue, failures and follow-ups, every object has one owner and
  requests leave in order.
- `StreamHasNoGap`: a client's stream is whole up to the moment it is marked as slow, also while partial
  sends are under way. `SocketsAreOwnedOnce`: two tasks clean up the same table and still no socket is
  closed twice or while the table names it.
- `LookupFindsHome`, `SlotsAreSeparate`: whatever masks come, an address leads to the state its messages
  update, and slots stay apart; a message that mixes two states up spoils these, as the code has it, and no other.
- `LineAsTyped`: without cursor keys the command run is the line typed, erasures and recalled lines included.
- `LastCommandWins`: on both panels the last command decides, whatever reports cross it; but for what section 6
  has: lost messages, and a DSC panel disarmed before it has reported that it was armed.
- `PanelIsSpared`: what the callbacks send by themselves comes neither in bursts nor in a loop.
- `ClientShowsPartition`, `CommandIsForOwnPartition`: a WebSocket shows the state of the partition its client
  follows, but for the two races of section 6, of which the first leaves an older state of the right partition, and
  a command is for the partition its client chose, whoever had the number before.
- `LogIsComplete`: each line is on the card, in a counter the status shows, or was never to be written.
- `HistoryIsLatest`: an answer is the newest events, whole, in order.
- `AdmitsWhatItLists`: prefixes and ranges computed byte by byte are those on bits; it fixes the lengths 0,
  whole bytes and the whole address.
- `UpdatesAreSafe`: no downgrade, and no file removed whose image is not in flash, over power failures at every
  step; excused are a file that was changed, an OTA update that met another, and, for the file, another updater that
  has erased the partition since.
- `StartFindsSettings`: a start finds what the last save or reset that went through left, the power failing
  between any two steps.
- `PartitionIsShown`: whatever the outbox repeats, loses with a connection or refuses, it ends with the newest
  state it took.
- `DataReachesParser`: what the panel sends is parsed and not thrown away, and the source connects again after any
  number of broken connections.
- `WriterHoldsConsole`: the shortcut around the mutex lets nobody in who does not hold it, and the command line
  keeps its outer take up to its first line.
- `PanicTakesThreePresses`: two presses and a timer that runs out at the wrong moment raise no panic.
- `IoSocketIsProved`, `WorkIsForLogin`: rights do not outlive the connection that earned them.

**Fairness.** FreeRTOS schedules every task that is ready; each task below is fair as a whole, and which
result a call has is never fair. The sendQ task waits at most 100 ms before it tests the network again, and the
HTTP client ends each request by its timeout (queue: weak fairness of `Callback` and `Consumer`). The ser2sockd
server task makes non-blocking calls, with a `select` of 20 µs (`Server`). The source tasks read with a timeout
(`SourceTask`, `Boot`), a terminal's user leaves it at some time (`TermEnd`). The network command line reads with a
timeout of a second and every command ends but the dialogs `top` and `ad2term` (`NetTask`); nothing is expected of its
client. Link events are handled in their order
(`Handler`), the driver reports (`Driver`). The polling task of the updates wakes up (`Turn`, `Skip`, `DaysOver`).
The MQTT library sends, connects and expires; that a later check announces a release again is strong fairness,
since a connection may come in between. The web server's task sleeps for ten seconds at most; the library looks
at its control socket in every round (strong fairness of `StopTold`, which sessions may delay round by round).
FTP connections are accepted in the order they came (strong fairness for each client); what the daemon can do without
its client is fair (`FtpTask`), a connection, a byte or an end of its client is not. Environment conditions
are premises of the properties, `<>[]`: the network stays, the console is closed, the server offers a release; and
`[]<>~Held`: no client holds the FTP daemon for ever.

## 5. The proofs

TLAPS proves, for every value of the constants that satisfies the named assumptions:

| theorem | statement | argument |
|---|---|---|
| `TypeCorrect` | parser: `[]TypeOK` | by actions; one type lemma per helper |
| `InSync` | `[]SubscribersInSync` | inductive with `TypeOK`; `ChangeIsSent`: a flag that differs is of a kind that is sent; `ZoneChangeIsSent` likewise through tracking and sweep |
| `ZonesNotOverdue` | `[]NoOverdueZone` | inductive with `LowBatteryIsTimed`: a zone with a low battery has a timer. Without it a sweep could meet a low battery that no timer ends |
| `ZonesCloseForAReason` | `ZoneClosesForAReason` | inductive with `ZoneRunsOnTimer`: a faulted zone's timer, if it has one, was started by its last report. `AlphaMovesZone` goes through tracking and sweep; a zone opened by an expander message has no timer and is never swept |
| `DSCZonesAreExpanded` | `DSCZonesFollowExpander` | an expander message moves one zone of one partition, the smallest whose list has it (`ExpTellsZone`, `ExpanderZoneIsShown`, by the well-foundedness of the naturals), and tells it there and nowhere else; keypad messages of a DSC panel track none |
| `FireHeld`, `BeepsHeld`, `IndicatorsHeld` | `Spec => IndicatorsAreHeld` | refinement of `HeldIndicator`, twice, its duty to end with the first message after the hold included; needs `FireRunsOnTimer` and `BeepsRunOnTimer`: what was heard has its timer exactly the hold after it was last heard |
| `FramerTypeCorrect`, `MessagesNotEmpty` | `[]TypeOK`, `[]NoEmptyMessage` | one invariant `IInv` with `OnlyChars`: between the positions the ring holds characters only |
| `RingAssemblesLines` | `Spec => AssemblesLines` | refinement of `LineAssembler` for every ring of 2 to 127 bytes; `StoreCollects`: storing a byte appends to the content, or to its tail when the ring is full |
| `SwitchTypeCorrect`, `SwitchesInSync` | `[]TypeOK`, `[]ComponentsInSync` | for every configuration of switches |
| `SwitchesFollow` | `[]SwitchesFollowPanel` | inductive with `Follows(k)` for each status: what is still to be searched about a status is so in some partition, and a switch that knows anything is right or has such an announcement before it. Assumes `OnlyStatusEvents`: no keypad text and no other message reads like a status event |
| `OneCallForEachMessage` | `[]OneCallPerMessage` | inductive with `CallsAreLast`: only the last announcement of a message is not an event |
| `TableTypeCorrect`, `LookupCorrect`, `StatesAreSeparate` | `[]TypeOK`, `[]LookupFindsHome`, `[]SlotsAreSeparate` | one invariant `TableInv`, with `KeysAreDisjoint`, `TaintIsWhole`, `HomeIsStored`, `IdsCountUp` (at most as many keys as states made: while they are as many, the size of the table is a new id) and `SlotsAreStored`, each of the addresses that no message has mixed up. For any masks; `TaintIsWhole` keeps the damage of a mask that bridges keys to their addresses |
| `LastCommandWon` | `[]LastCommandWins` | inductive with `WantedIsOnItsWay`: for each partition, unless it is in `unsure`, the last message on its way that decides about it says what is wanted, or none is on its way and it is done. Both panels; `unsure` has the partitions of which a message was lost, that a keypad changed, or that a DSC disarm passed over |
| `PanelSpared` | `PanelIsSpared` | inductive with `CbInv`: an alert that stands was raised after the key was sent last, and the settings are sent by a boot that then protects itself |
| `LogLosesNothingUnseen` | `[]LogIsComplete` | `FilesInv` (both files and the queue are in order, one after the other), `CountersInv`, `RingInv` (d slots before the head is the d-th newest line) and `ViewInv`: the slots a reader has before it hold the lines of its start, or, from the oldest on, later ones. `Slots` has the modular arithmetic of a ring once, for both rings |
| `HistoryIsRight` | `[]HistoryIsLatest` | `HistoryTypes` (who holds the mutex is where it must be), `RingHolds` (as `RingInv`, but the oldest slot is overwritten before the head moves) and `AnswerInv`: the answer so far is what matches among the newest `offset` events |
| `RequestsHandledOnce`, `QueueTypeCorrect` | `[]RequestsAreHandledOnce`, `[]TypeOK` | the ids in the queue rise, all above what is in hand, which is above what was sent: so a request is in one place, and the order of sending follows |
| `SocketsOwnedOnce`, `StreamsHaveNoGap`, `ServerTypeCorrect` | `[]SocketsAreOwnedOnce`, `[]StreamHasNoGap`, `[]TypeOK` | one invariant `Inv`. `SockInv`: what a task has in hand is `Loose`, open and in no slot, and no two tasks have the same; the listening socket is loose before it is bound. `StreamInv` of each slot, kept by a buffer that is added (`QueuedKeeps`) and by one that is sent in part (`RestKeeps`) |
| `ConsoleHasOneWriter` | `[]WriterHoldsConsole` | inductive with `OwnerHoldsMutex`: who is the last owner, and the flag set, holds the mutex or has just given it. About lines and the outer take; what is written without a take is in the specification and not in the promise |
| `SourceLosesNoSocket` | `[]NoSocketIsLost` | by the place of the source task and of the terminals |
| `IoSocketProved` | `[]IoSocketIsProved` | by the place of the session |
| `SessionsCounted` | `[]SessionsAreCounted` | while the callback counts, the counter is one off in a known direction |
| `WorkForLogin`, `FtpSocketsKnown` | `WorkIsForLogin`, `[]FtpSocketsAreKnown` | who is served, is logged in, and where, agree with the history of its commands |
| `ClosedPeerLeft` | `[]NetTaskEnabled => ClosedPeerIsLeft` | three places in order, command, read, leave: no step goes back while the client is gone, each step of the task goes on, or it is in a dialog |
| `DataReached` | `[]SourceTaskEnabled => DataReachesParser` | assumes `OneTerminal`. `Restored`: once the start is over the source is stopped only by a terminal that gives it back. While nothing disturbs the source, what waits is taken by a read and by nothing else, after at most one test of the network; and from each place of the task the next try to connect is reached |
| `FtpClientsServed` | `[]FtpTaskEnabled => FtpClientIsServed` | if no client holds the daemon for ever, its places lead to where it accepts, again and again; there strong fairness takes this client |
| `SettingsFound` | `StartFindsSettings` | what is expected is what the file a start would read holds (`Stored`), which needs that the card is saved to exactly where it was read from; a file that is being written, or that a reset has removed, promises nothing until the step that ends it |
| `UpdatesSafe` | `UpdatesAreSafe` | an image in flash is whole, of the release its updater read, and newer than the one running, as long as no OTA update and no other file came in between; and it is still there when the file is removed, unless another updater has erased or overwritten it (`spoiled`); the power failing at any step |
| `BitsAreRight` | `[]BitsFollowLink` | inductive with `LinkInv`: the last queued event that will decide the bits fits the link and the address, or the bits do if none is queued |
| `BrokerShowsPartition` | `[]PartitionIsShown` | inductive with `OutboxInv`: the last queued message about the partition has its state unless a newer one was refused or expired, the last one sent is what the broker retains |
| `PanicNeedsThreePresses` | `[]PanicTakesThreePresses` | inductive with `ButtonInv`: a count of two stands for two presses, the later of which set the timer and the earlier of which it was running for; presses are counted as a set |
| `CloudIsRight` | `[]CloudFollowsPanel` | an attribute that differs has its callback pending, or is excused |
| `CommandsForOwnPartition` | `[]CommandIsForOwnPartition` | a session of a socket is its present client's |
| `ClientsShowPartitions` | `[]ClientShowsPartition` | inductive with `ShowInv`, over `SessionInv`: each connection that chose a partition with a state shows it (`Shown`), or a call, a work item or a frame for it is on its way (`Awaited`), or one of the two races or the network has it excused (`Served`) |
| `ListAdmitsItsOwn` | `[]AdmitsWhatItLists` | inductive with `AclInv`: a lookup tests the network of the entry. A mask is a shift repeated; that it keeps the leading bits (`ShiftedMask`) is by the least number of shifts at which it would not (`ShiftedOnes`). A bit that differs from the prefix puts its byte below the first or above the last address of the network (`NetworkOfPrefix`), so the lookup refuses; and addresses that are in order byte by byte are in order at the least byte they differ in |
| `EditorHoldsLine` | `[]LineAsTyped` | both buffers end in two NULs (`Fits`), so that `Strlen` is in them and the cursor stays in them; `Strlen` by the well-foundedness of the naturals |

The theorems are about the specification of one component each (`Spec`, `ConSpec`, `FwSpec`, ...), of which a
composed run checks the same actions.

Every safety property of the runs is proved, as an invariant or an action property. What is only model-checked:

- Liveness whose argument counts something down stays with TLC: `RequestsAreServed`, `SlowClientsAreClosed`,
  `LinkIsJoined`, `NewReleaseIsFound`, `ReconnectRestores`, `ServerComesBack`. A queue, the clients, the updates still to
  come or the open sessions are of any number, and an induction over temporal formulas is out of the provers' reach.
- ENABLED. Three liveness properties go through finitely many places, and their theorems prove the whole chain from the
  fairness of the specification. What they leave as a premise (`NetTaskEnabled`, `SourceTaskEnabled`, `FtpTaskEnabled`)
  is only that the fair action is enabled where its guard holds, which follows from how the action assigns each variable
  once and changes one, but for which the provers have no rule. TLC evaluates ENABLED, and finds each premise an
  invariant of the instance in `MCHost`; it checks the properties themselves there without any premise.

Assumptions that a theorem adds to those of the modules are in its ASSUME and hold in the instances:
`OnlyStatusEvents`, which `MCVirtualSwitches` asserts, and `OneTerminal`: with two, `DataReachesParser` may fail (section 6).

What the proofs changed: `RecentIsNewest` said of a line that replaces one in a reader's list that it is `RingSize` newer,
which fails when the writer laps a slow reader twice; it now says that it is newer than all there were. A
switch that `SwitchesFollowPanel` is about (`Watches`) must let both words of its status through its filter: with a filter
that passes one word only it stays at the other. `VirtualSwitches` types the events a message causes
(`EventsAssumption`) and lists the announcements of a keypad message one after another instead of filtering an order;
`HistoryIsLatest` is stated of the elements of the answer, `PanicTakesThreePresses` with a set of presses instead of
a recursive sum. A byte of an address was a number in `AddressList` and is now the bits it has, compared at the first bit
that differs: the provers know nothing of powers of two, and the masks of `ad2_acl_check` are about bits. A prefix length
is kept in a byte, whose values are the constant `LengthValues`.

## 6. Disagreements

Two runs end in a violation; each is a statement of the repository that the code does not keep.
`PROJECT.json` quotes the lines.

1. *link_closed*: a connection that the ser2sock server closes is never opened again while the network is up.
   `recv` returns 0, which is taken for data (`alarmdecoder_main.cpp` 864).
2. *ota_signed*: no image passes the signature check. The digest function returns 1 for success and the caller
   tests for 0 (`ota_util.cpp` 381).

Others were met while modelling. The models follow the code; where a property would fail it excuses exactly the
case named here, and no run is spent on it.

*Parser and table* (`alarmdecoder_api.cpp`)
- `address_mask_filter` of the system partition has no initial value (1053).
- The first message of a partition may raise BEEPS and EXIT besides READY (1194, 1201; `CHANGELOG.md`
  413 says READY only), and a fire in it has no timer, so the next message without the bit ends it
  (1101). READY does not end a fire (1107 says it does).
- A partition disarmed during the exit countdown stays in exit mode and no longer tracks zones (1063). A zone's
  low-battery report opens the zone (1058, 1312).
- Keypads addressed alone first and together later leave one address with a state that is no longer updated (600). A mask
  that overlaps two keys joins the first of them only; if the key that grows is then another one of the table, its
  state is replaced (612): it is lost, with its slot if it had one, and never freed, and ids, which are the size of
  the table (619), repeat. `LookupFindsHome` and `SlotsAreSeparate` excuse the addresses that were mixed up, and
  `PartitionIdsAreUnique` all ids from a replacement on.
- A DSC zone in the lists of two partitions moves and is announced in the first only: "send a notification for every
  matching partition" (866), then `break` with "Zone can only be mapped to one partition" (881). The model follows the
  `break`.
- READY ON is announced when the panel is not ready (311; `README.md` 339). The programming event is
  worded `PROG. MODE` (`alarmdecoder_api.h` 590; `README.md` 344). `SwitchesFollowPanel` takes the code's words.
- The reset time of a switch is not a time: any value but 0 resets at the next announcement (428). A trouble
  expression that overlaps open or close never decides (524; example at `README.md` 367). `switch N delete` leaves
  indexed patterns behind.
- A mask with the sign bit set (DSC partition 7) saturates in `strtol` (972), so the message goes to whatever key is found
  for the bits that are left. `Received` has it; addresses of such a message count as mixed up.
- `monotonicTime` is the system clock (`alarmdecoder_api.h` 565), which may go backwards. The models' does not.
- After a reconnect the parser's buffer still holds a line that was cut (`alarmdecoder_main.cpp` 864).

*Notifications*
- The URL of a request is chosen when the switch matches, its body when it is sent; a change of the account's type in
  between mixes two services (`twilio.cpp` 287).
- Account numbers are kept in eight bits (`twilio.cpp` 912), and an account without a type ends the loop for the
  accounts after it (579). A request that failed is deleted like one that was delivered (`ad2_utils.cpp` 2091).

*ser2sockd* (`ser2sock.cpp`)
- A listening socket that fails in `bind`, `listen` or `_add_fd` is not closed, and one that is opened while the
  shutdown handler runs stays open: the flag is tested before the mutex (574, 904). `Bind`, `Refused` and
  `TestFlag` have it.

*Host*
- ad2term in the boot window hangs the start; two terminals restore the source in the wrong order; a terminal or
  `top` over the network whose client has gone never ends, since its read returns 0 then (`ad2_cli_cmd.cpp` 291-370), and
  no other client is let in. `ClosedPeerIsLeft` excuses the two by name, `DataReachesParser` what a terminal takes.
- The test for a broken connection in ad2term can not be true: `!= EAGAIN && == EWOULDBLOCK` (`ad2_cli_cmd.cpp` 315).
- "lock the console as we spool out the message" (`ad2_uart_cli.cpp` 398) lasts up to the first line printed inside: its
  give (`ad2_utils.cpp` 2292) is that of the outer take. From then on lines of other tasks come in between, and
  the outer give may meet another task's mutex, which fails an assertion of FreeRTOS and restarts the device.
  Help (`ad2_uart_cli.cpp` 254) and the log's text (`ad2_utils.cpp` 251) are written without any take. `HostConsole`
  has all of it; `WriterHoldsConsole` promises only what is left.
- The third dot may come when the wait is over: halted and started at once (`ad2_uart_cli.cpp` 486).
- A loss of the address on Ethernet is not noted, its handler is registered for the Wi-Fi event
  (`device_control.cpp` 669, 856).
- A DSC panel is sent no disarm when its last report says disarmed (`ad2_utils.cpp` 1380): one that was armed and has not
  reported it stays armed; and two disarms before it reports arm it again, since the code toggles. Whether the send
  took the bytes is not looked at, and an invalid mode or handle is only logged (1740-1752), so a command may be lost.
  `LastCommandWins` excuses the partitions concerned.

*Configuration, log, ACL* (`ad2_utils.cpp`)
- A factory reset removes the card's file (`device_control.cpp` 352) before it writes the internal one (368): a power failure
  in between starts with the old internal file or none, and a failed `fclose` (382) leaves the new one cut.
  `StartFindsSettings` excuses a reset that did not end, and nothing after it.
- The file is written over itself, so a power failure during the save leaves an empty configuration; a restart by the web
  interface or an update loses what was not saved; `_config_autosave` is never set.
- Two consoles that enable the log at once may start two writers; its queue is deleted when the task can not be created,
  while another task may send to it. The model enables from one console at a time.
- A range is compared byte by byte (540), so addresses inside it may be refused (none outside passes: the reason
  `RangeAdmitsNoOther` is one-sided); a prefix length is kept in a byte, 256 is 0. `ftpd acl` clears the list and fills it
  again, and an empty list admits all.

*Updates*
- Hazard 1: each updater tests its own handle and both write the same partition. Two overlapping updates from the card,
  cut by a power failure, may leave the partition selected though erased; a server's image whose signature is refused is then
  whole, selected and started next, even if it is older. `UpdatesAreSafe` excuses an OTA update that met another or a
  partition left selected; that it must excuse the second was found with three releases. And an updater that has
  written and selected its image removes firmware.bin (`usdupdate.cpp` 441) though a second one from the card has erased the
  partition since (363): neither image nor file is left. The property excuses this file, and only for updaters whose
  own image was erased or overwritten.
- The file may be replaced between the check and the opening: a downgrade ("Same-version and downgrade images are
  rejected.", `usdupdate.cpp` 494). The server's updater has no version policy and does not abort what it refused.
- When the task of a card update can not be created, the handle of another is cleared. A third failed check should wait
  a day and waits 24*3600 ms (`ota_util.cpp` 717); the polling time overflows for many days (783).

*Services*
- The web interface dereferences a null state when the parser announces ON_LRR (`webUI.cpp` 1642).
- MQTT announces no partition state when it connects (`ad2mqtt.cpp` 372), so a state that expired during an outage stays
  stale; and a state the outbox does not take is only logged (795) and not sent again before the next change.
  `PartitionIsShown` excuses both, as long as no newer state was taken.
- A client of the web interface may show an outdated state until the next change: a frame answering SYNC that was built
  before a change is sent after the frame of the change. And the callback finds out who follows a partition before it
  sends (`webUI.cpp` 1637-1652), so a socket that changed hands meanwhile gets the frame of another partition.
- SmartThings' bell is closed when a fire ends though the alarm sounds. A press that comes during the timer's
  callback keeps the count.
- FTP: CWD takes any path (`ftpd.cpp` 750); a data connection that could not be opened is answered with 226; the passive
  flag and the data port are kept for the next client; any new connection ends the one served. A client holds the daemon, and
  keeps all others out, for as long as it likes with half a line (`ftpd.cpp` 1402), after PASV without connecting (1324)
  and in the middle of a file it sends (1515): no timeout is set. `FtpClientIsServed` assumes that none does so for ever.

## 7. Not modelled, and why

- The text side of decoding: regular expressions, names of zones, formatting of events, HTTP bodies, JSON, TLS, the
  syntax of the configuration file. No property is about them, and they keep no state.
- The pages and single requests of the web interface and its template engine: no state outlives a request but the cookie.
- The tables of commands, help and settings commands of the services; MQTT discovery; telnet negotiation.
- How long the polling task waits; the HTTP of the updates; the single checks of an image header, taken as one answer.
- Pins, LEDs and drivers, the statistics task, the creation of the components in their fixed order.
- `monotonicTime` going backwards.
- Vendored SDKs, build tools, the browser side and the simulator: not the firmware.

## 8. What is left

What the code still allows, in this order:

1. `VirtualSwitches` composed with `NotificationQueue`, so that a change of the panel ends as one request.
2. The wait of the polling task, with its units, and the restart of the device while an update runs.
3. The session cookie of the web interface, with its single requests.
