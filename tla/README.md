# Verification of the SierraGliding weather network

The repository holds a network of weather stations for glider and paraglider
sites: battery powered AVR stations that measure wind and pass each other's
messages on by LoRa radio, a KISS modem and a .NET receiver that bridge the
radio to the internet, a web server with its charts, and a program that posts
the readings to other services. This directory holds TLA+ models of it, the
TLC runs that check them on small instances, and TLAPS proofs of the results
that matter most.

## The system

    station ~~radio~~ station ~~radio~~ modem --serial-- receiver --http-- web server -- browser
                                                                               |
                                                                          WindyPoster

### Station and modem firmware (`src/RemoteStation`)

| part | state | operations | what is hard | what makes it correct |
|---|---|---|---|---|
| Receive queue (`CSMA.h`) | byte buffer, table of lengths, read and write indices, checked-out flag, interrupt flag and counter | interrupt, `readIfPossible`, `dequeueMessage`, `doneWithBuffer`, `clearBuffer` | messages are handled in place while packets are copied behind them; the interrupt; 8-bit arithmetic; full buffers | a message in hand is left alone; FIFO; nothing queued is lost; never wedges |
| Message handling (`MessageHandling.cpp`) | ring of relayed messages, stations heard, the relay waiting to be resent | `readMessage`, `relayMessage`, `resendRelayIfNecessary`, `sendWeatherMessage` | duplicated and reordered packets, one slot for resending, rings that overflow | each packet is relayed at most once by a station; no loop of relays |
| Commands (`Commands.cpp`) | ring of the last 15 command ids, relay lists in permanent storage | `checkCommandUID`, `handleCommandMessage`, `handleRelayCommand` | retried commands, ids shared with pings, updates of a list that fail half way | a command takes effect at most once; it is acknowledged iff it did |
| Flash log (`Database.cpp`) | sectors of headers and of data in a flash chip, current addresses, search in progress | `initDatabase`, `storeMessage`, `doSearch`, `retrieveMessage` | sectors erased and reused in a cycle, power lost between two writes, a search that runs over many loops | every complete record is found again after a restart, until its sector is recycled |
| Remote programming (`RemoteProgramming.cpp`, `Flash.cpp`) | image in flash, bit map of packets received, expected size and CRC | `handleProgrammingCommand` and the handlers it calls | lost, duplicated and late packets, an old image under a new one, restarts | the boot loader only ever finds the complete image that was confirmed |
| Permanent storage (`PermanentStorage.cpp`) | variables in EEPROM and their CRC | `initialise`, `setBytes` | power lost between a write and its CRC, a new layout after an update | after a restart every variable has an old or a new value, or all have their defaults |
| Power modes and watchdogs (`ArduinoWeatherStation.cpp`) | battery mode, last ping, what the radio does, the watchdog | `loop`, `updateBatterySavings`, `sleep`, `restart` | hysteresis, a time that stands still in deep sleep, a station that cannot be reached | a station without pings restarts, one with pings does not; it leaves a saving mode when the battery recovers |
| Wind, timers and charging (`WeatherProcessing`, `TimerTwo.cpp`, `PWMSolar.cpp`) | the clock, counters filled by interrupts | `createWeatherData`, `countWind`, `timer2Tick`, `millis`, `setSeconds`, `doPwmLoop` | counters read while an interrupt changes them, wraps, a clock and an interval that are set meanwhile | the time read is the time; a reported gust was one; turns are divided by the time they were counted for |
| KISS modem (`KissModem.cpp`, `KissMessaging.cpp`) | bytes of a frame, escape state | `beginMessage`, `readByte`, `appendByte` | escaping, frames cut short, overruns | decoding returns what was encoded |

### Receiver (`src/dotNet_Receiver/dotNet_Receiver`)

| part | state | operations | what is hard | what makes it correct |
|---|---|---|---|---|
| KISS connection (`KissCommunication.cs`) | bytes to send, unique ids, the packet being decoded | `Write`, `Connect`, `GetNextUniqueID` | two threads, time-outs that trigger writes | no command is lost or sent twice |
| Packet handling (`Program.cs`, `PacketDecoder.cs`) | pings sent, commands waiting for an answer | `OnPacketReceived`, `PingLoop`, `AcknowledgeResponse` | answers that come late or twice | an answer is given to the command it answers |
| Posting (`DataPosting.cs`, `DataStorageBase.cs`, `LocalDatastore.cs`) | packets seen in the last minute | `SendWeatherDataAsync` | the same packet through several relays at once, failed posts | each reading is posted once |
| Remote programmer (`RemoteProgrammer.cs`) | stations, packets each still misses, unique ids of requests | `GoAsync`, `InitMultiple`, `BulkUpload`, `CompleteUploadToStationAsync` | answers that race the code that waits for them | upload ends with every packet at every station |
| Interpreters (`CommandInterpreter.cs`, `ProgrammerInterpreter.cs`, `SocketListener.cs`) | the last commands | parse and forward text commands | replayed commands | a command is forwarded once |

### Web server, browser and WindyPoster (`src/web`, `src/WindyPoster`)

| part | state | operations | what is hard | what makes it correct |
|---|---|---|---|---|
| Web server (`web/index.js`, `web/lib`) | stations and readings in SQLite | post and query readings, cull stuck wind speeds | requests in parallel, triggers, duplicates | no reading is lost; the summaries follow the readings; what is stored is shown |
| Chart data (`web/site/src/DataManager.js`) | loaded intervals, points, requests pending | `ensure_data`, `add_data`, `add_point`, `load_data` | answers out of order, resolutions mixed | points are in order of time and without duplicates; no interval is loaded twice or never |
| WindyPoster (`WindyPoster/Program.cs`) | last reading posted | `TimerLoop`, `SendReadings` | retries | each reading is posted in the end |

Vendored code (`dotNet_Receiver/libs`, `web/sqlite3_ext`), board files and
documentation are left aside. The libraries of the firmware (`RemoteStation/lib`,
git submodules whose directories are empty) are modelled only by the way the
firmware uses them.

## Modules

| module | what it is | code |
|---|---|---|
| `RxFifo` | abstract: packets are handed out once, oldest first | promise of `CSMA.h` |
| `RxQueue` | the receive queue, byte by byte, with its interrupt | `CSMA.h`, the loops of `MessageHandling.cpp` and `KissModem.cpp` |
| `RxQueueProofs` | proofs about `RxQueue` for every size, among them that it implements `RxFifo` | |
| `FlashDatabase` | the log in the flash chip, command by command, with restarts | `Database.cpp` |
| `FlashDatabaseProofs` | proofs about `FlashDatabase` for any number and size of sectors | |
| `Firmware` | abstract: a station runs its factory program or all of an image it was told to install | promise of remote programming |
| `RemoteProgramming` | stations and programmer, with the radio between them | `RemoteProgramming.cpp`, `RemoteProgrammer.cs` |
| `RemoteProgrammingProofs` | proofs about `RemoteProgramming`, among them that it implements `Firmware` | |
| `CommandNetwork` | commands, answers, pings and acknowledgements through stations that relay them | `MessageHandling.cpp`, `Commands.cpp`, `Program.cs` |
| `CommandNetworkProofs` | proofs about `CommandNetwork` for every network | |
| `RelayLists` | how a relay command edits a list and how a list is looked up | `Commands.cpp`, `MessageHandling.cpp` |
| `PermanentStorage` | the settings in EEPROM with their checksum, and the copies in RAM | `PermanentStorage.cpp`, `Commands.cpp`, `LoraMessaging.cpp` |
| `PermanentStorageProofs` | proofs about `PermanentStorage` for every layout | |
| `PowerModes` | the main loop: battery modes, radio, pings, sleep, timer and watchdog | `ArduinoWeatherStation.cpp`, `LoraMessaging.cpp`, `CSMA.h`, `WeatherProcessing.cpp` |
| `PowerModesProofs` | proofs about `PowerModes` for any periods and thresholds | |
| `WeatherTimer` | the clock, turns of the anemometer, gusts and weather intervals, with their interrupts | `TimerTwo.cpp`, `WeatherProcessing.cpp` |
| `WeatherTimerProofs` | proofs about `WeatherTimer` for every timer | |
| `WebServer` | posts in parallel, the tables with their triggers, the open pages | `web/index.js`, `web/lib/database.js`, `DataManager.js` |
| `WebServerProofs` | proofs about `WebServer` for any number of posts | |
| `MCRemoteProgramming`, `MCCommandNetwork`, `MCPermanentStorage`, `MCPowerModes`, `MCWebServer` | the instances that TLC checks | |

The modules meet at narrow places. `CommandNetwork` takes the queue of a station
to be the FIFO that `RxQueue` is proved to implement. `RemoteProgramming` takes a
command to be acted on once by each station that hears it, which is
`ExecutedOnce` of `CommandNetwork`. `PermanentStorage` extends `RelayLists`;
`PowerModes` and `PermanentStorage` share the setting `stasisRequested`, each
with the part of it that the other leaves out. Each names what it takes from the
other in its header.

### RxQueue

State: the flag and the 8-bit counter that the interrupt `rxDoneActionStatic`
writes, the packet in the radio chip, `_buffer` (for each byte the packet it was
copied from), the running sums of `_messageLengths`, both indices,
`_checkedOut`, and where the reading program is. The code adds the lengths up in
a `uint8_t` and never uses one alone except as the length of the message handed
out, so the sums say the same.

Actions: `RxDone` is the interrupt, at any point where the radio is not in
standby. `CallReadIfPossible` and `CallDequeue` are the tests before standby and
`ReadPacket` everything after them, in one step because the radio receives
nothing then; an interrupt between the two replaces the packet, which is why
they are two. `BeginMessage` and `NoMessageBegun` are the two ends of
`dequeueMessage`, the second with the clearing that `readMessages` does.
`EndMessage` is `doneWithMessage`, and in the modem nothing. While a message is
handled the program may transmit, and `delayCSMA` reads packets meanwhile: the
same `CallReadIfPossible` and `ReadPacket` are enabled in `handle`.

Three variables or fields are history: `received`, `unread`, and the packet in
`incoming`. `unread` counts what `updateReadStats` in fact counts, every packet
that was never read: those without room, those that an interrupt replaced, and
those forgotten when the radio starts again.

### FlashDatabase

State: the FAT as cells (a header is one, a record three), the data region as
bytes, the addresses of `Database.cpp`, and the next command to the chip. Writing
what is not erased gives `Garbled`, as the chip ANDs what is written twice.

Actions: `Boot`, `BootErase` and `BootInit` are `initDatabase`; `Store` to
`WriteData` are `storeData` and `checkEndsOfBlocks`, one action for each command
to the chip, so that `Restart` can come between any two; `StartSearch` and
`DoSearch` are the search of the log. `stored`, `live`, `activeSector` and `faults` are
history.

A restart may come at any time and any number of times up to the bound. `faults`
records two things that the code does and should not: `"wentBack"`, a restart that
goes on in another sector than the one in use (`WentBack`), and `"notErased"`, a
sector that is begun although it holds something (`FatNotErased`, `DataNotErased`).
They change nothing in what the log does. The first part of `Durable`
(`RecordsKept`) holds whatever they are, the rest for as long as there are none.
Each of the two is needed: without either as an exception TLC finds `Durable`
violated.

A record of 12 bytes is written in one step, and so are the data of a message. The
power may fail inside a write, and a record may lie across two pages of the chip
(`Database.cpp:199`); a restart then finds a type without its address, takes it for the
last record and goes on at an address of ones. That is not modelled.

### RemoteProgramming

A station keeps what `RemoteProgramming.cpp` keeps in RAM (`totalExpectedPackets`,
`expectedCRC`, `receivedPackets`) and what is in its flash; there is one action
for each handler, one for each of the four writes of the header, and `Restart`,
which includes the boot loader. The programmer is the code of
`RemoteProgrammer.cs` between two awaits or two places where the other thread
may come in: `Query` sends and only `NoteQuery` notes the unique ID, as the code
does, and `Receive` (the thread of the communicator) may run between them.

The air is a set of commands, with the stations that are still to hear each, and
a set of replies. A command or reply says how many commands ago it was sent,
instead of an ID that wraps. The radio loses them, delays them by up to
`MaxDelay` commands and delivers replies twice.

### CommandNetwork

A station keeps the rings of handled commands and of relayed messages, the
message that may have to be sent again, the time since it was sent, the packets
received and what it is sending. `ReadMessage` is the whole of `readMessage` up
to what it transmits, `SendRelay` and `SendOther` what follows a transmission,
`ResendRelay` is `resendRelayIfNecessary`. A transmission reaches any set of the
neighbours. `Tick` is time: a station that has something to send waits up to
`MaxChannelWait` ticks for the channel, and time does not pass while another
step is due.

A command that a station handles has one of three results (`Results`, the end of
`handleCommandMessage`). It is executed and answered with a `K` that says `"OK"`; it is
executed in silence (acknowledgements off, or a handler that wants none); or its
checksum is wrong or its handler refuses it, and then nothing is executed and the
`K` says `"IGNORED"`. In each case its ID goes into the ring first. `executed` and
`refused` are the history of that, and an answer in the air must be true of them.

A message is its type, station and ID, and for a `K` what it says; the ring of
relayed messages keeps only the first three, as the code does. An ID stands for
itself, commands get one after the other, and pings are numbered apart from them;
that the two counters meet is listed as a hazard. A restart of a station, which
empties its rings, is not modelled: after one it may execute a command again that
is still on its way.

### PermanentStorage and RelayLists

State: the variables of the structure in their order, the checksum (how many
variables it covers and their values), the copies in RAM, `_initialised`, and the
writes that the handler has still to make. `kept`, `interrupted`, `givenId` and
`asked` are history.

A handler puts its writes into `todo`; `BeginWrite`, `EndWrite` and `SetCRC` are
`setBytes`, with `Restart` between any two. A variable of several bytes is
`Garbage` from its first byte to its last. The checksum lies directly behind the
variables, so a program with more variables finds the old one where its first
new variable is; `Overwrites` is the write that destroys it. `Initialise` and
`Setup` are the start-up, with the migration of older layouts, `SetVariables`,
`ChangeId`, `RequestStasis`, `LeaveStasis` and `RelayCommand` the commands. A
relay command edits the three lists in turn and stops at the first with no room.

### PowerModes

State: the battery and what was last read of it, `batteryMode`, the interval of
the weather messages with its counter, the age of the last ping, the watchdog
(`WDIE`, its count, `wdt_dontRestart`), what the radio does and what the program
remembers of it (`_idleState` and the lengths of the preamble).

One pass of `loop` is `BeginLoop`, any messages (`HearPing` and the commands),
`EndMessages`, `Weather`, `UpdateBatterySavings`, `CheckPings`, `Sleep`, and
`EndSleep` after the sleep. `Tick` is the interrupt of the timer,
`WatchdogInterrupt` and `WatchdogReset` are the two time-outs of the watchdog,
which the first changes into the second because the hardware clears `WDIE`.
Time passes at any point of a pass, as much as it likes: a pass may handle any
number of messages, and each transmission in it waits up to 2.5 seconds for the
channel (`CSMA.h:51`, `:112`) before `wdt_reset` comes at its end
(`ArduinoWeatherStation.cpp:341-394`). `spent` is the history of that, up to
`VeryLong`, from where on the watchdog may bite. Builds with and without a crystal differ in the initial state: without one the timer
is off in deep sleep and the station's time stands still.

### WeatherTimer

State: the timer with its pending interrupt, `_ticks`, the locals of a call of
`millis()` by the program or by the interrupt of a turn, what `countWind` keeps,
the ticks of the weather interval, and where the program is in a report.
`windCounts` and `windCountStored` stand in the model as the number of ticks for
which they were counted, which is all that a speed depends on. `periods`, `at`, `age`,
`shortest` and `changed` are history.

`Count` is one count of the timer. `BeginReading` reads `_ticks` and `TCNT2`, and the
flag is read when the reading ends, with at most one count between; interrupts
are off meanwhile. `CountWind` is the interrupt of a turn with the reading in it,
`TimerInterrupt` that of the timer with `timer2Tick`. `TakeWeather`, `ReportSpeed` and
`ReportGust` are the parts of a weather message between which interrupts are on;
`SetSeconds` is a ping, `IntervalCommand` and `EnterMode` set the interval.

### WebServer

State: `station_data`, `discarded_data`, the two tables of summaries, each
handler of a post under way, and the timestamps shown on open pages.

A handler is the steps between its awaits: `InsertData` (or `InsertDuplicate`,
`InsertDiscarded`), `ReadLastRecords`, `ReadStats`, `InsertCulled`, `DeleteCulled`
(or `DeleteAborted`), `SendRemove`, `SendAdd`. A statement is one step together
with its triggers. `Restart` ends the handlers and keeps the tables.

## Runs

Each run of TLC ends within five minutes.

| run | question | result |
|---|---|---|
| `queue_station` | the queue in a station: intact, all that is never read counted up to wraps of the counter, FIFO, live | holds, 6 properties |
| `queue_modem_stuck` | does the KISS modem hand on what it queues? | no, see below |
| `flash_log` | the log several times round, with restarts at any time: do writes stay in their region, are messages durable unless one of the two named faults happened? | holds, 4 properties |
| `flash_restart` | does a restart go on in the sector that was in use? | no, see below |
| `prog_images` | two images, uploads that begin again: bitmap, flash, installation, end of uploads, done only when the image is there | holds, 6 properties |
| `prog_tail` | does the programmer send until the station has everything? | no, see below |
| `network_line` | a line of three stations, with commands that are refused or not answered: once only, true answers, resending given up with reason, silence in the end | holds, 6 properties |
| `settings` | do settings survive restarts at any byte, and do RAM and relaying agree with them? | holds, 5 properties |
| `power_modes` | does the watchdog bite when it should, and a station that hears pings only in the named cases, do modes follow the battery? | holds, 5 properties |
| `power_deaf` | does a station that relays weather listen continuously? | no, see below |
| `weather_times` | is the time that is read the time, are gusts real, are turns divided by their time? | holds, 3 properties |
| `web_posts` | posts in parallel that cull each other's readings, with a restart | holds, 4 properties |

### Bounds and why they are enough

* `RxQueue_station`: a buffer of 4 bytes, 2 slots, packets of 0, 1, 2 and 4
  bytes, 5 packets, one overrun between two reads. Both limits are reached, the
  table by packets of one byte and the buffer by those of two and four; a packet
  that fills the buffer and one of no length occur; the buffer is emptied and
  reused. The counter of packets wraps at 3 (`CounterMod`, 256 in the program), so
  that it wraps between two reads and inside one. The proofs cover every other size.
* `FlashDatabase_log`: two FAT sectors of two records, two data sectors of six
  bytes, messages of 3 and 5 bytes (two fill a sector exactly, or a message has to go
  to the next), nine messages, three restarts at any time. A life without faults
  has up to six messages, which use both FAT sectors and the first again, and the
  data region three times; and lives with faults go on to the end of the
  bounds. `flash_restart` has three FAT sectors and one restart, which is enough.
* `RemoteProgramming_images`: two packets to a byte of the bitmap; one image with
  a last byte that is not full and one that fills no byte; commands and replies
  late by one. The image of the second upload is any of the two, so an old packet
  meets a new upload of either.
* `CommandNetwork_line`: three stations, so that one is between two others that
  do not hear each other, rings of three, and a command and a ping, so that what
  waits to be sent again is replaced. The rings are not overrun in this
  instance: three entries hold all that is heard. A station listens for 3 ticks and
  waits 1 more before it sends again, the proportion of the code (600 and 200 ms), a
  tick being 200 ms. The channel is busy for 2 ticks at most, and the code waits
  up to 2.5 seconds; two ticks are longer than the delay, which is what matters.
  With 3 the run also holds (398,195 states).
* `PermanentStorage_settings`: fourteen variables, those whose place or use
  matters, in the order of the structure; programs with 11, 12 and 14 of them ran
  before, so that the old checksum lies under a variable, directly before one, or
  where it is. Lists of two stations and of one type, IDs up to 2, so that a list
  can be full, have holes, and hold a number twice; two commands of two edits;
  IDs 0, 4 and 200, of which only 4 is allowed. Restarts are not bounded.
* `PowerModes_modes`: voltages below, in, and above the thresholds, a watchdog of 4
  units and pings that are missed after 4, so that it may bite before and after
  that; passes of any length, counted up to 2 units (`VeryLong`); one command. The periods are the fewest that keep the order that the
  code's have. `power_deaf` uses the same instance.
* `WeatherTimer_times`: timers of three counts, where the limit is the top as in
  the builds without a crystal, and of six, where it is below; the interrupt waits
  for one count at most. A word of two ticks and times of six counts, so that both
  wrap again and again and times do not fit; two turns to a gust, intervals of
  one and two ticks and one that is asked for as less than a tick. The proofs cover
  every other size.
* `WebServer_posts`: four posts in parallel and one restart. Of the times, 120
  (stored before), 180, 230 and 270 are so near that they judge each other, 120 and
  270 just not; 900 is in another period of ten minutes, which a culling can make
  empty. Winds of 2 and 40, and one stronger than its gusts. Requests are alike,
  hence symmetry; the only temporal property, `LatestStays`, speaks of single
  steps and names no request.

`MaxPackets`, `MaxMessages`, `MaxRestarts`, `MaxCommands`, `MaxEdits`, `MaxInbox`,
`MaxDelay`, `MaxChannelWait` and `MaxOverrun` bound behaviours and stand in guards or
in what a message may become. `CanSearch` says whether searches are asked for.

`CHECK_DEADLOCK FALSE` is in the runs of `CommandNetwork`, as a network with
nothing to do stops, and in `WebServer_posts`, whose posts come to an end.

### Fairness

* `RxQueue`: the program is single threaded and `delayCSMA` gives up after
  `MaxDelay`, so each of its steps is weakly fair, and `EndMessage` and `LoopAgain`,
  which reads of packets disable for a while, strongly fair. The interrupt is not
  fair.
* `RemoteProgramming`: the thread of the programmer runs on (`Programmer`), and the
  time allowed for an upload runs out (`Expire`, the `CancellationTokenSource` with
  its delay). Nothing is assumed of the stations or the radio: uploads end even if
  no station ever answers.
* `CommandNetwork`: each station's loop, the base and time go on. A transmission
  may always be heard by nobody.
* `PowerModes`: the program and its start-up run on, a program that hangs is reset
  at last, and time passes. Time is strongly fair, because between the passes of
  a loop that is woken again and again it is possible only now and then. Nothing
  is assumed of messages, the wind and the battery.
* `FlashDatabase`, `PermanentStorage`, `WeatherTimer` and `WebServer` have safety properties only
  and assume no fairness.

## Proofs

Proved for all values of the constants that the named assumptions allow are the
queue of packets and its counts, the addresses and the records of the log, the
bitmap, the answers and the installation of an upload, the network's answers and
that nothing is done or sent twice, the settings and the lists of relays, the
watchdog, the clock with what is counted by it, and the tables and the pages of
the web server. TLC checked every one of these formulas first.

`RxQueueProofs`, from `RxQueueAssumption` (sizes below 256, packets that fit an
empty buffer):

* `Invariance`: `IInv` is inductive. That the message in hand is intact is not:
  the invariant has to say where it lies. `SlotsInv` says that slots lie one behind
  the other and that both indices are in order, `ContentsInv` that each slot holds
  one packet and later slots later packets, `ReaderInv` that the message in hand is
  the slot at the read index, so that a copy behind the last slot cannot meet it.
* `TypeCorrect`, `Intact`: consequences of `IInv`. The sums never reach 256, so
  that the arithmetic in a byte is exact.
* `Refinement`: every step of the queue is a step of `RxFifo` or none. The mapping
  is the set of packets in slots behind the message in hand. The lemmas
  `ReadEffect` and its neighbours say what a read does to that set.

* `OldestFirst`: what is handled is older than what is queued, in the code's queue.
  `FifoInv` is shown of the abstract queue and carried over by `Refinement`.
* `Counts`: `CounterInv` says that some number of packets is accounted for, that the
  two byte counters are this number and the number of all packets modulo
  `CounterMod`, and that what came since was not read or waits. So each count is of
  the packets that were never read, for whatever reason, less the modulus for each
  wrap, whatever the order of interrupts, reads and restarts of the radio. The
  difference is taken in an `int` (`CSMA.h:287`), see below.

`FlashDatabaseProofs`, from `FlashDatabaseAssumption`, for any number and size of
sectors, any lengths that fit in a sector, any number of messages and restarts:

* `Invariance`: `IInv`. That the addresses stay in their regions depends on where a
  record can be: every sector with a header is a row of records with nothing behind
  it (`SectorsFilled`), and writing goes on at the end of such a row or in a sector
  without a header (`PlaceInv`). So what a restart reads is never garbled, though
  the sectors without a header are written over.
* `TypeCorrect`, `RegionsKept`, `FirstSectorReadable`, `RecordsFound`: consequences;
  the last is what `Durable` says of records whatever faults there were.
* `GoesBackToFirst`: the second sector of the FAT never gets a header (`SecondInv`: its
  first record begins exactly where the sector does), so a restart goes on in the
  first sector, wherever the log was. `flash_restart` shows that once; this theorem
  says that it is so in every behaviour and for every size.
* `Durability`: all of `Durable`, for every number of messages and restarts at any time.
  Without faults the sector in use is erased from the place of the next record on,
  the last record of the first sector is that of the newest message while that
  sector is in use, so that a restart goes on behind it (`HeaderInv`), and the sector
  of data in use is erased behind its data (`DataInv`). `FaultsStay` carries the
  absence of faults back to the state before a step. The argument needs the
  history of faults at exactly three places, where the code begins a sector or
  starts up; `Durability` is the statement that nothing else garbles the log.

`RemoteProgrammingProofs`, from the assumptions on stations, images and bounds:

* `Invariance`: `IInv`. `BitmapTellsFlash` is what every packet relies on.
  `ExpectsAnImage` ties the number of packets to the CRC; without it, a
  packet could lie outside the image that its CRC names. `ConfirmationsSent`,
  `AppliesWhole` and `HeaderForWatchdog` carry a confirmation from the operator over
  the air, past the check of the CRC, to the header: a station that is writing the
  header takes no command, so that what was checked is still there when the
  boot loader reads it.
* `TypeCorrect`, `BitmapCorrect`, `WrittenOnce`: consequences. `WrittenOnce` is the
  action property `NeverOverwritten`.
* `InstallsWhole`: `RemoteProgramming` implements `Firmware`. Only `Restart` with a
  complete header is `Install`, only `Confirm` is `Confirm`, all else is a stutter.
* `AnswersTrue`, `DoneComplete`: an operator that finds the upload complete is right
  (`DoneWhenAllThere`). The operator keeps the last response from query to query and
  notes its unique ID only after the query has left, so that the answer it looks
  at may be to an earlier command. `QueryInv` says what each answer in the air or
  kept was told of: one that could be taken for the answer to the present query
  (`Trusted`) was made after the image was begun and says no more than what is there,
  and packets are not taken away while the operator waits. The hypothesis `Prompt`
  is that an answer is not delayed for as long as it takes to send an image
  (`MaxDelay <= PacketCount[i]`): an image has more than a hundred packets, a
  command is answered in seconds. It is needed: with an image of one packet and a delay
  of three commands TLC finds `DoneWhenAllThere` violated, by the answer to a query
  about the upload before.

`CommandNetworkProofs`, from the assumptions on stations, neighbours and lists of
relays, whatever the rings hold and however long anyone listens:

* `Invariance`: `IInv`. That answers are true is not inductive: a station sends again
  what it keeps in `relayMessage`, which no queue holds. So `IInv` says of a set of
  messages that all queues, what waits to be sent again and what reached the base
  carry (`Carries`) nothing else, once of all messages and once of the true ones. The lemmas
  show for any such set that an action carries on what it found and what it made;
  a command that is executed, or refused, adds the answer that says so to the true
  messages (`TruthGrows`) and takes none away: what was refused stays refused.
* `TypeCorrect`, `Truth`: consequences. `Truth` is the invariant `AnswerMeansDone`: an answer
  `"OK"` means that the station has executed the command, `"IGNORED"` that it refused it.
* `Once`, `SentOnce`: a station executes a command once (`ExecutedOnce`), and sends a
  message once and once again (`SendsOnce`). Both rest on rings that forget: what
  went through a ring is in it until it has room for no more, so `OnceInv` counts what
  can have gone in, by the unique IDs sent so far and the messages that a station
  can have passed on, and the theorems hold as long as these are no more than the
  rings hold (`FewIDs`, `FewRelays`). In the run, too, the rings have room for all
  that is heard; what happens when a ring has forgotten what is still on its way is
  neither run nor proved.

`PermanentStorageProofs`, from `LayoutAssumption`, `DefaultAssumption`,
`UsedAssumption` and `CommandAssumption`, which speak of any layout, any defaults and
any commands that leave `initialised` alone:

* `Invariance`: `IInv`. `SettingsSurvive` speaks of the moment after a restart only,
  and a restart may come anywhere; so `IInv` says where the writes still to come
  lead (`LeadsTo`, by `Yields`: the last write to a variable counts): to the settings as
  they were or to fresh ones (`StartingUp`), and for each copy in RAM to what the copy
  holds (`CopiesComing`). `Checked` says that the checksum, whatever has been written
  since, stands for the settings kept or for fresh ones and never for anything
  else, so that a torn variable cannot pass the check.
* `SettingsKept`, `IdKept`, `CopiesCurrent`: consequences.
* `RelaysExactly`: a station relays for exactly those that it was asked to
  (`RelaysForListed`), from `ListsAssumption` as well: a list that a program leaves is
  a list, and no other command writes one. `ListInv` says that the writes to come lead
  to a list that says what was asked. That one edit, and a sequence of them, make
  of a list what they ask for is in `AddList`, `RemoveList` and `EditedSaysAsked`; the
  recursive functions that the operators of `RelayLists` define are shown to exist
  (`Recursion`) and to agree at every place by way of the first where they would not
  (`Least`).

`PowerModesProofs`, from `PowerAssumption`:

* `Invariance`: `IInv`. `Typed` holds the ticks below the interval whatever changes it;
  `HeldOff`, `Interrupts` and `SmallCount` tie what the watchdog has counted to where the
  program is: without `noPingSent` it has counted the pass that goes on, however long
  that is, and one unit of sleep; the interrupt comes before the reset except
  after stasis, and restarts are held off only while a build without a crystal
  sleeps.
* `SparesHeard`: the watchdog bites only a station that has said that it hears no
  pings, except for the three cases that `WatchdogSparesHeard` names, the first of which
  is a pass of the loop that outlasts the watchdog.
* `TypeCorrect`: a consequence.

`WeatherTimerProofs`, from `TimerAssumption`: interrupts are never off for as long as
`Limit` counts of the timer (a quarter of a second; no handler comes near it), and
the 16 bits of a time divide what the clock wraps at:

* `Invariance`: `IInv`. `ReadingInv` says of a reading that a period it does not find in
  `_ticks` either ended before, and then the count is small, or after, and then the
  count is the top: hence the test of the count. `GustInv` ties the true time of a
  group, while it fits, to the difference of the times in 16 bits, over the ends of
  periods and of the word (`TimeGoesOn`, from lemmas about remainders). `CountInv`:
  turns are counted for as long as ticks.
* `TimeExact`, `GustsReal`, `SpeedsRight`: consequences.

`WebServerProofs`, from `ReadingsAssumption`, for any number of posts, any readings
and any number of restarts:

* `Invariance`: `IInv`. `NothingLost` needs `JudgedKept` (a row that a post is about to
  delete is in `discarded_data` first) and `LatestStays` needs `LaterStored`, as other
  posts may have deleted the row that made a post look back. The lemmas on periods
  show that the triggers change the summary of the row's period and that no other
  summary is taken over the row.
* `ReadingsKept`, `SummariesRight`, `LatestReadingStays`: consequences; the last is an
  action property.
* `PagesShow`: the reading of a post that ended in order is on the pages, or one of
  the same second was discarded (`StoredIsShown`), whatever other posts do between.

Only model-checked:

* liveness (`QueuedIsHandled`, `NeverWedged`, `UploadEnds`, `FallsSilent`,
  `LonelyRestarts`, `Recovers`, `GoesToSleep`), which is beyond the prover;
* `GivesUpWithReason`, which depends on the times that stations listen;
* `SendsOnce` when a station may relay more messages than its ring holds, of which the
  run has instances only as far as the ring is not overrun, and `DoneWhenAllThere` for
  images of a packet or two.

Where data is folded (the edits of a command, the records of a sector), the library's
induction theorems cannot be used, as they take an operator; the proofs take the
least counterexample instead, which exists by `WFMin` of `WellFoundedInduction`.

## What the runs found

* **The modem forwards one message** (`queue_modem_stuck`, `KissModem.cpp:141`). The loop
  begins messages and never gives one back; after the first one the queue stays
  checked out.
* **The previous block was not active** (`flash_restart`, `Database.cpp:219`). A sector
  of the FAT ends exactly with a record (4096 = 4 + 4092, a multiple of the record), and
  the test for a new sector misses exactly that. The next sector is neither erased
  nor given `MSG`. A restart takes the sector before it for the active one (line 140) and
  so goes back to an older sector: always to the first, by `GoesBackToFirst`.
  Messages stored behind that are written over.
* **The last packets do not count as missing** (`prog_tail`,
  `RemoteProgramming.cpp:263`): `a & 1 << i == 0` compares first.
* **A deaf relay** (`power_deaf`, `CSMA.h:303`). A failed transmission has the radio
  initialised again, which leaves it in standby; the program remembers its idle
  state, finds it unchanged and does not set it. The station sleeps and hears
  nothing until it transmits again.

Noted while modelling, without a run:

* `relayDelay` is too short for what its comment (`MessageHandling.cpp:59-65`) promises, that
  a station hears only stations further on while it listens. A relay may take longer
  than 0.2 seconds to go out for want of a free channel, the station before it repeats after
  0.8 seconds, and the later one, which listens for 0.6 seconds from its own relay,
  takes the repetition for that of a station further on and gives up.
  `GivesUpWithReason` names this as its last alternative, `HeardRepeated`: without it
  TLC finds the property violated in `network_line`. So the run says that this is the only
  way in which a station gives up without reason.
* A station that hears pings may still be bitten by its watchdog
  (`ArduinoWeatherStation.cpp:341-394`): nothing resets the watchdog between the messages
  of a pass, their relays, a message sent again, weather and status, and each of these
  transmissions may wait 2.5 seconds for the channel, so that four of them outlast
  the 8 seconds. `WatchdogSparesHeard` names such a pass (`LongPass`) as an exception.
* Gusts that were none (`WeatherProcessing.cpp:66` and `:312`). The comment does not care
  for wind that ticks less than once per minute; but four turns that take a little
  more than 65.5 seconds, with a turn every quarter of a minute, look like four turns in
  no time. So do four turns during which a ping set the clock, back by a part of a
  second or, after a start, on by years (`MessageHandling.cpp:459`): `gustTickMillis` is
  of the time before. A difference of 0 divides by zero. `GustIsReal` names these
  as exceptions; without them TLC finds it violated.
* A command or a change of mode between the tick that stores the turns and the report
  has them divided by the new interval (`WeatherProcessing.cpp:282`), against the
  comment at line 193: the exception of `SpeedOfInterval`. And if a tick that ends an
  interval comes between the reset of `weatherRequired` and `getWindSpeed_x2`, the
  message after that reports no wind.
* Left out with the failed crystal: `_subTicks` is not reset when a tick is counted and
  wraps at 256 (`TimerTwo.cpp:73`), so that `millis()` (line 184) adds up to 32 ticks to the
  time and takes them back; and with the top of 244 the test for 249 never holds
  back a pending tick (line 176).
* A search of the log does nothing (`Database.cpp:289`): the test of the time spent is
  the wrong way round, so that no pass reads a record, and the station does not
  sleep again.
* A message that begins exactly at the start of a data sector does not have it
  erased (`Database.cpp:237`: `endInBlock < messageSize` is false for it). When the region
  is used a second time it is written over what lies there. The same follows from a
  restart between the header of a sector and its first record (line 224):
  `_curWriteAddress` then starts over at the beginning of the data, which is not
  erased. Both are the fault `"notErased"` of `Durable`.
* The command that retrieves a record leaves the flash chip awake (`Database.cpp:500`:
  the statement that puts it to sleep follows the `return`).
* `updateRelayResend` takes any answer with the ID for that of the message that
  waits (`MessageHandling.cpp:311`): with a command for all stations the answer of the
  nearest ends the sending.
* Pings and commands share a ring of IDs, which come from two counters
  (`Program.cs:535`, `KissCommunication.cs:27`).
* `updateReadStats` "only counts packets dropped due to out of memory", says its comment
  (`CSMA.h:286`). It counts every packet that was never read: those of no length, those that
  another replaced, those forgotten when the radio starts again. And it subtracts two
  `uint8_t` in an `int` (line 287): once in 256 packets the number is negative.
  `CountsUnread` says what it counts.
* `P F R`, which `ReadRemoteImageAsync` sends, is no command of the station.
* A station answers a command that it refuses to carry out as ignored, and never
  tries it again, as its ID is in the ring by then, though `Commands.cpp:515` says "we
  execute every time we receive it".
* A relay command that finds no room in a list has already written the lists before
  it, and is answered as ignored (`Commands.cpp:253`).
* `+` for a message type looks for room in 15 bytes of a list of 7
  (`Commands.cpp:224`): a type that it puts behind them is lost.
* The command that changes the ID (`Commands.cpp:472`) may draw 0 and takes IDs of 128
  and above; at the next restart the settings are all set to their defaults, as
  such an ID is none.
* Without a crystal, the first deep sleep after stasis ends in a reset
  (`ArduinoWeatherStation.cpp:605`: `wdt_enable` clears `WDIE`), and a slow pass right
  after a deep sleep may be cut off by the watchdog (`:499`).
  `WatchdogSparesHeard` names these two as exceptions as well.
* `PowerAssumption` excludes a threshold below the hysteresis: the difference of two
  unsigned numbers (`ArduinoWeatherStation.cpp:519`) would then be large, and the
  station would save power with a full battery.
* A culling whose deletion is aborted by its trigger, because a period became empty,
  leaves the reading in both tables, and neither Remove nor Add is sent
  (`database.js:125`). Two posts that cull the same row put it twice into
  `discarded_data` (`index.js:715`). A reading posted for the second of a row that is being
  culled can be deleted in its place. A Remove that overtakes the Add of the same
  reading leaves its point on the pages (`index.js:725`). After a restart between
  insert and culling the reading is never culled.

## Not modelled

* **KISS framing** (`KissMessaging.cpp`, `KissCommunication.cs`): a sequential conversion,
  byte by byte, that tests reach. How the modem drives the queue is in `RxQueue`.
* **KISS connection**: a queue between two threads; the models take it to keep the order
  of commands.
* **Posting** (`DataPosting.cs` and its data stores): it depends on the clock of the
  computer; `WebServer` takes readings in any order of times, as it may post them.
* **Chart data** (`DataManager.js`): the interval loaded and the requests under way. What
  Add and Remove do to the points is in `WebServer`.
* Of wind, timers and charging: directions, temperatures and charging, analogue
  inputs turned into bytes and registers, of which a model without the numbers would
  say nothing; a crystal that has failed.
* **Interpreters**: parsing of text.
* **WindyPoster**: `Main` posts four stations and returns; the loop behind it is never
  reached.
* Of modelled parts: the collecting of weather packets for relay and the list of
  stations heard; `ReadHex` and `ReadRemoteImageAsync`; `appendRecord`, which `doSearch` calls from the loop
  that never runs, `retrieveMessage`, which a database command calls and which changes
  nothing of the log, and `startClean`, which nothing calls; a record or message that
  is torn by a loss of power inside its write; a restart of a station of
  `CommandNetwork`; the moving averages of the radio; charging and
  the check of the crystal in the main loop; queries, groups and login of the web
  server, which change no reading.
* Vendored code and the libraries of the firmware: `dotNet_Receiver/libs` and
  `web/sqlite3_ext` are SQLite and its extensions, the submodules are empty.
