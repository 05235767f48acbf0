# TLA+ for the lighting gateway

A ZigBee gateway: a Linux process (`server/`) between a ZigBee processor on a serial line and
clients on TCP sockets (a C library with command line tools, an Android application). It keeps
lists of devices, groups and scenes in text files, tells every client what changes, and passes
requests on to the network. This directory holds TLA+ modules of its core, TLC configurations that
check them on small instances, and proofs for all instances.

Paths below are relative to `src/`.

## The system

| part | code | state | operations |
|---|---|---|---|
| record files | `server/Source/SimpleDB.c`, `SimpleDBTxt.c` | a text file per list, an open `FILE*`, the buffer of the last record | add, search, delete (marks the line `;`), modify, consolidate at start-up, mark a line as bad |
| device list | `server/Source/interface_devicelist.c` | one record file; a static `epInfo_t` that every lookup overwrites | add, look up by (IEEE, endpoint) or (address, endpoint), remove, iterate |
| group list, scene list | `interface_grouplist.c`, `interface_scenelist.c` | one record file each, the last id given out | add, look up, add a member, find an unused id |
| controller | `server/Source/zbController.c` | none of its own | start-up, the poll loop, the callbacks for announces, descriptors, leaves, TouchLink, attribute reports |
| SRPC server | `interface_srpcserver.c` | none | one handler per request, replies, broadcasts |
| socket server | `socket_server.c` | linked list of client records, the listening socket first | accept, poll a descriptor, write to one or all, remove |
| SoC driver | `zbSocDriver/zbSocCmd.c` | the serial descriptor, the SREQ retry count | reassemble a frame, dispatch indications to callbacks, format commands |
| firmware probes | `zbFwStart/zbFwStart.c`, `getFwModel/getFwModel.c` | the command to be repeated, the count of time-outs | start the network of the processor, ask for its address and its model, repeat, give up |
| command line clients | `client/CClients/{listDevsCmdLine,lightFlashCmdLine,openNetwork}` | a loop counter, a key that is waited for | send one request or a series of them, print what comes, close |
| C client library | `client/CClients/Source/socket_client.c` | two linked lists of messages, mutex, condition variable | a receive thread, a handle thread, send, close |
| Android client | `client/AndroidClients/...` | `ourDevices`, `ourGroups`, `ourScenes`, a connection; per device the last values and marks of what was received; per screen the positions chosen in its spinners | build the lists from messages, user requests, a screen that reads a light and waits, screens that act on what is at a position |

How they interact. The gateway is **one thread**. `main` polls the serial line and the sockets,
then calls `zbSocProcessRpc` (one frame, which calls one callback) and, per descriptor with events,
`socketSeverPoll` (which accepts, reads requests or removes). Callbacks change the lists and
broadcast through `srpcSendAll`. The device list is a file: a callback that changes a record deletes
a line and appends another, each flushed, with the process able to die in between. The ZigBee
processor asks devices for their descriptors by itself; the gateway only sees announces, answers and
leaves, in whatever order the radio delivers them, also for devices that left or moved meanwhile.

What is hard, and so what the properties are about (the lines are in `PROJECT.json`, "hazards"):

- **order of network events**: an answer after a leave, a move between two answers, an address that
  passes from one device to another, an announce nobody read;
- **process death between two writes**, in callbacks and in start-up, where the list is copied to
  another file, removed and renamed back;
- **lines the parser rejects** (a network address above 0xFF00, a name with a quote): such a record is in
  the file but is no longer found;
- **one round of the poll loop works on a snapshot**: descriptors in it may be closed, and their
  numbers reused, before their event is handled;
- **writes that fail or kill**: a peer that closed, reset or does not read, in the middle of a broadcast;
- **a client's copy of the list**: built from a reply and from broadcasts that overlap with it;
- **ids that outlive the process**: lights keep group and scene ids; the counters that give them out wrap
  and are forgotten by a restart;
- **two threads and a list between them** in the C client library: lost signals, lists moved over before
  the one before is finished, cells that are freed and reused;
- **frames on a line that is not waited for**: bytes that are late, a frame that is given up half-way;
- **three threads and a device object** in the Android client: the main thread clears marks, the receive thread
  sets them, a task of each selection waits for them, on whatever is selected at that moment;
- **commands and reads nobody acknowledges**: they are lost on the line or in the air, or pass each other;
- **lists on a screen**: names copied from lists that a receive thread changes, chosen by a position that is
  later used in those lists; names the gateway does not know yet;
- **a byte stream**: requests that arrive in pieces, or together with the end of the stream;
- **text in files that people may edit**: limits of fields, names that break a line, an `errno` nobody clears;
- **progress**: departed clients and requests under a loop that always has something else to do.

What makes each part correct:

- record files: a restart keeps the list and what is found in it; a rejected line is never lost, hides no other
  one and was not good; what is written reads back;
- device list and callbacks: one record per endpoint of a device; an answered endpoint is listed at the address
  it answered from; the record a callback needs is there; a device is only said to be where it has been;
- gateway and client: the client's copy agrees with the list; a message about a move names the address
  the client has; all of it behaves like a table that loses at most one endpoint per crash;
- groups and scenes: an id means one group for good; a recall finds what was stored; members stay;
- groups and scenes screens: a button means the group and the scene that are shown;
- C client library: messages reach the callback in order, under the mutex, and the newest one always;
- command line clients and request parser: what was asked is carried out, once and in order, also when the program
  closes at once; a light flashes as often as was told;
- firmware probes: they end, and one loss does not hide the model;
- serial frames: each is processed once and in order; after a lost one the reader finds the next; it returns;
- socket server: descriptors and records stay in step; a client is only dropped by an event of the
  same round; those that have gone all are, eventually; requests are read; a broadcast that drops nobody reaches everybody;
- light control: a value shown was once true; a wait ends well only when everything was received.

## Modules

| module | models | state and how it corresponds |
|---|---|---|
| `RecordFile` | `SimpleDB.c`, as operators | a file is a sequence of its lines that are not marked `;` |
| `RecordText` | the parser of `SimpleDB.c`, the marks of `SimpleDBTxt.c`, the compose and parse functions of the lists, hand edits | `file`: lines as tokens with their mark. `errno`: what the C library has left. `found`: the result of the last search |
| `DeviceList` (EXTENDS `RecordFile`) | `interface_devicelist.c`, the callbacks of `zbController.c`, `SRPC_changeDeviceName`, start-up | `db`, `tmp`: the file under the list's name and under the name with `.tmp`. `job`: what is left of the callback or start-up under way, one action per write. `out`: the `SRPC_NEW_DEVICE` broadcast of the last step. `holder`, `owed`: the network, who has an address and which descriptors were asked for |
| `DeviceRegistry` | the abstract specification: a table, one message per change, a crash loses at most one entry | `table`, `up`, `note` |
| `Gateway` (EXTENDS `DeviceList`) | the gateway and one Android client (`ZigbeeAssistant`, `ZigbeeSrpcClient`), and the refinement `DeviceRegistry WITH table <- ...` | `mirror`: `ourDevices`. `session`: not connected, connected, list received |
| `SocketServer` | `socket_server.c` with the close of the gateway, the loop of `main`, `SRPC_RxCB`, `srpcSend`, `srpcSendAll` | `list`: descriptors of the records without the head. `fdTable`, `backlog`, `peer`, `inq`: the kernel's side. `pc`, `round`, `todo`, `at`: the loop, its snapshot of events, messages to be written, the next record of a broadcast. `heard` is a history variable |
| `GroupScenes` (EXTENDS `RecordFile`) | `interface_grouplist.c`, `interface_scenelist.c`, the group and scene requests of `interface_srpcserver.c` | `groups`, `scenes`: the files. `lastGroupId`, `lastSceneId`: the static counters. `task`: what the process does, with the record of a group between its delete and its add. `radio`, `answer`: the command and the messages of the last step. `given`, `stored`: histories of what lights were told |
| `GroupScreens` (EXTENDS `GroupScenes`) | the gateway and the Android application: `groupSelect.java`, `sceneSelect.java`, their lists in `ZigbeeAssistant.java`, connecting and receiving in `ZigbeeSrpcClient.java` | `ourGroups`, `ourScenes`: the lists. `groupItems`, `sceneItems`, `currGroup`, `currScene`: what the spinners show and the positions chosen (counted from 1, 0 for none). `requests`, `inbox`, `oldInbox`, `readers`: the streams and the threads that read them. `unfiltered` is a history |
| `SocketClient` | the two threads of `socket_client.c` | `rxBuf`, `rxProcBuf`, `searchList`: the lists, of cells. `heap`, `live`: what `malloc` gave out. `mutex`, `rx`, `hd`: the mutex and where the threads are; `hd = "wait"` is the wait set of the condition variable. `handled` is a history |
| `CommandLine` (EXTENDS `SocketClient`) | `listdevs.c`, `flashled.c`, `openNetwork.c`: their main threads, connecting and closing in `socket_client.c`; `SRPC_RxCB` at the other end | `main`, `loops`: the main thread and its counter. `upLine`, `sock`, `fin`: the byte stream. `gw`, `byteToRead`, `got`: the gateway cutting it into requests. `acted`, `cut` are histories |
| `SerialFrames` | `zbSocOpen`, `zbSocProcessRpc` | `line`, `tty`: bytes under way and arrived. `pc`, `rpcLen`, `rpcBuff`, `retryAttempts`: the reader. `heard`, `lost` are histories |
| `FirmwareProbe` (EXTENDS `SerialFrames`) | `zbFwStart.c` and `getFwModel.c`, the write that flushes, the two answers they use | `program`, `command`, `timeoutCnt`: the probe. `soc`, `up`, `says`: what the processor can do and what its frames say. `verdict`: what was printed. `slips` is a history |
| `LightControl` | `zllMain.java` with its task `waitRspTask`, `ZigbeeDevice`, the set and get messages of `ZigbeeSrpcClient`, and their way through `interface_srpcserver.c` and `zbSocCmd.c` | `ui`, `rx`, `tasks`: where the main thread, the receive thread and the tasks are. `updated`: `currentColorAttrsUpdated`, `shown`: the values. `requests`, `air`, `answers`: messages to the gateway, in the air, to the application. `lights`: the real values, which may be anything when the application starts. `had`, `heard`, `known`, `raced` are histories |
| `RecordFile_proofs`, `RecordText_proofs`, `Gateway_proofs`, `SocketServer_proofs`, `GroupScreens_proofs`, `CommandLine_proofs`, `FirmwareProbe_proofs`, `LightControl_proofs` | lemmas and theorems, over the module of the same name (`Gateway_proofs` also over `DeviceList`, `GroupScreens_proofs` also over `GroupScenes`, `FirmwareProbe_proofs` over `SerialFrames`, `CommandLine_proofs` over `SocketClient`) | |
| `MCDeviceList`, `MCGateway`, `MCGroupScenes`, `MCLightControl`, `MCRecordText` | constants and the symmetry of the runs; `MCLightControl` also chooses initial states | the others are checked as they are |

Correspondence worth knowing.

- `job` splits a callback exactly at its writes to the file; a callback that dies in between leaves what
  was written. The loop starts nothing else meanwhile: every other action but `Crash` and the network's
  own needs `job = Idle`.
- `DescribesNew`, `DescribesExisting` and `DescribesMoved` are the three branches of
  `zdoSimpleDescRspCb` after the dummy record has gone; `AddDevice` is its common end.
- `Readable` is the parser's verdict. Which addresses and names it rejects is a constant. `RecordText`
  justifies this: for a process whose `errno` is not ERANGE the verdict is a function of the record (`ReadsBack`,
  `FindsFirst`), and only a number `strtoul` cannot represent, which the gateway itself never writes, sets ERANGE.
- TouchLink: `processRpcSysAppTlInd` leaves the IEEE address and the name of its record uninitialised, so
  they are chosen freely, and a name that points nowhere ends the process (`TouchLinkDeath`).
- `SocketServer` abstracts from what messages say: a serial frame causes up to `MaxMessages` broadcasts
  and a batch of requests up to `MaxMessages` replies. `WriteResult` and `AfterWrite` are what TCP does on
  a write: to a closed peer it succeeds and provokes a reset, the next one raises SIGPIPE, which the
  program does not handle.
- A descriptor closed earlier in a round and read later (`ReadClosed`): `ioctl` fails, the byte count is
  uninitialised, so either nothing is read or `error()` ends the process.
- `GroupScenes`: only the first `MaxMembers` members of a record are read back, so a request may append
  behind them and drop what was there. A record with an empty name reads back with a NULL name and kills
  the process in every search that meets it (`Kills`); the searches stop at the first match, so a group in
  front of it is still found. The answer to a store has the wrong length and its name lacks the first
  character (`SceneAnswerName`).
- `GroupScreens`: `user` is chosen in the initial state. With "app" the requests are those of the application, in
  the order of its stream; with "any" they are those of arbitrary clients, as in `GroupScenes` alone. An action of a
  screen is what its thread does without giving way to the receive thread in a way anyone can see. What Android
  does is taken as documented: a spinner that is filled reports its first entry as chosen, one that is emptied that nothing is. A screen whose button
  finds nothing at a position ends the application by an exception (`ButtonDies`, `OpenScenesDies`). `Launch`
  again in a living process leaves the receive thread of the old connection, which reads the static `inStream` anew
  and so goes on with the new one; when both take a part of a message the model stops following the application
  ("wild").
- `SocketClient`: between a receive and its hand-over nothing else happens in that thread, so a list holds one
  message; the lists are sequences all the same. A freed cell that is walked is undefined behaviour and
  stops the model (`HandleFreed`). The counter `messageCount`, which both threads write, is only printed
  and left out.
- `CommandLine`: `FIONREAD` counts once (`Counts`), then requests are read until the count is used up; a read beyond
  what has arrived fails, and `cut` remembers that the count ended inside a request. Closing destroys the mutex and
  the condition variable under the threads, which is undefined: the program ends or hangs (`CloseAndExit`). The
  table of callbacks has two entries; a message of another command calls what lies behind it (`HandleForeign`).
- `FirmwareProbe`: a command longer than eight bytes is written in pieces, and `TCOFLUSH` discards what has not left
  after each (`WriteDiscarded`); an answer may come after the time-out that repeats the command.
- `SocketServer` and the close request: `socketSeverClose` closes every client and the process exits
  (`CloseGateway`).
- `SerialFrames`: a byte carries its place in its frame, so that `Process` can tell a whole body from
  pieces. `Byte` scales the width of the length counter; `Lengths` keeps the protocol's distance to it.
- `LightControl`: the marks of a device are bits of one field; the two threads load, change and store it without
  a lock, and each load and store is a step (`ClearLoad`, `ClearStore`, `Receive`, `Mark`). `raced` remembers the
  lights for which such updates overlapped, since nothing can be promised of their marks. The task reads
  `currDevice` anew for each attribute; when a group has been selected it is null, and the exception ends the
  application (`TaskDies`). Threads see each other's stores in order: what the Java memory model allows beyond
  that is left out. The four reads of a selection are queued in one step, as nothing tells their order to those of
  another thread apart. Values behind a frame that has ended are one value, `Undefined`.
  An endpoint above 127 is sign-extended to 8 bits in one place and to 16 in the other, so the answers of such a
  light are never taken (`Found`).
- A definition marked *Mutant* is a plausible bug of the definition that follows it, used to see that
  a property notices. No specification uses it.

## Runs

| run | shows | states |
|---|---|---|
| `gateway_sync` | one device with two endpoints, two addresses, a client: `UniqueEndpoint`, `AnsweredIsListed`, `MirrorAgrees`, and `RegistrySpec`, the refinement | 660 000 |
| `device_chaos` | two devices sharing an address, an address and a name the parser rejects, TouchLink, crashes: `RestartKeepsList`, `UnreadableKept`, `PairingsWereAnnounced` | 2.5 million |
| `record_text` | devices and groups at the limits of their fields, names with quotes and line feeds, files edited by hand: `ReadsBack`, `FindsFirst`, `GoodLinesSurvive`, `RestartKeepsAnswers` | 124 000 |
| `start_loses_list` | `RestartKeepsList` fails when the process dies between `remove` and `rename` (finding) | |
| `late_answer` | `AnswersFindRecord` fails for an answer after a leave (finding) | |
| `socket_server` | two clients that connect, send, close, abort, stop reading or stop the gateway, and accepts that fail: `FdsOwned`, `BroadcastReachesAll`, `DropsMatchEvents`, and the liveness properties `DepartedIsForgotten` and `RequestsAreRead` | 276 000 |
| `stale_poll` | `OnlyDepartedDropped` fails when a broadcast closes a descriptor and an accept of the same round reuses it (finding) | |
| `group_scenes` | three lights, groups and scenes with good and empty names, ids modulo 2 and 3, restarts, and the application with its two screens: `GroupIdsStable`, `RecallsWhatWasStored`, `MembersKept`, `ButtonsMeanWhatIsShown` | 1.1 million |
| `client_threads` | the three programs, messages and requests in pieces, cells that are reused, spurious wakeups, a close at any time: `HandledInOrder`, `ListIsExclusive`, `ActedAsAsked`, `FlashesAsTold`, and the liveness properties `NewestIsHandled` and `RequestsAreCarriedOut` | 142 000 |
| `hand_over` | `ListFinished` fails when a second message comes before the handle thread ran (finding) | |
| `serial_frames` | the gateway and both probes, processors that lack or fail a command, frames with start bytes inside, bytes at any time: `FramesProcessed`, `GarbledNeedsStartByte`, `UnknownNeedsLosses`, and the liveness properties `ReaderReturns` and `ProbeEnds` | 801 000 |
| `light_control` | two colour lights, one with a high endpoint, a plug, a group; two selections, or one and a command: `ShownWasHad`, `MarksAreTrue`, `WaitSeesAnswers` | 3.9 million |

Bounds, and why they are enough:

- `MaxLines`: no new record when the file has that many lines. Four lines hold two endpoints of a device
  together with their dummies, or both at an old and a new address, which every callback needs at most.
- Two addresses make a move; two endpoints make a leave that takes several writes and a partial move
  (one endpoint answered, the other not). `device_chaos` takes one endpoint but two devices and three
  addresses, one of which the parser rejects.
- Two connections and two descriptors are what reuse of a number needs. An accept may fail at any time ("limit").
- `MaxMessages` = 2: the second write to a closed peer is the one that kills. `MaxBadRecords` = 1: the
  program has no such limit and would use up its memory; all records of failed accepts behave alike.
- `group_scenes`: two ids for groups and three for scenes make both counters wrap; three scenes use all ids
  up. Two members are read back of a group (`MaxMembers`), three lights exceed it; the application adds one.
  Lights are symmetric: the model only compares them. Two names of each kind make a scene pass from one group to
  another and a late answer come before a name that is typed in. `MaxPresses` = 5 is what it takes to type in a
  group and a scene, add a light, store, and recall; `MaxRequests` = 2 and `MaxUnread` = 1 hold requests and messages
  back, and `MaxItems` = 2 holds the answers for a third entry. The application is started again at most once per
  process, with no request under way.
- `record_text`: three lines are a group or a device, a bad line and another record; the values in the records
  are those at and beyond each limit (`HexLen`, `MaxMembers` and `ULongMax` scale the others).
- `client_threads`: three messages in three cells overwrite one another and reuse a cell that was freed. `Word` = 8
  scales the 16-bit loop counter; the arguments are 0, 1, an ordinary one and the largest, whose counter wraps. Three
  requests arrive cut in every way.
- `serial_frames`: `Byte` = 8, so a body of up to 4 bytes and a false length that reaches the counter's limit
  both occur; the frame after a lost one is found or not. Two retries stand for five. There are three
  frames: up to two that the gateway gets unasked, or the answers of a probe, whose time-outs are the program's own, 5 and 3. Frames the
  processor sends unasked to a probe are left out: `ProbeEnds` says nothing of a probe that they keep awake.
- `light_control`: two attributes of the four, since the code treats all alike and two are what a light may lack one
  of; two selections make a stale task and answers to an earlier selection. Two rounds, asking again in the
  second, stand for 100 and 30. `MaxReads` and `MaxAnswers` = 1 hold messages back, not lose them: a message
  waits in the queue before, which it could do anyway, so only two answers overtaking each other is left out.
  `Init` lets the lights be set to anything; the run starts from two of the 64 cases (`MCInit`): the colour light at the
  application's default 0 and the others at 1, and the reverse. So each light starts once with values its object does
  not show, and a value of another light is always a wrong one. The theorems hold from every start.
- `CHECK_DEADLOCK FALSE` in the socket, client, serial and light runs: the process may end (SIGPIPE, `error()`, an
  exception), the gateway may close, or all frames are read. The others check for deadlock.

`Faults` turns on what a run needs. `DeviceList`: "crash" (the process dies anywhere but in the gap),
"gap" (between removing the original and renaming the copy), "full" (a write of the copy fails), "missed"
(an announce while the gateway is down). `SocketServer`: "abort" (a peer resets), "slow" (a client does
not read and a write fails), "limit" (an accept fails for want of descriptors), "stop" (a client asks the gateway to
close). `GroupScenes`: "crash", "gap" (between
the two writes of a group, where its record is lost and its id free again). `SocketClient`: "short" (a message
arrives in pieces), "spurious" (a wakeup without a signal). `CommandLine`: "pieces" (requests arrive in pieces), "foreign" (a message
that some other client caused).

Fairness. `SocketServer` states `WF_vars(ServerStep)`: one process runs the loop, `poll` returns when
something is ready, client sockets are non-blocking, so the process keeps making steps. Nothing is assumed
of peers, of the network, or of which outcome a write has. `CommandLine` states weak fairness of the main thread, of
each thread of the library and of the gateway, which the schedulers give, weak fairness of bytes and of the end of the
stream, which TCP delivers as long as there is a connection, and strong fairness of `RxMoves`: a thread that waits for
the mutex is woken by its unlocking, so spurious wakeups of the other thread do not keep it out for ever. It assumes
nothing of the messages that come. `FirmwareProbe` states weak fairness of the program and nothing of the line or of the
processor: `poll` returns after its time-out. The other specifications state none and have no liveness property.

## Proofs

| theorem | states | assumptions |
|---|---|---|
| `Gateway_proofs!TypeCorrect` | `Spec => []TypeOK` | those on the constants |
| `Gateway_proofs!RestartSafe` | `Spec => RestartKeepsList`, for a list of any length | "gap" and "full" are not in `Faults` |
| `Gateway_proofs!OneRecordPerEndpoint` | `Spec => []UniqueEndpoint`, with every fault | an address is only given to one device, no TouchLink |
| `Gateway_proofs!PairingsAreAnnounced` | `Spec => PairingsWereAnnounced`, with every fault and address reuse | those on the constants |
| `Gateway_proofs!AnswersAreListed` | `Spec => AnsweredIsListed`, with every fault | the parser accepts the empty name |
| `Gateway_proofs!RejectedLinesStay` | `Spec => UnreadableKept` | "gap" and "full" are not in `Faults` |
| `Gateway_proofs!ListKeepsItsPromise` | `GwSpec => RegistrySpec`, the refinement | an address is only given to one device, no TouchLink, no name is rejected, "gap" and "full" are not in `Faults` |
| `Gateway_proofs!ClientKnowsTheList` | `GwSpec => []MirrorAgrees`, with every fault | an address is only given to one device, no TouchLink, no name is rejected |
| `SocketServer_proofs!ServerTypeCorrect` | `Spec => []TypeOK` | those on the constants |
| `SocketServer_proofs!NoDescriptorLeaks` | `Spec => []FdsOwned` | those on the constants |
| `SocketServer_proofs!OnlyStaleEventsDrop` | `Spec => DropsMatchEvents` | those on the constants |
| `SocketServer_proofs!BroadcastIsComplete` | `Spec => BroadcastReachesAll` | those on the constants |
| `GroupScreens_proofs!GsTypeCorrect` | `GsSpec => []GsTypeOK` | those on the constants |
| `GroupScreens_proofs!GroupIdsNeverChange` | `GsSpec => []GroupIdsStable` | the parser rejects no member, "gap" is not in `Faults` |
| `GroupScreens_proofs!ScenesRecallTheirOwn` | `GsSpec => []RecallsWhatWasStored` | those on the constants |
| `GroupScreens_proofs!GroupsKeepMembers` | `GsSpec => MembersKept` | "gap" is not in `Faults` |
| `GroupScreens_proofs!GrTypeCorrect` | `GrSpec => []GrTypeOK` | those on the constants |
| `GroupScreens_proofs!ButtonsMeanIt` | `GrSpec => []ButtonsMeanWhatIsShown`, with every fault | those on the constants |
| `GroupScreens_proofs!GroupIdsNeverChangeOnScreen` | `GrSpec => []GroupIdsStable` | the parser rejects no member, "gap" is not in `Faults` |
| `GroupScreens_proofs!ScenesRecallTheirOwnOnScreen` | `GrSpec => []RecallsWhatWasStored` | those on the constants |
| `GroupScreens_proofs!GroupsKeepMembersOnScreen` | `GrSpec => MembersKept` | "gap" is not in `Faults` |
| `CommandLine_proofs!ClTypeCorrect` | `ClSpec => []ClTypeOK` | those on the constants |
| `CommandLine_proofs!ListsAreExclusive` | `ClSpec => []ListIsExclusive` | those on the constants |
| `CommandLine_proofs!MessagesInOrder` | `ClSpec => []HandledInOrder` | those on the constants |
| `CommandLine_proofs!RequestsAreCutRight` | `ClSpec => []ActedAsAsked` | those on the constants |
| `CommandLine_proofs!FlashLedFlashes` | `ClSpec => []FlashesAsTold` | `StartWith` is 0 or 1 |
| `FirmwareProbe_proofs!PrTypeCorrect` | `PrSpec => []PrTypeOK` | those on the constants |
| `FirmwareProbe_proofs!FramesAreProcessed` | `PrSpec => []FramesProcessed` | those on the constants |
| `FirmwareProbe_proofs!GarbledNeedsBoth` | `PrSpec => []GarbledNeedsStartByte` | those on the constants |
| `FirmwareProbe_proofs!UnknownOnlyAfterLosses` | `PrSpec => []UnknownNeedsLosses` | `InfoTimeouts` is at least 1 and `MaxTimeouts` at least 2 more (3 and 5 in the code) |
| `RecordText_proofs!LinesAlwaysMeant` | `Spec => []LinesAreMeant`, the inductive invariant | those on the constants |
| `RecordText_proofs!AlwaysReadsBack` | `Spec => []ReadsBack` | those on the constants |
| `RecordText_proofs!SearchFindsFirst` | `Spec => FindsFirst` | those on the constants |
| `RecordText_proofs!GoodLinesStayGood` | `Spec => GoodLinesSurvive` | those on the constants |
| `RecordText_proofs!RestartChangesNoAnswer` | `Spec => RestartKeepsAnswers` | those on the constants |
| `LightControl_proofs!LightTypeCorrect` | `Spec => []TypeOK` | those on the constants |
| `LightControl_proofs!ScreenShowsTheTruth` | `Spec => []ShownWasHad` | those on the constants |
| `LightControl_proofs!MarksCanBeTrusted` | `Spec => []MarksAreTrue` | those on the constants |
| `LightControl_proofs!WaitIsHonest` | `Spec => WaitSeesAnswers` | those on the constants |

`TypeOK` is inductive as it stands. It carries more than types: `SimpleDescRsp`, `ChangeDeviceName` and
`RemoveNext` take a field of `db[FirstOf(...)]`, so the proof shows that the searches return lines that exist
(`FirstMatch`) and that deleting a line leaves a sequence of records (`DeleteRecordProperties`, from
`RemoveAtProperties`).

`RestartSafe` needs `CopyIsPrefix`: while the list is copied, `tmp` is a prefix of `db`, and when the
copy is over it is all of `db`. It holds because `OpenDatabase` empties `tmp` whatever an earlier run
left in it, and nothing else writes `db` before `RenameCopy`. Without "gap" a crash never
meets the state in which only `tmp` has the list, so `List` is unchanged by every step that starts or ends
outside serving.

`OneRecordPerEndpoint` needs `KeysInv`. `UniqueEndpoint` is about `db`; it is not inductive because
`AddDevice` appends `job.rec` without looking. `PendingNotListed` says that no line has its key: for a new
endpoint because the callback looked (`DescribesNew`), for a move because the line it found was deleted,
and for a rename likewise. That the *deleted* line is the one that was *found* is the subtle part: the
endpoint is looked up by IEEE address and deleted by network address. They are the same line because records
of an address belong to one device, which is `PairsAssigned` with the hypothesis that an address is given
to one device only; and since the list is unique, no second line is left. `UniqueIn(tmp)` and `CopyIsPrefix` carry it
over a restart. Without the hypothesis the property is false: with address reuse an answer is given the
IEEE address of the previous holder.

`PairingsAreAnnounced` has no hypothesis: address reuse, TouchLink and crashes are all allowed. The steps of a callback
only pass on pairs that the list or the callback already has (`PairFound`, `PairsOfFiles`); the list
is taken to be in `tmp` between the removal of the original and the renaming, and a crash there must not bring an older list back,
hence `NameIsFree`. `AnswersAreListed` needs that an address whose descriptor answer is being
handled is one the parser accepts (`AddressIsReadable`), which holds because its announce was found in the list to get
there; a record with a name the parser rejects would be added and never be found again.

`RejectedLinesStay` is about order as well as presence. A line the parser rejects matches no key, so every deletion is of a readable
line, and an addition is at the end. That the rejected lines then stay in their order is `SelectedMoved`: lines that move
without overtaking each other are selected in the same order. It rests on counting (`NthOf`, `RankProperties`) and needs
no induction over the list. Over a start-up it needs `CopyIsPrefix`, as `RestartSafe` does.

`ListKeepsItsPromise` maps each step of the gateway to one of `DeviceRegistry`: a callback that ends to `Register` or `Move`, a deletion to
`Withdraw`, the death and the restart of the process to `Die` and `Start`, everything in between to a stutter. The table is that of `List`; a record that
was deleted and is about to be added again is `InFlight`. `ListInv` (`KeysInv`, `AddressIsReadable` and `JobIsSound`, what each kind
of job knows of the list) is what makes a move one step: the record that was deleted is the one that was found (`MoveFindsOld`). `ClientKnowsTheList` rests on
`MirrorFollows`: what a connected client shows is part of `Known`, the table with what is in flight, and a client that has read the list shows all of it.
Most of its proof is that a registry step and its message have the same effect (`MessageStep`), so that it needs nothing of the files.
Each hypothesis is needed: an address given again yields a record of the previous holder's IEEE address, a TouchLink adds a record without looking whether
there is one, and a rename to a name the parser rejects hides the record, so that the next announce registers the endpoint twice.

`SocketServer_proofs` proves one invariant, `ServerInv`, and its theorems follow from it. `FdsOwned` (each open descriptor
has one record, each record that is not -1 an open descriptor) needs to know that a descriptor that is accepted
is free and that removing the first record of a descriptor removes its only one (`RemoveFirstProperties`,
`DeleteSocketRecKeeps`). `DropsMatchEvents` is about a snapshot: `RoundIsTrue` says that an event "shutdown" in the round
belongs to a connection whose peer is still gone, and that the listening socket comes first, so that whatever is
accepted in a round is none of those the round was polled with. That is what makes a dropped live client the
victim of an event of another connection. `ReplyHasReader`: nothing closes the descriptor between the read of a request and its last reply.
`WrittenBefore` is the loop invariant of `socketSeverSendAllclients`.

`GroupIdsStable` relates what lights were told (`given`) and says nothing of the file, so it is not inductive. `GroupsInv`
adds that readable groups differ in ids and names (`GroupsDiffer`) and that the file says what lights were told (`GivenListed`), with the group
between its two writes counted in (`AllGroups`). The id search gives one not in use for any width and any last
id (`FirstUnusedProperties`), so a counter that wraps or is forgotten by a restart does no harm. The two hypotheses are needed: a group with a member the parser
rejects, or lost in the gap between its two writes, is forgotten and its id is given out again. Scenes have no such gap: `ScenesInv`
needs neither.

`ButtonsMeanWhatIsShown` compares the application's lists with what its spinners show. It says nothing of the file or of the messages
under way, so a list message could bring any id, and a list could shift under a position chosen before. `ScreensInv` adds that what the files list and what both
streams carry (`RecordsGiven`, `Tells`) was told to lights, and that a list only grows at its end and keeps the names at their positions
(`Kept`, from `EntrySetProperties`), even while the threads of an old and a new connection both fill it. A name typed in is in its list before the gateway knows it, without an id, and the position of its
entry is the one its answer fills in. Requests carry ids of the right width, so each step of the gateway in the composition is a
`GatewayStep`, as each step of `GsSpec` is (`StepIsGatewayStep`). The invariants of groups and scenes are proved for every `GatewayStep`, so they hold of
both specifications, and of `GrSpec` the run checks them.

`ClInv` has one part per actor. `ThreadsInv` is about the list between two threads. `HandledInOrder` alone is not inductive:
a callback may get what is still in one of three lists, of cells that are freed and given out again, so `PipelineInOrder`
orders the lists among themselves by the messages their *cells now hold*, and `OnlyNewerLeft` relates them to what was handled. That a list may be
handed over before its predecessor is finished (finding `hand_over`) drops messages but keeps the order; this needs `WalksTheLast`.
`RequestsInv` is about the stream: what was carried out, the header that was read, what has arrived and what is under way are the bytes of
the requests without a gap (`StreamIsWhole`), and the bytes counted are whole requests that are there (`CountIsWhole`), unless
a count ended inside a request (`cut`). `CounterCounts` and `NextAlternates` tie flashLed's wrapping counter to what it has sent. With an
optional argument other than 0 and 1 flashLed compares unequal always and only switches off (`flashled.c:122`), hence
the hypothesis of `FlashLedFlashes`.

`FirmwareProbe_proofs` looks at the serial line as one stream: the body the reader has begun, what has arrived and what is under way. What is in it
is always a piece of what was sent that reaches to its end (`Piece`), and a step adds a frame, takes bytes from the front or leaves it alone (`SendsGrow`, `ReadsShorten`).
`InSync` and `AtNext` say where the reader is in it. They are separate because they depend on different things: unless a frame was lost *and* a body holds a start byte, the
reader stands where its state says it does, and only as long as nothing was lost is it the next frame's. The length counter does not wrap there because a frame
the processor sends has at most 250 bytes of data (`LengthFits`), and for the same reason the -1 of a failed read is noticed (`FailureUnnoticed` needs
255 bytes to be missing). `UnknownNeedsLosses` follows from `LossesCounted`: every poll that could be answered and lies back has cost a loss, and so has the present one when neither the next
command nor an answer under way leads to the model any more (`Alive`). A late answer of an earlier poll does no harm, as it can only lead on.

`LightInv` follows values and marks over three threads. `ValuesWereTrue` says of every answer in the air and in the stream
that its value is one its attribute has had, so that what is stored of it is, however late it comes: nothing on the way keeps a
value for another attribute. That is so from whatever the lights are set to, as `ShownWasHad` speaks of attributes that have been
received (`known`) and not of Java's default in the fields of the others. `LoadsAreFresh` is what makes the marks true: between the load and the store of a thread the marks are
unchanged, or the light is in `raced`. `PassedAreMarked` is what `WaitSeesAnswers` needs: a task looks at one attribute at a time and
reads `currDevice` anew each time, so what it has passed must still be marked when it comes to the last. It is, because a
selection in between would show in `since`, and nothing else takes a mark away. TLC checked the invariant on the instance of
`light_control` before it was proved.

`RecordText_proofs` is about what loops compute: over the bytes of an address, the members of a group, the lines of a file. The
loops are recursive functions, and what they compute is proved by induction over the index. The induction theorems of the library take
an operator as a parameter, which no prover here can instantiate; `UpTo` says the same of a *set* of numbers
that has 0 and with each number the next one, and follows from there being a first number that is not in it. Each loop has a lemma that its function exists
(`SearchLoopExists` and the like) and one for its step.
`ReadsBack` is not inductive, since of a line it says only what the parser makes of it, and searches, deletions, starts and hands rewrite lines. `LinesAreMeant` is: a line
has the text the gateway composes for the record it is for, or a text the parser rejects. So for every record of the widths of
`epInfo_t` and `groupRecord_t` the text is followed through the parser field by field (`DeviceRead`, `GroupRead`), and
so is the second line that a name with a line feed leaves (`JunkFails`). What the parser lets through at most is 16#FF00 for two bytes (`FieldLimit`), and what
a group has beyond `MaxMembers` members is not looked at. `HandAssumption` is the assumption on what a person writes: lines the gateway could have written, in any
state of mark and line feed, or lines the parser rejects. A line the parser takes although the gateway would not write it, say a device with something behind its name, is not covered.
`FindsFirst` and `GoodLinesSurvive` follow from `ScanFinds`, which relates a search at each line to the hits among the lines it has come
to (`Found`), as long as errno is not ERANGE; that it changes no line it has not come to is `ScanKeeps`. `RestartKeepsAnswers` holds with ERANGE as well: the search
in the file before the start and the one in the file after it go in step (`ScansInStep`), line by line at the ranks of the lines that are kept, and meet the same numbers in the same order,
up to the first line without a line feed, where both are over. TLC checked `LinesAreMeant` on the instance of `record_text` before it was proved.

Only model-checked: the liveness properties (`DepartedIsForgotten`, `RequestsAreRead`, `NewestIsHandled`,
`RequestsAreCarriedOut`, `ReaderReturns`, `ProbeEnds`), which are out of the prover's reach.

## Findings

Four runs end in a counterexample that contradicts a comment in the code: `start_loses_list`
("restore device list from file", `interface_devicelist.h:81`), `late_answer` ("other wise get IEEE from a
previous EP", `zbController.c:219`), `stale_poll` ("its a shut down close the socket", `socket_server.c:366`),
`hand_over` ("Handle thread must make sure it has finished its list", `socket_client.c:533`). `PROJECT.json` tells
each in a sentence.

Some properties hold only outside a case that the code gets wrong, and say so: `BroadcastReachesAll` leaves out
broadcasts that drop a client (the function returns there, and the clients after it miss the message);
`ShownWasHad` leaves out attributes not received since the application started. The fields of their objects have Java's
default 0 (`ZigbeeDevice.java:71-74`), which the light may never have had; when a wait is given up with one answer, as of the on/off state
alone, the colour picker draws that hue and saturation as the "last known values" (`zllMain.java:281-283`). Without the restriction the
invariant fails in the first state;
`MarksAreTrue` and `WaitSeesAnswers` leave out marks updated by two threads at once, and looks during which the
selection changed (a verdict may then mix two lights). In `TaskGivesUp` an attribute that a light lacks counts as
received, so that only a light that has them all can be found silent. `ActedAsAsked` leaves out bytes that were counted
while a request was arriving: the gateway then ends, or takes the rest for a new request. `ButtonsMeanWhatIsShown` leaves
out scene spinners that do not show all scenes: their positions are used in the list of all (`sceneSelect.java:212`).
`FindsFirst` and `GoodLinesSurvive` leave out a process that has met a number out of range: it marks every line it comes by
as bad. `UnknownNeedsLosses` leaves out the command that starts the network, which is not repeated.

## Not modelled

- the layout of frames and messages in `zbSocCmd.c` and `interface_srpcserver.c`: a command or a message is one value;
- the requests to bind, identify and open the network for joining beyond their way through the byte stream, and the
  senders of `zbSocCmd.c` nobody waits for (bind, identify, TouchLink, resets): they pass a command on and change no state;
- `sdb_modify_record`, `devListRemoveDeviceByIeee`, `devListNumDevices`, `groupListAddGroup`: nothing in the program calls them;
  binary record files, which the code does not write yet;
- in `SerialFrames`, reads that return 0 instead of failing (`EmptyRead`) are defined but not in a run: the reader then
  spins until the frame is complete, and `ReaderReturns` does not hold;
- levels between the old and the new value while a light changes, and what the colour picker draws;
- in the Android application: `bindSelect.java`, `optionsMenu.java` and `ZigbeeNotification.java`, which keep no protocol
  state; devices chosen in spinners of the other screens (any light is); its side of renaming a device;
- a gateway that is not found, and names that resolve to nothing: a connection is made or fails.

## Plan

1. A run that shows a silent light without colour reported as found, and one for address reuse in `DeviceList`.
2. New devices found by comparing the size of a list before and after (`zllMain.java`), with devices that leave meanwhile.
3. Proofs: that the entries a spinner shows are those the file lists once nothing is under way.
