# TLA+ models of the Z1 ESP32 firmware

The firmware runs on an ESP32-P4 between *hosts* (TCP clients, one USB host, BLE
provisioning, HTTP) and a *motion controller* on a UART. It routes their frames,
moves files between hosts and the SD card, streams G-code files to the
controller, updates itself and the controller, and keeps Wi-Fi, SD, camera and
CANopen devices alive. It is C++ on FreeRTOS: `src/components/core` holds the wire
format, `src/components/application` the state machines behind interfaces,
`src/main` the tasks and device adapters that drive them.

The models follow the code, not its documents. `PROJECT.json` maps every
definition to the lines it stands for.

## 1. Inventory

| component | state | operations | interacts through | hard because | correct when |
|---|---|---|---|---|---|
| Host file-transfer arbitration (`runtime/ownership`, `storage/file_transfer_*`, `tcp_control_adapter`, `usb_transport_adapter`) | file owner; per host an admission (active, pending) and an upload and download machine | start, data, poll, connect, disconnect | the owner, shared without a lock by four slot tasks and the USB worker | interleaved claims, pipelined starts, clients that leave | one transfer at a time, by the owner; ownership returned |
| File upload | packet state, counters, open stream, files on the card | start, packets, poll, resume, complete | host frames, SD card | storage faults, power loss, retries | never a torn firmware image; success means whole; it ends |
| File download | packet state, file position, last response | start, packets, retry, poll, resume | host frames, SD card | 32-bit offsets, retries after faults | a frame holds the block it names; no leaked handle |
| TCP slot tasks (`tcp_control_adapter`) | session, notification counter, helper handles | accept, receive, local commands, close | NVS worker, M942 worker | two helpers share one notification | helpers never outlive their session; slots are freed |
| Streamed playback | owner, session, file handle, read position, retained response | play command, start, data, goto, terminal | host tasks and controller task share the session | no lock, replaced files, sticky stream errors | the lines sent are the lines named |
| Play line reader | bytes, position | read one logical line | chunk source | chunk boundaries, NUL, EOF | every line once, within the controller's limits |
| Host frame routing, TCP dispatch | decoder, transmit queue, local queue | dispatch, partial send | ownership, controller link | order of local acceptance and forwarding | a frame reaches its owner only |
| Host output scheduling | bounded queue | broadcast, purge | USB, TCP slots | queue at its limit | protocol replies are not purged |
| USB transport | decoder, queues, transmit state | callbacks, worker, reconnect | TinyUSB callback against tasks | two contexts, reconnect while sending | no frame mixed with another session's |
| Motion-controller link | inboxes, forwarder, query schedule, alarms | receive, route, poll | UART | spacing, capacity, lost answers | replies go to who asked |
| Controller firmware/config/factory transfers | three packet machines | request, data, retry, abort | UART, SD card | timeouts racing late answers | a transfer ends; no block skipped |
| Firmware update | package, partitions, staged image, persisted phase | load, write, select, stage, remove, restart; monitor and fetch; web update | NVS, SD, OTA partitions, controller | power loss at every step, four tasks | always an image to boot; no image given up before use; no update loop |
| Wi-Fi station and access point | driver link, saved credentials, retry number; command state, NVS jobs | commands, events, automatic retry; persist with a timeout | ESP-IDF event task, NVS worker, two transports | late events, jobs that outlive their command | credentials saved in pairs, no retry forgotten; acknowledged settings survive |
| Discovery | kept socket, burst socket, address fields | announce, burst, change of address | three tasks, no lock | a socket closed or lost between two tasks | the socket is renewed with the address, none leaks |
| BLUFI provisioning | sequence numbers, fragments | frames, connect, disconnect | BLE stack callbacks | reordered and partial fragments | only whole messages are acted on |
| SD lifecycle and retention | mount state | detect, mount, recover, delete old | every user of files | unmount under open files | no deletion of files in use |
| CANopen node, PDOs, dictionary, SDO client | NMT state, timers, mapping, request in flight | cycle, write, answer, timeout | CAN task, exercise worker | late answers, starved PDOs | reports come in time; an answer belongs to its request |
| Counters, wall clock, serial, NVS | totals, marks, operation slots | tick, save, command | NVS, three command tasks | power loss, stale events, check then write | meters never lie or go back; a granted number stays |
| M942 exercise | single-instance flag | start, step, stop | SDO, TCP slot | started twice | one at a time |
| Recording and retention | segment in memory, files on the card | frame, close, sweep | wall clock, SD card | names by the second, stale lists | no recording lost to another one |
| Live picture, preview (HTTP server) | owner, generation, stream tasks, session | start, stop, play, seek, preempt | sockets reused by number, arbiter task | bounded waits, tasks of older generations | one stream, for who asked last |
| Configuration documents, filesystem commands | files | load, save, restore | SD, NVS | power loss while saving | a document is old or new |
| Frame codec, multipart extractor | buffer | feed, extract | streams | resynchronisation | a valid frame is found |
| Diagnostics | bounded capture, log files | append, rotate | all tasks | limits | newest kept |

`PROJECT.json` lists these with their source files, and the hazards of
this code at the lines where they bite.

## 2. Modules

A run of one component checks its module; its constants get their values in the `.cfg`
file. `MCStreams`, `MCTransport` and `MCServices` put components that share no variable into
one run, and a module `<name>Proofs` holds the proofs. Definitions whose comment
begins with "Mutant", or which are described as a faulty form of the definition
below them, are never part of a specification: each shows that a property would
notice such a fault.

**HostFileTransfer.** `owner` is `Ownership::file_owner_`, `pending` and `active`
the admission of each runtime, `running` whether its upload or download is
active. The hosts are the TCP slots and USB. A task's handling of a frame is cut
wherever it touches the shared owner: the test in `claim_file` (`HandleStart`),
the assignment, `enqueue` and `begin_next` (`Admit`), the opening of the files
and a failure's release (`BeginNext`); a data frame is the router's check
(`RouteData`) and then the state machine with `release_if_finished`
(`HandleData`). `Poll` is the cycle of a connected slot's task or of the USB
worker. A slot without a client is not polled, as in the code. Two constants
restrict the environment: `OverlappingStarts` (a host sends a start before the
last one ended) and `RacingClaims` (two tasks are inside `claim_file`).

**FileUpload.** Refines "it goes on or it ends" of HostFileTransfer: every packet
kind in any order (`Handle`), silent polls, reconnects, and `complete()` one
storage operation at a time, so that power may go between any two. A block is
its number; a file is absent, old, new (exactly the announced blocks) or torn.
`Faults` says which storage operations may fail.

**FileDownload.** Every packet kind, the file's position, and the block offset
`(n - 1) * 8192` in 32 bits, counted in blocks: it wraps at `WrapBlocks`, and from
`SeekBlocks` on (`LONG_MAX`) the code does not seek.

**TcpClientWorkers.** The task of one slot, the NVS worker that executes a request
on the client's stack, and M942 workers that use its session. `notified` is the
FreeRTOS notification value; `ulTaskNotifyTake(pdTRUE)` ends a wait on any
notification and clears all.

**Playback.** Hosts claim and prepare (`Prepare`, `PrepareFails`); the controller
task handles one frame at a time, but reads a data response line by line
(`HandleData`, then `ReadLine`), which is where a host's preparation could come
in. The handle has a sticky error indicator, as a C stream does; `retained` keeps
the residue the code's buffer keeps. `RepeatedPlay` lets a host that owns a play
send the command again; `Overlap` lets a preparation run between two reads.

**PlayLineReader.** `PlayLineReader::read` over every file of bounded length, for a
source that obeys the interface (`"line"`) and for the one of the target
(`"block"`); `source` says which, and does not change. What the reader should deliver is defined by
counting: the k-th piece of a file reaches up to the end that has k ends up to it, where the ends
are those of lines (`LineEnds`), or of what the reader takes for a line (`StretchEnds`): with
blocks, all lines up to the end of the first block that holds a line feed.

**FirmwareUpdate.** The update task one lasting effect per step (`pc`), from the
request to the restart; the monitor that resets the controller while an image is
staged; the controller's firmware exchange (`HandleStart`, `HandleGeometry`,
`HandleData`, `HandleComplete`, `HandleCancel`, `HandleTimeout`) with `active_` and
`waiting_`; the web server's direct update; `PowerLoss` anywhere. An image is the
number of its package; a partition or the staged file may be torn. Outside the
code: the boot loader (`Restarted`) takes the other partition when the selected
one is not whole, `esp_ota_end` refuses an image that is not whole, and the
controller (`Program`, `ControllerReset`) asks for firmware after each reset, sends
one request at a time and programs what it got. Three constants restrict overlaps:
`UploadDuringUpdate`, `StageDuringTransfer`, `WebDuringUpdate`. A reset takes effect at
once, without the controller's queue; the monitor task is assumed to have started.

**HostOutput** and **HostDestinations.** The output scheduler with its two limits, the
purge when the last host leaves, the output task that takes a batch and delivers it to
USB and to every session under the registry mutex (HostOutput); and the pair of flags by
which transports tell the scheduler who is there, loaded and set in two steps
(HostDestinations).

**UsbTransmit** and **UsbRecovery.** The transmit queue between producers, the callbacks and
the worker that drains it packet by packet, with the watch for progress
(UsbTransmit); the phases of the reconnect recovery, whose `poll` reads a phase, acts on
it and stores the next while callbacks change it (UsbRecovery).

**ControllerLink.** One round of the task of the controller link, step by step: decode,
route into the inboxes, queries and alarms on their deadlines, then `drain_forwarded_frames`
with its spacing. Deadlines are the time left, which may be negative when the task is late.

**ControllerRecords.** The configuration and factory transfers to the controller: pieces of
records cut into frames, requests by index, retries, cancel and the removal of the file. A
record is known by the number of records before it, which is what an index asks for.

**ConfigurationStore** and **Settings.** Settings is what a user is promised: a table whose
entries change one at a time, and defaults that may be copied to and fro. ConfigurationStore is
the code: a document is read, changed, written to `config.tmp`, `config.txt` removed and the
temporary file renamed, with the mutex of the store around it and without it in the copies.
`Promised` maps it to Settings; while `config.txt` is removed the new document already counts.

**Station, AccessPoint, Discovery, Blufi.** The station with its driver (outside the code), the
event task, the delayed and the automatic connection and the commands of two transports,
each polled step a step of its own. At a start the saved credentials may be unreadable, their
configuration refused or the delayed task not created (`load_and_schedule`); a disconnect that is
heard gets a reconnect task, is left to the one there is, or is dropped because none could be
created (`HearDisconnected`), which the history variable `unheeded` remembers until the next one is
heard. The access point commands with the job that command and
worker own together. The discovery task with the two tasks that set its address and the
bursts. BLUFI from the attribute write to the staged credentials; `wiring` says whether the sessions
under `components/application` take the frames (`"stack"`), which report a negotiated key to the
commands, or the profile of ESP-IDF that the machine links (`"callbacks"`), whose callback does not
(`blufi_callback_adapter.cpp:115`).

**CanopenNode, CanopenPdo, CanopenDictionary, SdoExercise.** The NMT state, boot-up and heartbeat
with the restart of a bus that is off; the scheduler that sends at most one PDO per cycle; what
SDO downloads and receive PDOs may write; the exercise of M942 as an SDO client with its
mailbox, the CAN task that answers it and the queue of frames a driver refused.

**SdCard, VideoStore.** The card monitor as one poll per step, with the capture and the log
writer it drives; recordings named by the second of the wall clock, and the sweep of the oldest.

**RuntimeCounters, MachineIdentity.** The hour meters over any number of starts, with the queue of
stamped events; the serial number and the first-boot mark as NVS keys that are visible when
set and kept when committed.

**LiveView, Preview.** The arbiter of the live picture, its bounded queue, the binary semaphore by
which a stream reports its end, and descriptors the next connection gets again; the preview
session, its playing tasks and their generation, and the arbiter that ends it.

**FrameDecoder.** `StreamDecoder::push` under the three policies (TCP, UART, USB) over every cut of
short streams of frames and pieces; `round` is the body of its loop and `decoded` as many rounds as
there are bytes, and the reference is the same stream pushed at once. The longest frame and what a
transport reads at once are constants of the controller's UART and of hosts
(528 and 512 bytes for the UART, 8300 for hosts); `FrameSizesAssumption`
says that both of the UART fit its buffer of 2048 bytes.

**Connectivity, Canopen, Media, MachineRecords.** What belongs together: the conjunction of the
specifications of Station, AccessPoint, Discovery and Blufi; of CanopenNode, CanopenPdo,
CanopenDictionary and SdoExercise; of VideoStore, LiveView and Preview; of RuntimeCounters and
MachineIdentity; and the promise of each as one property.

Composition: `MCStreams`, `MCTransport` and `MCServices` hold several components in one run. A
behaviour there is that of one component (`part`); the others keep their initial state. What
components take from one another is named in the modules (SdoExercise takes the single worker
from TcpClientWorkers, CanopenPdo the accepted writes from CanopenDictionary).

## 3. Runs

| run | instance | checks |
|---|---|---|
| `host_transfer_serial` | 3 slots + USB, 2 pending; no overlap, no race | `OneTransfer`, `ReleasedByOwner`, `ExpiredIsReaped` |
| `host_transfer_overlap` | 1 slot + USB, both relaxed | `TypeOK`, `OwnershipBacked`, `PendingStarts` |
| `file_upload` | limits 2/3/2/4, 0, 1 or 3 blocks, parent/open/write/rename faults, power loss | `TypeOK`, `FirmwareNeverTorn`, `SuccessIsWhole`, `RequestAtBoundary`, `UploadEndsClean` |
| `firmware_update` | 2 packages (main, controller, both, bad), 2 blocks, OTA faults, 2 disturbances (power losses, cancels, late timeouts, commands, web updates); no overlaps | `TypeOK`, `BootImageWhole`, `RunningImageWhole`, `StagedIsDelivered`, `AggregateIsApplied`, `AggregateIsConsumed`, `StagedIsFetched` |
| `streams` | downloads: 3 blocks, wrap at 8, seek below 4, all faults; plays: 2 hosts, 2 files, 2 preparations, all faults; lines: all files of up to 6 bytes over text, LF, NUL, from both sources | `StreamTypesOK`, `DownloadIsFaithful`, `PlayIsFaithful`, `RunningPlayIsKept`, `LinesArrive` (every stretch once and in order, within the controller's limits, and from the first source every line) |
| `transport` | one slot with 3 connections and exercises; 2 sessions + USB before a full output queue; a USB queue of 2 frames of 2 packets; recovery with 2 pending events; a controller link with inboxes of 2 | `TransportTypesOK`, `SlotEndsClean`, `OutputServes`, `UsbDelivers`, `UsbRecovers`, `LinkServes` |
| `services` | eighteen components, see below; provisioning with both wirings; the station with failing configurations, task creations and first writes | `ServiceTypesOK` and ten properties |

The properties of `services`, and the parts they are conjunctions of:

| property | says |
|---|---|
| `DestinationsAgree` | the scheduler knows which transports have a host |
| `RecordsDelivered` | the controller got every eligible record before a transfer counts as done, and factory data is removed only then |
| `AcceptedValuesStay`, `ImplementsSettings` | an accepted value stays; the store is a table of settings |
| `ConnectivityServes` | `StationServes` (name and password saved as a pair, no reconnection forgotten but one whose task could not be created), `AccessPointKeeps` (a job lives while it is held, acknowledged settings are loaded again), `DiscoverySound` (the socket is renewed after a change of address, none is lost, one address is announced), `BlufiProvisions` (only whole messages are acted on; a connection is usable exactly when its key is negotiated, and behind the callbacks none is and no credential is staged) |
| `CanServes` | `NodeReports` (heard in time, and the truth), `TpdoPaced` (PDO p waits less than 2^p of its timers), `DictionarySound` (only mappable objects are mapped), `SdoServes` (an answer belongs to its request, and is of this cycle) |
| `SdCardServes` | the log is on the mounted card; a card is unmounted after enough samples, and then it is |
| `MediaServes` | `VideosKept` (no recording written over another, oldest removed first), `LiveServes` (one stream, for who asked last), `PreviewServes` (one playing task, of the open session; who loses a session is told) |
| `RecordsStayTrue` | `CountersHonest` (never more than there was, never back), `IdentityKept` (a granted serial number is the serial number) |
| `DecoderFaithful` | frames do not depend on how the stream was cut; none is made up; none is lost in a clean stream |

**Bounds.** Hosts are symmetric but for USB, and a conflict needs two, so two or
three are enough; two pending starts reach "full" and "more than one waiting". A
file of three blocks has a first, a middle and a last one, zero is the announced
count the code treats like one. The upload limits are smaller than the code's
(and differ from each other) so that each is reached, alone and with another.
Chunk and line sizes keep the code's order (line < chunk) and let a file hold
shorter, equal and longer lines. Bounds on connections, exercises, commands,
preparations and failed writes only cut behaviours off. Two packages let one
replace the other in either partition, two blocks let an exchange break in the
middle, and two disturbances let a failure hit the recovery from another.
Queues of one or two places are full and empty in turn; a queue of two also keeps an order.
Two networks, cards, viewers, serial numbers, addresses or settings let one replace the
other, and two callers are a race. A period of one and one of two or three cycles let
deadlines meet and miss each other; three PDOs let one be passed by two others.
Generations (5) and connections (3) of the live picture
let a descriptor be reused twice across a failure; two frames and pieces of frames on the
wire reach every state of the decoder, since a frame (four bytes of header, then up to two of
body) is longer than a read. `MaxTicks`, `MaxSegments`, `MaxWall`, `MaxGeneration`, `MaxJobs`, `MaxRecords`
and the like only cut behaviours off. `services` reaches about a million states.

**Fairness.** HostFileTransfer: a task finishes what it began and time passes
(weak fairness). `Poll` gets strong fairness, since data frames may come between
two polls again and again: the task polls each time its 10 ms `select` ends without
a packet. FileUpload: the transfer task keeps polling and finishes `complete()`.
TcpClientWorkers: the tasks run on. FirmwareUpdate: the tasks run on, the monitor
keeps ticking, a web request ends, and the controller goes on with an exchange;
`Take` gets strong fairness since web updates may come between a request and its
processing, a bounded number of times. HostOutput: the output task, and a client that
is joining, run on, and clients take what they are sent. UsbTransmit and UsbRecovery: the
worker polls, the stack delivers its callbacks, a plugged host answers a bus that is
driven. ControllerLink: the task goes on from step to step and time passes. The services
state no fairness: only safety is checked there. Nothing is assumed of hosts: they need not
send, answer, leave or come back. Deadlock is not checked where hosts that do
nothing leave a system that may stop, or where a bound is used up.

### Disagreements between code and intent

| run | shows |
|---|---|
| `host_transfer_pipelined` | `begin_next` starts a pending request without claiming again. The end of the first operation freed the owner; another host took it; two transfers run. |
| `host_transfer_abandoned` | A client leaves in the middle of a transfer and its slot is not polled, so the inactivity timeout the comment counts on never runs: USB and the other clients stay locked out until a client gets that slot. |
| `tcp_client_workers_session` | M942 run twice on a connection notifies twice; the first notification is still pending when the client leaves, so the session is destroyed under the second worker. |
| `blufi_target` | On the machine the key is negotiated in a callback that never calls `security_negotiated`, so every credential of the connection is refused. |
| `play_line_reader_target` | The target's chunk source uses `fread`, which does not stop at a line feed: several short lines come back as one, cut at the limit. |

Each passing run states the restriction it holds under. Lifting a restriction
breaks the property named here, in the way the code would:

* `RacingClaims = TRUE` breaks `OneTransfer`: `claim_file` tests and assigns
  without a lock (`ownership.cpp:6`).
* `"partial_write" \in Faults` breaks `RequestAtBoundary`: a write that fails half way
  leaves bytes in the stream and the same block is requested again behind them
  (`posix_file.cpp:111`), although the comment at `file_upload.cpp:179` calls the
  repeated request a safe resumption. The announced MD5 is not verified here.
* `0 \in Requests` breaks `DownloadIsFaithful`: the offset is
  2^32 - 8192, the seek is skipped, each retry reads on (`file_download.cpp:196`).
* `NvsDuringExercise = TRUE` breaks `SlotEndsClean`: the command's wait is ended by
  the notification of the exercise, while its request is still queued, or clears it, and the
  closing client waits for ever
  (`tcp_control_adapter.cpp:187`).
* `RepeatedPlay = TRUE` breaks `RunningPlayIsKept`: a repeated command that fails
  releases the ownership of the play that runs (`tcp_control_adapter.cpp:291`).
* `Overlap = TRUE` breaks `PlayIsFaithful`: lines of the new file go out under the
  label of the old one (`play_session.cpp:71`).
* `StageDuringTransfer = TRUE` breaks `StagedIsDelivered`: the monitor sees the file as
  soon as it is opened, the controller fetches what there is of it, and the end of
  that exchange removes the whole one (`ota_update_adapter.cpp:97`,
  `update_controller.cpp:55`).
* `UploadDuringUpdate = TRUE` breaks `AggregateIsApplied`: what is removed at the end is
  the package uploaded meanwhile (`update_application.cpp:55`).
* `WebDuringUpdate = TRUE` breaks `BootImageWhole`, not `RunningImageWhole`: the web update
  erases the partition the update task has selected (`direct_application_update.cpp:34`).
* `"stage"`, `"delete"` and `"read"` in `Faults` break `AggregateIsApplied`,
  `AggregateIsConsumed` and `StagedIsFetched`: a failed staging is not noticed, a package
  that cannot be deleted is applied at every restart, and `report_error` leaves
  `active_` set so that the monitor waits for ever (`controller_firmware_transfer.cpp:188`).

* `Stalls = TRUE` breaks `OutputServes`: a client that takes nothing is retried for ever with
  the registry mutex held (`tcp_frame_sender.cpp:17`). `LeaveListing = TRUE` breaks it as well: the
  last host leaves while a listing waits for room.
* `Overlaps` (callbacks or an expired enqueue clear the queue during a poll) breaks `UsbDelivers`.
* `SlowWrites = TRUE` breaks `LinkServes`: with writes longer than their spacing and a queue that
  hosts keep filled, the task never reads (`controller_command_loop.cpp:211`).
* `ReportsOverlap = TRUE` breaks `DestinationsAgree`: each of two transports sets the pair it loaded.
* `FilesChange = TRUE` breaks `RecordsDelivered`: a host replaces the file during its transfer.
* `ReadFaults`, `RenameFaults`, `"rename" \in Outages` and `FreeCopies` break the two properties of the
  store: an unreadable document is taken for an empty one, a failed rename leaves none, power
  lost between removal and rename too, and copies run without the mutex.
* Damaged frames in `Faults` break `BlufiProvisions`: a frame that fails its check in the middle of
  a message leaves its fragments behind.
* `CommandsOverlap` and the password fault break `SavedPairMatches`, `LateEvents` and
  `AcceptsConnected` break `NoReconnectForgotten`, and so do refused requests, at whose result nobody
  looks, and power lost between the two writes of a pair breaks the first.
* A reconnect task that cannot be created loses the disconnect it was for: no retry follows until the
  next one is heard (`automatic_connection_adapter.cpp:54`). `services` includes this fault, and
  `NoReconnectForgotten` names it as the one way to lose a reconnection (`unheeded`).
  The `"read"` fault, no pair at the start of the program, breaks nothing: it leaves the program
  with an unconfigured station, as an erased NVS does, and the proofs allow it.
* A timer of a single cycle in `Timers` breaks `TpdoPaced`: that PDO is always due and starves the rest.
* `LateAnswers` and `Overtakes` break `SdoServes`: an answer to a request that timed out is taken for
  the next one's.
* `BurstsOverlap` and `FieldRaces` break `DiscoverySound`: one burst closes the socket of another, and
  address and broadcast address are announced out of step.
* `QuickRemovals` and the `"unmount"` fault break `SdCardServes`: a card taken out before it settled, or
  whose unmount failed, stays mounted with an empty slot.
* `StaleEvents`, `Floods` and the `"read"` fault break `CountersHonest`: an event older than the baseline
  makes the elapsed time wrap, a dropped one leaves the meter running, and totals that were not
  read are taken for zero and saved.
* `SettersOverlap` and the `"serial"` fault break `IdentityKept`: test and write are not one step, and an
  error while reading counts as "not set".
* `ClockSteps` and `QuickSegments` break `VideosKept`: two segments get one name.
* `LingersOn`, `WelcomesLost` and the `"create"` fault break `LiveServes`: a stream outlives the ten
  seconds of the stop and the next start runs beside it, a full queue loses the stop of a new
  connection, and a viewer whose stream could not be created is not told.
* `ArbiterRaces` breaks `PreviewServes`: the arbiter resets `preview_runtime` between a handler's test and
  its use.
* `BackToBack` and `HeaderSilence` break `DecoderFaithful`: the deadline of a USB header is kept from the
  header before, and is not running for a header that just filled up.

Also seen while modelling, without a run of its own:

* `update_controller.hpp:36` says completion is "persisted and transient", the target publishes it only
  to the volatile status; phase two is persisted for packages without a controller image and stays.
* `station_connection.hpp:114`: an address that is obtained never clears the automatic retry number,
  since each runtime has its own; and a host's disconnect is heard as a loss, which the automatic
  connection answers by connecting again.
* `canopen_sdo_client.cpp:57` accepts no download confirmation (0x60), so `write_remote_u32` fails after
  a write that succeeded, although `canopen_target_service.hpp:44` promises its result.
* `usb_protocol_state.hpp` speaks of "retaining queued responses" where the code clears the queue.
* The first boot is recorded with a clock that is not set, and not corrected
  (`runtime_counter_task.cpp:58`).
* `frame.hpp` says the UART candidate budget is reset "after a frame or incomplete candidate"; the
  code resets it after a frame only.
* A pause of the preview does not stop the playing task, whose generation stays; a resume starts
  from where the play began.
* The comment "Never overlap generations after a bounded stop failure" in `http_server_adapter.cpp` holds
  for the request that had to wait, and not for the next one (`LingersOn`).

## 4. Proofs

TLAPS checks these for every value of the constants, from the named assumptions
of the modules (numbers are naturals, limits are not zero, sets are what they are
declared to be).

**FileUploadProofs**

* `UploadTypes`: `TypeOK`; the counters need `BelowLimits` (an upload that is
  served has not reached a limit), since a handler adds one before it compares.
* `UploadAtBoundary`: without partial writes, `RequestAtBoundary`. `StreamInv` also
  says that the stream is empty before data and that complete() starts with
  exactly the announced blocks.
* `UploadIntegrity`, `UploadSuccessIsWhole`: if also flushes succeed, `FirmwareNeverTorn` and
  `SuccessIsWhole`, across power loss. `DiskInv` follows the partial file through
  flush, removal, renaming and report.

**FirmwareUpdateProofs**

* `TypeCorrect`: `TypeOK`, which needs `Fresh` (an exchange that has not got to its
  data has no blocks), since a layout may announce fewer blocks than the last one.
* `RunningImageIsWhole`: `RunningImageWhole`, for all faults and overlaps. Every step
  either leaves the running partition alone or restarts (`FlashStep`).
* `BootImageIsWhole`: assuming `~WebDuringUpdate`, `BootImageWhole`. `BootInv` says that
  another partition than the running one is selected only between its
  verification and the restart, and that a web update and the update task exclude
  each other.
* `StagedImageIsDelivered`: assuming `~StageDuringTransfer`, the action property
  `StagedIsDelivered`, for all faults. `DeliveryInv` says that the blocks the
  controller has are all of the staged image and that staging and fetching
  exclude each other.
* `PackageIsApplied`: assuming that uploads, staging, fetching and the web update take turns
  and that loading and staging succeed, the action property `AggregateIsApplied`, for every
  other fault and power loss. `PackageInv` follows the package at hand and its image through
  writing and selection; `StagingInv` says that from staging to removal its controller image is
  on the card, or was fetched and programmed. The controller is needed there: it may fetch
  the image, which removes it, before the update task removes the package.

**StreamProofs**

* `DownloadTypes`, `DownloadsAreFaithful`: types and open handles whatever hosts ask for, and the
  action property `DownloadIsFaithful` when every request is within the reach of `fseek`
  (`InReach`). Section 3 says what a request for block 0 does. `DownloadInv` adds that a retained
  response was made by this download and that the request a retry repeats is known.
* `PlayTypes`, `PlaybackIsFaithful`: assuming `~Overlap`, `PlayIsFaithful` for every program and
  every order of requests, repeats, jumps, failures and replacements. `FaithfulInv` ties the
  position of the handle to the line the session believes it is at (`InStep`), and what is in the
  retained response to the lines after it.
* `PlayKeepsItsOwner`: assuming `~RepeatedPlay`, the action property `RunningPlayIsKept`.
  `OwnerPrepared` says that the owner is the connection that prepared and has no play command
  waiting.
* `LinesArriving`: `LinesArrive`, for files of any length over any alphabet, any sizes and both
  sources, without an assumption: from the source of the target every stretch of lines is returned
  once and in order, cut as a line is, and from one that stops at line feeds every line (section 3
  shows that the source of the target breaks the latter). `LinesInv` ties the position in the file
  to what was returned: at the beginning of a call it is the end of as many pieces, and in the
  middle of one at the piece that comes next. `OnGrid` adds that a source of blocks is at the end of
  a block or of the file.
* `LinesFit`: `FitsController` (the second half of `LinesArrive`), for files of any length over any
  alphabet and both sources. It rests on lemmas about the chunks of a source, in which the
  first line feed is the least index there is.
* `StreamTypes`: `StreamTypesOK`, for the composition of the three.

**TransportProofs**

* `TypeCorrect`: `TypeOK` of HostFileTransfer, in particular that the admission stays within its bound.
* `OwnershipIsBacked`: `OwnershipBacked`, with pipelined starts and racing claims.
  It is not inductive alone: a release by one host must not leave another one
  owner of nothing. `BackedInv` adds `AdmissionInStep`, that `active` says exactly
  "starting or running", so that each release comes with the end of an
  operation.
* `SerialTransfersAreExclusive`, `SerialReleaseIsOwn`: assuming
  `~OverlappingStarts` and `~RacingClaims`, `OneTransfer`, `TransferHasOwner` and
  `ReleasedByOwner` for any number of slots. `SerialInv` says that only the owner
  is active, nothing is pending, and a task between the two halves of
  `claim_file` still finds the channel free or its own, being the only one there.
* `NothingForNobody`: assuming `~LeaveListing`, `NobodyNothing` of HostOutput; that a listing
  waits only while there is a host (`ListenedTo`) makes it inductive.
* `ClientTypes`: the notification value is bounded by what was started. `NotifiedOnce` counts:
  notifications, workers that have not reported, queued and executing commands are together no
  more than the exercises and commands so far.
* `HelpersStay`: assuming `~SecondExercise` and `~NvsDuringExercise`, `HelpersStayInside` for any
  number of connections, exercises and commands. `SlotInv` says who may still notify, so that the
  notification a task waits for is that of the helper it waits for.
* `LiveStaysAlone`: `LiveIsLeftAlone` of the USB recovery, wherever callbacks fall between the
  loads and stores of a poll. The phase alone does not tell, since a poll may store over what a
  callback stored; `QuietInv` says that the input it then drives takes the bus down or was low.
* `UsbFramesAreWhole`, `UsbHostSpokeFirst`: assuming `Overlaps = {}`, `TailAfterHead` and
  `SpokenToFirst`, for queues and frames of any size. `DeliveryInv` ties the position in the
  tracked frame to what went out of it last.
* `LinkIsOnTime`: `LinkKeepsTime`, for all periods and however late the task comes. The clock of
  the model wraps at a common multiple of the periods; `GridInv` says that clock and time left
  add up to a whole number of periods, and `SilenceTold` that the silence no alarm told of and
  the time to the next alarm are one alarm period.
* `TransportTypes`: `TransportTypesOK`, with everything allowed that the others exclude.

**FrameProofs**

* `Cutting`: decoding a buffer and going on with what comes after gives what decoding the whole
  gives, for every buffer, every continuation and all three policies. A round that does not leave
  the loop takes bytes away (`Rounds`), so the rounds of a longer buffer can be followed by
  induction on the bytes that are left: a candidate that was complete is judged alike, an
  incomplete one waits for what comes, and a buffer without a sync pair keeps just the
  byte that may begin one.
* `FramesAreFaithful`: assuming `~BackToBack` and `~HeaderSilence` (section 3 says what happens
  without them), `DecoderFaithful` for streams of any length and every frame size, read size,
  capacity, budget and deadline. `DecoderInv` says that the decoder is where the whole stream pushed
  at once would have left it (`InStep`), or holds the beginning of a candidate whose
  deadline has passed and will drop it (`GivenUp`); that a deadline is running exactly as long as
  the peer may still take (`Ages`); and that what is still on the wire will bring the
  frames that were sent (`Sent`). No frame is made up since the check value is different for every
  length and body: the only bytes that pass are those of a frame that was sent (`Framed`).
* `DecoderTypes`: what a decoder keeps is shorter than the longest frame; from `DecoderInv`.
* `ControllerGetsRecords`: assuming `~FilesChange`, `RecordsDelivered`, for files of any size.
  `FramesTold` says that the controller was told as many frames as the file counts;
  `RecordsReached` that it has every record before the last index it asked for.

**ConnectivityProofs**

* `DiscoveryIsSound`: assuming `~BurstsOverlap` and `~FieldRaces`, `DiscoverySound`.
  `DiscoveryInv` accounts for every open socket and says which task may be between the two fields.
* `StationIsServed`: assuming that commands do not overlap, events are not late, the driver
  refuses a second connection, and requests, the second write and the power between the two
  writes do not fail, `StationServes`; reading, configuring and creating tasks may fail.
  `LossPending` says of every lost connection with retries left that its event is still to come, a
  task is under way, or none could be created for it; `PairsStay` that
  name and password agree wherever they are kept, but between the two writes.
* `AccessPointIsKept`: `AccessPointKeeps`, under all faults and without any assumption. Jobs are
  counted against their holders (`JobsCounted`); `LastInLine` and `NothingLate` say that the job a
  command waits for is the last one, and that none to come is of a setting that was acknowledged.
* `BlufiIsProvisioned`: assuming undamaged frames, `BlufiProvisions`, for messages of any number of
  fragments and both wirings: what is gathered is a beginning of what is being sent
  (`FragmentsFollow`); the sessions report a key as soon as it is derived (`KeyReported`), and behind
  the callbacks of the target no credential is ever staged or applied (`NothingGained`).
* `BlufiTypes`: the types of provisioning without these assumptions; that a message is never
  reassembled past its announced size and prepared writes stay in their buffer is part of it.
* `ConnectivityIsServed`: `ConnectivityServes`, from the four.
* `DestinationsAgreement`: assuming `~ReportsOverlap`, `DestinationsAgree`, for any number of
  clients: a flag is right or a report is about to store it, and what a report loaded is current.

**PeripheralProofs**

* `MasterHearsTheNode`: `NodeReports` (the first part of `CanServes`), for all
  heartbeat periods and cycle lengths. `CanInv` adds `WaitFits`: outside a boot-up
  the time since the last report plus the time that remains until the next is at
  most the period. `NodeReports` alone says nothing of the time that remains, which
  a reset of communication lengthens.
* `TransmitPdosArePaced`: `TpdoPaced`, for up to four PDOs and all timers but a single cycle. The
  scheduler sends at most one PDO per cycle, in order, and stops the clocks of those behind it;
  `WaitsInTurns` bounds a wait by the turns of the PDO's clock, each of at most 2^p cycles.
* `SdoClientServes`: assuming `~LateAnswers` and `~Overtakes`, `SdoServes`. `SdoInv` says that what
  is on the bus, taken or given is of this cycle and answers the request in flight.
* `DictionaryStaysSound`: `DictionarySound`, however frames rewrite a mapping while they are
  received. The entries of a frame are applied one after another; the proof takes the least
  entry that breaks the invariant.
* `SdoTypes`, `DictionaryTypes`: the types of both without any assumption on the order of answers
  and tasks.
* `CanopenServes`: `CanServes`, from the four.
* `PreviewIsServed`: assuming `~ArbiterRaces`, `PreviewServes`; `PreviewInv` says that only one
  playing task has the generation of the open session, and which session an arbiter preempts.
* `RecordingsAreKept`: assuming `~ClockSteps` and `~QuickSegments` (and a clock that can run at
  all, `MaxWall # 0`), `VideosKept`. `VideoInv` keeps names behind the clock and in the order of
  the recordings, and the sweep's list in that order although it is stale.
* `LivePictureIsServed`: assuming `~LingersOn`, `~WelcomesLost` and that tasks can be created,
  `LiveServes`. `NobodyForgotten` says of each viewer that waits where its request is: in the
  queue, with the arbiter, with its stream, or about to be told.
* `MediaIsServed`: `MediaServes`, from the three.
* `SdCardInStep`: assuming `~QuickRemovals` and that unmounts succeed, `SdCardServes`;
  `SamplesCount` ties the monitor's counter to how long the slot has been empty.

**MachineProofs**

* `RecordsAreTrue`: assuming that events are served in time and not dropped, that setters take turns
  and keys can be read, `RecordsStayTrue`, over failed writes and power losses.
* `CountersTypesHold`, `IdentityTypesHold`: the types of both without these assumptions.
* `StoreImplementsSettings`: assuming `Benign` (documents can be read, a rename to a free name
  succeeds, copies and changes take turns, and power is not lost between the removal of
  config.txt and the rename; section 3 says what happens without each), the refinement
  `ImplementsSettings`, for any users, settings and values. `StoreInv` says that a copy excludes
  changes (`TakeTurns`) and that what a user is about to make config.txt is config.txt with the one
  change, and is in config.tmp before config.txt goes (`DocumentReady`). The
  mapping `Shown` is config.txt, or the document about to be renamed while
  config.txt is missing, so the removal is the step that changes the table.
* `AcceptedIsKept`: under the same assumptions `AcceptedValuesStay`. `AcceptedKept` says it of `Shown`
  in every state, with an exception for the setting that is being changed, and
  `NothingAfterRestore` that a restore has taken every promise back.
* `ServicesAreTheirs`: a behaviour of the composition `MCServices` is one of each of its
  components, so that every theorem about a part holds there.
* `ServiceTypes`: `ServiceTypesOK`. The types of most of its eighteen parts are conjuncts of their
  inductive invariants and come with the assumptions of those, which the run `services` meets as
  well; those of the access point, the heartbeat, the dictionary, the SDO exchange, provisioning,
  the counters and the identity need none.
* `ServicesServe`: under the assumptions of the parts, all invariants of the run `services` and
  its refinement hold together, for all values of the constants.

Three properties were put right by their proofs. Of `SavedIsLoaded` and `LogOnMountedCard` the
layout made a conjunct part of the hypothesis of an implication, so that they said less than
they read; both hold as they were meant. And "a PDO waits less than two of its timers", true of
two PDOs, is false of the third, for which `TpdoPaced` now allows 2^p timers.

Only model-checked:

* liveness, out of the prover's reach: `ExpiredIsReaped`, `PendingStarts`, `UploadEndsClean`,
  `AggregateIsConsumed`, `StagedIsFetched`, and the progress in `SlotEndsClean`, `OutputServes`,
  `UsbDelivers`, `UsbRecovers` and `LinkServes`, whose safety parts are proved.

## 5. Not modelled

Text of messages, paths, MD5 values, compression and log lines are data no
property tells apart. Sockets, TinyUSB, FreeRTOS, FAT, the Wi-Fi and BLE drivers and ESP-IDF appear
as what the code observes of them. The admission's owner mailbox has no caller in the
target. The pointer races on the session's strings and file handle in Playback
are reduced to the order of whole operations. Left out as well:

* the dispatch of local commands of TCP and USB hosts, a table from words to the operations
  that are modelled, and the syntax of their arguments;
* the HTTP server's routes, static files, uploads of the web volume and multipart parsing:
  sequential I/O of one task;
* filesystem commands, directory listings and hashes: no state of their own;
* camera capture, the AVI container and its index, BLE advertising payloads, TLS and the
  cryptography of BLUFI: devices and data;
* the mock adapters, boot and the hardware factory: composition and test doubles.

Worth adding: FileUpload and FirmwareUpdate composed (each processing request removes
`firmware.bin.part`, which a host may be uploading); FileUpload as a refinement of one runtime of
HostFileTransfer, and proved to be one; the types of the
services without the assumptions their invariants are proved from.
