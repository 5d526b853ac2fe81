# A TLA+ model of the OnePlus Buds plugin

The program is an Omarchy (Quickshell) bar plugin. A QML front end starts one
Python helper process and exchanges JSON lines with it. The helper finds a
connected pair of earbuds through BlueZ, opens an RFCOMM socket to it,
authenticates, and then polls the session for battery and mode reports while it
executes the commands the panel sends. Time-outs, lost replies, devices that
come and go, and two threads over one controller are where it is hard, and they
are what these modules are about.

## 1. Inventory

Paths are relative to `src/`; Python files are under `src/src/oneplus_buds/`.

| Component | State | Operations | Hard behaviour |
|---|---|---|---|
| Transport, `transport.py` | socket, `_sequence`, `FrameStream` buffer | connect with EBUSY retries, `query`, `request`, `receive`, burst reads | a reply is matched by command and sequence only; the counter wraps; other frames of the same burst belong to the session |
| Codec, `protocol.py` | partial frame | encode, decode, parse payloads | an undecodable frame is a `ValueError`, not an `OSError` |
| Session, `session.py` | the transport, `_subscription_pending`, frames not yet turned into events | bootstrap, authenticate, deferred subscription, `set_anc`, `eq_status`, `set_eq`, `set_custom_eq`, `poll` | a SET is acknowledged before it is applied, or not at all; events collected during a command are lost with an exception |
| Controller, `controller.py` | `_running`, `_session`, `_status`, `_eq_status`, counters, a re-entrant lock | `start`, `refresh`, `poll`, `shutdown`, `snapshot`, the commands | what is cached must be forgotten exactly when it may be out of date, and must belong to the device of the session |
| One-shot backend, `backend.py` | none between calls | discovery, `start_session`, one-shot writes on a socket of their own | a write whose outcome is unknown |
| Runner, `service.py` | loop position, `connected`, `attempt`, `retry_delay`, hint token | `run`, `_back_off`, publications | the shutdown of a failed attempt, publications after the lock is released |
| Availability, `availability.py` | generation, cache of D-Bus properties | signal handlers, `wait`, `start`, `close` | signals on another thread, late and in pieces; a restart of bluetoothd |
| BlueZ discovery, `bluez.py` | none | `connected_devices`, `select_device` | exactly one compatible device must be connected |
| Bridge, `bridge.py` | none of its own | `execute`: one command, its response, its snapshot | a command is several locked operations, and its snapshot is emitted unlocked |
| Bridge host, `bridge_host.py` | `cancelled`, output lock, two threads | start, read lines, `stop` | end of input or a signal while a command holds the controller |
| Front end, `Service.qml`, `BridgeModel.js`, `BarModel.js`, `BarWidget.qml` | last snapshot and response, `pendingRequestId` | requests, applying messages, presentation | the last message received wins; a response may never come |
| CLI, report, timing, traces, scripts | none that anything reads back | one-shot calls and formatting | none |

The threads are the service thread (`BudsServiceRunner.run`), the reader thread
(`BridgeProcessHost._read_requests`), the watcher's GLib thread and the main
thread, which waits for the first. The first two call the controller, whose lock
serializes its operations; the watcher only counts hints. Everything goes to the
front end line by line, in the order in which the threads obtain the output lock.

Properties that make each part correct:

* transport and codec: frames come out whole and once however the stream is cut; a
  socket is open exactly while somebody uses it;
* session and transport: success is reported on the strength of a state read
  after the write; a write goes out once; nothing is left on the link that a later
  command could take for its answer;
* controller: session, status and equaliser belong to one device, and what is
  cached is not older than the last write that may have taken effect;
* runner and bridge: a device that stays is shown in the end, one that left is not,
  the loop ends only when it is told to, and ends then;
* session start: what is shown is the state read when the session began or something
  newer;
* panel: a request is answered, by its own answer, and what is shown in the end is the
  controller's state;
* availability: no arrival is slept through, no hint is used twice, the cache
  agrees with BlueZ once the signals are handled.

`PROJECT.json` lists the hazards line by line with the properties that cover them.

## 2. The modules

| Module | Models | Extends |
|---|---|---|
| `OpoWire` | the RFCOMM link: numbered requests, frames in chunks, how a reply is recognized | |
| `AncSession` | one noise-control write from `BudsController.set_anc` to the frames, and polls and reconnects between writes | `OpoWire` |
| `EqSession` | equaliser reads, selections and stores, and the controller's cache of the last read | `OpoWire` |
| `BudsService` | the helper process: service thread, reader thread, controller, front end, devices | |
| `Availability` | BlueZ's signals, the watcher, and the runner's attempts and delays | |
| `BudsServiceProofs` | theorems about `BudsService` | `BudsService` |
| `SessionStartup` | the sockets of all controller operations: connect attempts, bootstrap, deferred subscription and firmware query, reopening, the two sockets of a strength write | |
| `Panel` | bar widgets, `Service.qml`, and the helper's lines: requests, responses, snapshots, pipe, output lock | |
| `FrameStream` | `encode_frame`, `decode_frame`, `FrameStream.feed` and `receive` on a byte stream | |
| `EqCatalogue` | `parse_eq_entries` and `encode_eq_detail_payload` on payloads | |
| `VerifiedWrite` | abstract: what a setting's commands promise about the cached state | |
| `OpoWireProofs` | lemmas about queues of frames, sequence numbers and `IsReplyAt`, and about induction and recursive functions, which the other proofs use | `OpoWire` |
| `AncSessionProofs` | theorems about `AncSession` and the register `VerifiedWrite` | `AncSession`, `OpoWireProofs` |
| `EqSessionProofs` | theorems about `EqSession` | `EqSession`, `OpoWireProofs` |
| `SessionStartupProofs` | theorems about `SessionStartup` | `SessionStartup` |
| `AvailabilityProofs` | theorems about `Availability` | `Availability` |
| `PanelProofs` | theorems about `Panel` | `Panel` |
| `CodecProofs` | theorems about `FrameStream` and `EqCatalogue` | `FrameStream`, `EqCatalogue` |
| `MC...` | the values of the constants for TLC | the module of that name |
| `MCCodec` | the same for the codec | `FrameStream`, `EqCatalogue` |

There are several levels. `FrameStream` and `EqCatalogue` turn bytes into frames and
frames into entries; the session modules take both for granted. `AncSession` and
`EqSession` look inside one controller
operation: the lock is held from the step that leaves `pc = "idle"` to the one
that returns to it, and frames come and go in between. `BudsService` looks at the
process: a controller operation is one step, because nobody sees the controller
while the lock is held, and what the session modules show of one operation is
there the choice between its outcomes. `SessionStartup` has the steps of
`start`, `poll` and `_connect_session` that these leave out, and reduces the commands
to their ends. `Panel` sees the helper from outside, as lines. `VerifiedWrite` is
what `AncSession` and `EqSession` both implement
(`ImplementsVerifiedWrite`). `Availability` refines the wait of
`_back_off`, which `BudsService` lets end at any moment.

### OpoWire

`Chunk` and `Unread` split what has arrived at a `recv`; `IsReplyAt` is the loop
of `transport.request` that takes the first frame with the awaited command and
sequence; `Others` is what it passes to `on_frames`. Bytes are abstracted: a
`recv` that completes no frame changes nothing. `NextSequence` is the wrapping
counter of `send_query`, with `LastSequence` for 0xFE.

### AncSession

`SetMainAnc` is the start of `_set_session_anc` on an open or a reopened session,
`ReceiveAck` and `AckTimeout` are the acknowledgement of `session.set_anc` and its
absence, `ReceiveState` and `QueryAgain` the verification loop, `Succeed` and
`TransactionFails` its ends with what the controller does to its cache. A session that
is opened for the command may first report the state it finds (`OpeningReports`). The
`OneShot...` actions are the strength writes (and all writes of a controller that
does not run), which go through a socket of their own; `OneShotVerified` takes the first
frame there that parses, provided it says what was asked for. `Poll`, `RefreshSucceeds`
and `RefreshFails` are what may happen between commands, and `EqCommand` is what an
equaliser command does to the session: it moves the counter on, or closes the socket.
The earbuds answer or not, refuse or not, apply a SET later than they acknowledge it,
report on their own, and are touched by their wearer.

A deadline may pass at any point of a wait; no clock is kept. `recv` may raise at
any point, so a broken link needs no variable.

### EqSession

Each command is a series of phases; a phase sends one request and waits for its
reply. `Begin` includes `_require_running` and the refresh of a controller
without a session. `ReceiveTarget` and `ReceiveRejected` are `_resolve_eq_target`;
`Verify`, `ReceiveVerify` and `WriteSucceeds` the confirmation of `set_eq` and
`set_custom_eq`; `WriteFails`, `StatusFails` and `Undecodable` the three kinds of
failure, which treat session and cache differently. `Poll` subscribes on its first
call and applies `NOTIFY_EQ`. `AncReceives` is a noise-control command on the same
session, of whose events only the last 64 are kept: an announcement among them is
applied or dropped. The phone (HeyMelody) selects presets behind the program's back.

`NotInFlight` rules out that a frame is still under way when the counter has gone
all the way around: in the code that takes longer than 254 deadlines, in a small
instance three queries.

### BudsService

`rpc` is the place of the service thread in `run` and `_back_off`, one step for
each publication and each controller operation; `cpc` is the place of the reader
thread in `execute`. `ctl` is the controller: whether it runs, the device of its
session, of its status, and of its cached equaliser. `alive` says whether the
session's link is up. `Reconnect` is `shutdown` followed by `start`; a
device without a profile becomes a status without a session. `csnap` and `rsnap`
are the snapshots taken under the lock and not yet written; `ui` is what the
front end received last.

### Availability

`bluez` is what BlueZ knows, `signals` what the watcher has not handled yet,
`cache` what it believes. `HandleChanged` is `changed` (and `added`, which calls
it), `HandleOwner` the restart of the daemon. `FillCache` is the initial
`GetManagedObjects`, which overtakes signals that are handled after it.
`TakeToken`, `Discover`, `BackOff` and `WaitEnds` are the runner's side.

### SessionStartup

`channel` is the earbuds' only RFCOMM channel: free, ours, still closing, or another
program's. `pc` is the wait the lock's owner is in, `goal` why it opened the socket.
`Busy` and `MayFail` are the loop of `RfcommTransport.__enter__`. `Identify`,
`Authenticate`, `ReceiveBattery`, `ReceiveOthers` and `ReceiveAnc` are `bootstrap`
(without the first two of its frames, which are dropped); `setup` is the `received`
list together with the batch of `authenticate`. `PollBegins`, `NoCodes`, `Codes`,
`Subscribed` and `Drain` are a poll, the first one subscribing; with another
goal `Resumed` ends `_connect_session` instead. `Written` and `Verified` are the
two sockets of `_write_anc`. A kind of state is a counter, so that older and newer
readings of it can be told apart; `missed` records which news was lost and why it may
have been. Commands on an open session are `CommandReads` and `CommandFails`: their
insides are the session modules'. `CommandReads` may lose the first of the frames it
took (the cap of 64 events, `session.py:187`) or all of them (an exception). `PollRaises`
is a `ValueError` out of a poll, which leaves the session open and loses what the poll had
collected; that it also ends the runner is in `BudsService`.

### Panel

A widget has `pendingRequestId`, `pendingKind` and an outcome, of which only its
being a verdict matters. `Ask` is `selectAnc`, `selectEq`, `applyCustomEq`,
`saveDiagnosticReport` and the opening of the popup, with the connection each of them
asks for; `Answered` is `onLastResponseChanged`. `TakeLine` is the reader's loop,
with the line it drops after a cancellation. The commands differ in the locked
operations they consist of: `SetEq` is followed by `EqStatus`, which may fail, and
by `TakeSnapshot`. `ReaderWrites` and `RunnerWrites` are `_write`, one line at a
time into a pipe that may be full. `generation` is the controller's counter; which
change a step makes is left to `BudsService`. The helper is not restarted: nothing
but `onHelperPathChanged` and the start of the shell calls `startHelper`.

### FrameStream and EqCatalogue

A header has four bytes instead of nine, a frequency one instead of two, and bytes are
few; which byte means what, the order of the checks and the arithmetic are the code's.
`Scan` is the loop of `feed` as a recursive function of the buffer, `Receive` one
`recv` of `receive` with the exception that may leave it. `EntryAt` is the body of
the loop of `parse_eq_entries`, `Reading` the loop: the entries and the offset after each
round. Names are sequences of bytes, one of which stands for
what is not UTF-8. The only state of `EqCatalogue` is what the earbuds
hold, at first a list that keeps to the rules the parser checks (`ProperList`);
`StoreEntry` is the part of `set_custom_eq` that reads an entry and writes it back
with other gains, and both properties are about every catalogue that stores lead to.

### VerifiedWrite

Three phases (`idle`, `reading`, `written`), the number of writes sent, and after
which of them the cached state was read. `Hears` is what a session that is opened for a
command may learn of the state on the way. `lapsed` marks the failures after which the
code keeps what it had: the failed strength write, and the undecodable frame which
`_set_session_anc`, `set_eq` and `set_custom_eq` take for a refused parameter. The
refinement mappings are at the end of `AncSession` and `EqSession`.

## 3. What is checked

| Run | Question | Distinct states |
|---|---|---|
| `AncSession` | is a verified write verified by a fresh read, is the cached mode never older than the last write, is nothing left behind, is no write repeated, do reports reach the cache; does it implement `VerifiedWrite` | 4.1 million |
| `EqSession` | the same for the equaliser, and why the cached equaliser may be out of date | 3.9 million |
| `SessionStartup` | is the channel ours exactly while we use it; how can what is shown be out of date; does every operation end | 0.5 million |
| `BudsService` | do session, status, equaliser and every snapshot agree, also when an unexpected error ends the service thread | 0.8 million |
| `BudsServiceLiveness` | is a device that stays shown, one that left not shown; does a cancelled process end, and its controller stay stopped | 0.4 million |
| `Panel` | do requests and answers match, is a verdict about its own request, is every request answered and the latest state shown in the end | 0.5 million |
| `Availability` | hints, cache and delays | 0.5 million |
| `Codec` | do frames arrive whole, once, and wherever the stream is cut; is a catalogue parsed as it was sent, and does a store change gains only | 0.5 million |

Four more runs, `EqSessionAnnounced`, `BudsServiceUnsupported`,
`BudsServiceOtherErrors` and `AvailabilityOppo`, show statements of the documentation
or of comments that the code does not keep; section 5 describes them.

### Properties

* `AncSession!VerifiedByFreshRead`: the reply that made a write a success was given
  by earbuds that had handled that write. `SetIsNeverReplayed` and
  `NoReplyLeftBehind` explain why it holds: one SET for a command, and a failed
  command closes the socket, so that no late reply can meet a later query.
* `ShownAncNotOlderThanWrite`: other threads never see a mode read before the last
  SET that may have arrived. The code keeps the old mode after a failed strength
  write; the history variable `strengthFailed` marks that case.
* `EventsUpdateAnc`: when the lock is free, the cached mode is the newest one received,
  in the order of the frames. The exception is named in it: after a write it may be the
  verifying reply's, also when a report was received behind that reply.
* `EqSession!VerifiedByFreshRead` is less obvious than its namesake: a failed
  *read* leaves the session open, with its late replies still to come, and only
  the sequence numbers keep them apart.
* `StaleEqHasCause`: on a quiet link the cached selection differs from the earbuds'
  only after a change that they did not announce, or whose announcement met a
  command, a socket being closed, an undecodable frame, or the cap on the events of a
  noise-control command.
* `ImplementsVerifiedWrite`: both session modules are instances of one register, so
  that `KnownIsCurrent`, proved of the register, holds of both caches. The refinement is
  proved, too (section 4).
* `OneOwner`: no failure of any wait on any path leaks the channel, and nobody tries
  to connect while the program itself holds it. `NotOlderThanRead` and
  `StaleStatusHasCause` say what becomes of readings and news in the order they are
  applied: news is missed only before the subscription, with the setup, with a command or
  poll that fails, or in a command that receives more events than it keeps. `CodesAreOfTheSession`: event codes do not survive the session that
  learned them. `OperationsEnd`: no operation keeps the lock for ever.
* `PendingIsUnderWay`: a pending request is in exactly one place between widget,
  pipe, reader and answer, and what is in those places is what exactly one widget
  waits for. `OutcomeIsOwn`: "Verified on earbuds" is said of that widget's last
  request only. `ShowsTheLatest` holds because every poll publishes, also one
  without news: the mutant that does not shows it.
* `FramesArriveWhole`, `CutsDoNotMatter`: `feed` gives the same frames for all ways to
  cut the stream, before an undecodable frame. `OneReceiveIsLost` counts what such a
  frame costs.
* `ParsedIsSent`: whatever is accepted reads back byte for byte, so that no damaged
  payload is accepted with a field at a wrong place.
* `ControllerConsistent`, `ShownSnapshotConsistent`: the equaliser of one device is
  never kept or shown with the status of another, and no live session is shown for
  a device without a profile.
* `StoppedStaysStopped`: after the final shutdown the controller stays cleared, unless
  the command under way is a refresh that has run by then: `_require_running` refuses the
  others. Once "stopped" has been published nothing else is shown as the connection,
  and when the runner is done its empty snapshot is shown as long as a command is still
  under way. It does not say that no session is open when the process ends: that refresh
  may have opened one, which the operating system closes, and its snapshot may be
  the last thing written.
* `Reconnects`, `DepartureShown`, `Stops`: what the process owes its user.
* `NoArrivalSleptThrough`: from the moment the token is taken to the end of the
  wait, no arrival of a device goes unnoticed, although its properties come in any
  order and the daemon may restart. `CacheCoherent` is why. `HintsAreUsedOnce` and
  `DelayFollowsAttempts` say that hints and delays do not turn into a busy loop.

### Bounds

* `AncSession`: three writes (`MaxWrites`), two reports in flight, two queries
  instead of 32, three sequence numbers, so that the counter wraps and collides
  with the fixed sequences of the SET frames. Two writes make an older reply
  possible, the third a reply older than a failure. "on" is met by two states and
  "deep" by one of them, so that a mode that verifies differs from the one asked.
* `EqSession`: one write, one selection on the phone, two queries, and at most two
  frames in flight when a command starts: enough for the late replies of a failed
  read to meet the next command. `MaxQueries` 2 makes the loop end in both ways. Two curves, interchangeable
  (`CurveSymmetry`), are enough for a store that keeps and one that changes them.
* `BudsService`: three devices of which one has no profile, three connects or
  disconnects and one fault that no missing device explains: a session can pass from
  each kind of device to each other, and fail once more on the way. Commands are
  not bounded. The two devices with a profile are interchangeable (`DeviceSymmetry`).
  The liveness run uses no symmetry, leaves out the device without a profile (see the
  finding about it) and allows two changes, an arrival and a departure.
* `Availability`: a device of each brand, three changes in BlueZ (a device already
  known may lose the daemon, see it start again and be added anew), three failed
  attempts in a row, delays of 1 to 3: the third delay meets the ceiling.

* `SessionStartup`: two changes of the earbuds' state, so that one reading can be
  overtaken by two others; one report on its way when another is sent unasked (broadcasts and
  replies come on top); two attempts for most goals and three for "verify", instead of
  4 and 12.
* `Panel`: two widgets, two requests, so that both of them ask or one asks again, two
  changes of the controller's state, a pipe of two lines, so that writers wait. No
  symmetry, since the run checks liveness.
* `FrameStream`: up to three pieces, among them payloads that contain the start byte,
  starts without a frame, and lengths that cannot be; every recv may return any number
  of bytes. Two recvs instead of 16.
* `EqCatalogue`: bytes 0 to 7, lists of up to two entries, every single damage of
  their payloads, and any stores of up to two gains (`MaxGains`), as many as an entry has
  bands. `MCCodec` runs either a stream or a catalogue: neither
  touches the other.

`VerifiedWrite` has no constants and no run of its own; the session runs check that they
implement it, and its theorems hold for any number of writes.

`CHECK_DEADLOCK FALSE` in the `BudsService` and `Panel` runs because the process ends,
in the codec's because a stream comes to its end, and in the
`Availability` runs because the bounded surroundings come to rest and the
attempts to their bound.

### Fairness

`BudsService!Fairness` is weak fairness of the service thread, the reader thread
and the main thread's exit. The operating system schedules threads; the
controller's lock is free again after every operation, since every receive has a
time-out; the waits of the runner end by their timer. Nothing is assumed of
devices, of the user, or of the outcome of I/O: faults are finitely many because
`MaxFaults` bounds them, without which no device would ever have to be shown.

`SessionStartup!FairSpec` is weak fairness of the lock's owner: each of its waits has
a time-out, and attempts are counted, so that it always has a step. Neither the
earbuds, nor the other program, nor the kernel has to do anything.

`Panel!Fairness`: Quickshell reads the pipe; the two threads are scheduled, and
commands end because their waits do. Strong fairness of the two writers stands for
the output lock and the pipe: neither is always free, both are free again and again,
and a thread that waits for them gets them in the end.

### Mutants

Definitions marked `Fault:` are forms of the code's definitions with a plausible
mistake: a guard dropped, a reset left out. Each property of a passing run has one
that breaks it.

## 4. What is proved

Every theorem below is checked by TLAPS for all values of the constants that satisfy
the assumption named with it. The runs of section 3 check the same formulas on a small
instance.

| Module | Theorem | Statement | Assumption |
|---|---|---|---|
| `AncSessionProofs` | `TypeCorrect` | `Spec => []TypeOK` | `AncAssumption`, `LastSequenceAssumption` |
| | `NoReplyIsLeftBehind` | `Spec => []NoReplyLeftBehind` | |
| | `AlwaysVerifiedByFreshRead` | `Spec => []VerifiedByFreshRead` | |
| | `ShownAncIsCurrent` | `Spec => []ShownAncNotOlderThanWrite` | |
| | `NeverReplayed` | `Spec => SetIsNeverReplayed` | |
| | `EventsAlwaysUpdateAnc` | `Spec => EventsUpdateAnc` | |
| | `ImplementsRegister` | `Spec => ImplementsVerifiedWrite` | |
| | `PromiseTypeCorrect` | `Promise!Spec => []Promise!TypeOK`, of `VerifiedWrite` | none, there are no constants |
| | `PromiseAlwaysCurrent` | `Promise!Spec => []Promise!KnownIsCurrent`, of `VerifiedWrite` | |
| `EqSessionProofs` | `TypeCorrect` | `Spec => []TypeOK` | `EqAssumption`, `LastSequenceAssumption` |
| | `AlwaysVerifiedByFreshRead` | `Spec => []VerifiedByFreshRead` | |
| | `ShownEqIsCurrent` | `Spec => []ShownEqNotOlderThanWrite` | |
| | `StaleEqAlwaysHasCause` | `Spec => []StaleEqHasCause` | |
| | `ImplementsRegister` | `Spec => ImplementsVerifiedWrite` | |
| `SessionStartupProofs` | `AlwaysOneOwner` | `Spec => []OneOwner` | none |
| | `TypeCorrect` | `Spec => []TypeOK` | `StartupAssumption` |
| | `CodesAlwaysOfTheSession` | `Spec => []CodesAreOfTheSession` | |
| | `NeverOlderThanRead` | `Spec => []NotOlderThanRead` | |
| | `StaleStatusAlwaysHasCause` | `Spec => []StaleStatusHasCause` | |
| `BudsServiceProofs` | `AlwaysSound` | `Spec => []Sound` | `ServiceAssumption` |
| | `TypeCorrect` | `Spec => []TypeOK` | |
| | `ControllerStaysConsistent` | `Spec => []ControllerConsistent` | |
| | `SnapshotsStayConsistent` | `Spec => []ShownSnapshotConsistent` | |
| | `RunsUntilTold` | `Spec => []RunsUntilCancelled` | and `~OtherErrors` |
| | `StaysStopped` | `Spec => []StoppedStaysStopped` | and `~OtherErrors` |
| `AvailabilityProofs` | `TypeCorrect` | `Spec => []TypeOK` | `AvailabilityAssumption` |
| | `HintsStayUsedOnce` | `Spec => []HintsAreUsedOnce` | |
| | `CacheStaysCoherent` | `Spec => []CacheCoherent` | |
| | `NoArrivalIsSleptThrough` | `Spec => []NoArrivalSleptThrough` | |
| | `DelayAlwaysFollowsAttempts` | `Spec => []DelayFollowsAttempts` | |
| `PanelProofs` | `TypeCorrect` | `Spec => []TypeOK` | `PanelAssumption` |
| | `PendingAlwaysUnderWay` | `Spec => []PendingIsUnderWay` | |
| | `OutcomeAlwaysOwn` | `Spec => []OutcomeIsOwn` | |
| `CodecProofs` | `AlwaysTyped` | `Spec => []Typed` | `StreamAssumption` |
| | `CutsNeverMatter` | `Spec => []CutsDoNotMatter` | |
| | `FramesAlwaysArriveWhole` | `Spec => []FramesArriveWhole` | |
| | `OnlyOneReceiveIsLost` | `Spec => []OneReceiveIsLost` | |
| | `ListAlwaysProper` | `EqSpec => []ListIsProper` | `CatalogueAssumption` |
| | `ParsedAlwaysSent` | `EqSpec => []ParsedIsSent` | |
| | `StoresAlwaysChangeGainsOnly` | `EqSpec => []StoreChangesGainsOnly` | |

The assumptions say what the code's constants are: bounds and counts are natural
numbers, there is at least one sequence number, one query, one attempt and one place in
the pipe, "no state" and "no equaliser" are none of the values they stand for the
absence of, a SET frame has one of the sequence numbers, delays do not begin above
their ceiling. For the codec they say that a start of frame is not the byte 0, that
commands are numbers and the plain ones not those with a rule of their own, that there are
an even number of bytes, that no name has the byte that stands for what is not UTF-8, that
None is no sequence and no record, and that the earbuds begin with a list of different
entries, each with bands, different frequencies and gains within its range, in which every
count fits a byte; anything else the parser refuses. The bounds that only keep TLC's instances finite (`MaxWrites`, `MaxChanges`
and the like) are arbitrary numbers in the theorems.

### The link and the noise-control session

`OpoWireProofs` has what is needed of queues: what a chunk, the rest, one more and one
less contain, and that a non-empty set of places in a queue has a last one (`LastIndex`)
and a first (`FirstIndex`). Queues are finite but of any length, so that these rest on
the pigeonhole principle.

`VerifiedByFreshRead` says what was behind the reply that ended a write and holds
because of what was in flight before. `Link` therefore says of the frames on the way:

* `Requests`: nothing is on its way up while the lock is free; otherwise there is at
  most one SET, and at most one query behind it;
* `Replies`: at most one reply to a query is on its way down, only during the
  verification and with nothing on its way up; it and whatever comes behind it was sent
  after the last write;
* `Reports`: between commands, what the earbuds report on their own was sent after the
  last write, too, since a command that fails closes the socket.

`Link` is these with the types. Every step keeps it, and the reply that is accepted is the
one of `Replies`. Reports carry sequence 0 and are not taken for replies; beyond that the
sequence numbers play no part: closing the socket after a failure is enough, which is
`NoReplyLeftBehind`. `Cached` adds, for `ShownAncNotOlderThanWrite`, that only a controller
that runs has a session, waits, or has a mode cached.

### The equaliser session

Here a failed read leaves requests and replies in flight, and a write that met an
undecodable frame may leave its SET, so that the argument above fails: the sequence
numbers are needed. `Ordered` says that the query of the current phase is behind every SET,
and that a frame with its number was sent when no write was left; a number is not used
again while a frame with it is under way, by `NotInFlight` (section 2), an assumption about
time-outs that is part of the model. `Evidence` says that what a command goes on from was
read after the last write, `Current` the same of the cache. `Typed` has the types, what
frames of each kind carry, and what each phase implies.

`StaleEqHasCause` compares the cache with the earbuds: `Follows` says that the selection
which is cached, or was just read, is the earbuds' own, unless `Noticed`: an announcement
of the change is still to be received, or was received by the present command, or one of
the causes is recorded.

### The register

`KnownIsCurrent` speaks of `phase = "idle"`; the invariant behind it says the same of
every phase but "written", in which the cached state is older than the write, and
every way out of which replaces it, forgets it, or lapses. What is cached is a set of
write numbers, with one element or, when it was forgotten, none.

The two `ImplementsRegister` theorems have one step for each action of the session
modules, which names the action of the register it maps to, or shows that the
register's variables stay. They use the invariants above: that a successful read is
later than the last write is `VerifiedByFreshRead`, not something the register could
assume. `PromiseAlwaysCurrent` carries over to both caches with them.

### Session start

`OneOwner` alone is not inductive: a step that opens a socket has to know that no session
is held, and one that ends a poll that one is. `HeldByPolls` says both in terms of `goal`
and `pc`; `Owned` is the two together, `Typed` adds the types and what each wait implies
(`Stages`).

`NotOlderThanRead` and `StaleStatusHasCause` compare values that depend on the order of
frames. For each kind of state, `Tracks` says three things. `InOrder`: frames about it
come in the order of the changes, and none is older than what the operation has
collected, what is shown, or what `bootstrap` has read. `Arriving`: the last of them is
current, or a change was missed. `Arrived`: with none on its way, what the operation
knows, or else what is shown, is current, or a change was missed. During `bootstrap` the last does
not hold of the essential kinds, whose setup events are dropped; `Replaced` is what holds of the
battery then. `OneReply`: one query is answered at a time. `Told` is the conjunction.

### The process

`ShownSnapshotConsistent` is not inductive: what is shown next is a snapshot a
thread already holds, and that was taken from the controller. `Sound` therefore
says it of the controller (`SoundController`), of both snapshots in flight
(`SoundSnapshot` of `rsnap` and `csnap`) and of the one shown, together with the
types. It is arranged in six parts, `World`, `Control`, `Runner`, `Reader`, `Host`
and `Shown`, each of which few actions change; `SoundMeaning` says that
it amounts to `TypeOK`, `ControllerConsistent` and `ShownSnapshotConsistent` together. Lemmas
about the operators come first (`ClearedSound`, `DiscoveredSound`, `SnapSound`,
`ReconnectSound`), then one lemma per action, then `AlwaysSound`.

The two theorems about the end need more: `OrderlyEnd` adds that the steps after
the loop imply a cancellation, that a command received before a cancellation
finds the controller stopped unless it is a refresh, and that what the runner then still
has to publish is the empty snapshot, behind "stopped". It is inductive relative to
`Sound`. They assume `~OtherErrors` because the code catches `OSError` and
`RuntimeError` only: finding 3 shows what happens otherwise.

### Availability

`CacheCoherent` speaks of a moment without signals under way. The invariant speaks of
every moment: for each device, the last signal under way that mentions it decides, and
what it says is what BlueZ knows; where none mentions it, the cache does (`Follows`, fact
by fact, since a device's facts come in several signals). `Counted` says that waits were
cut short no more often than there were hints. For `NoArrivalSleptThrough`, `Noticed`
follows an arrival from BlueZ to the waiting runner: a device that came after the token was
taken has signals under way that will complete what is known of it, or a hint was counted
since. `Order` says which signals can be there in each state of watcher and daemon;
`Informed` is all of it with the types.

`DelayFollowsAttempts` compares the delay with `Doubled`, a recursive function of the
number of attempts. `DoubledDoubles` shows that it has the values its definition says, and
`Doubles` connects it with every place of the loop: while a failure waits, its delay has
not been doubled yet; otherwise it has.

### Panel

`PendingIsUnderWay` speaks of places, of which there are any number, and is not
inductive. What makes places distinct is the order in which ids pass through the helper:
answers in the pipe, the command the reader executes, the lines it has not taken, each with
a larger id than the one before, and all below `nextRequestId` (`InOrder`). `Answers` says
that a command ends with exactly one response, to the line it was taken from. `Awaited`
connects this with the widgets: what is under way is awaited by one of them, two never
await the same, and what is awaited is under way until the helper is told to end.
`Verified` says of every step of a write, and of every response that says so, that the
write was verified. `Ordered` is the conjunction; that the reader has something to
write whenever it writes, which `TypeOK` depends on, is in `Answers`.

### The codec

The backends know nothing of recursive functions, and the library's theorems about them
take operators as parameters. `OpoWireProofs` therefore states what is needed with sets and
functions: `Induction` over numbers, `SizeInduction` over anything with a size, and
`Recursion`: if the right-hand side of a definition asks only for the values at smaller
arguments (`AsksForSmaller`), there is a function that satisfies it, so that the one which
`CHOOSE` picks does. This is how `ScanIs`, `HeldIs`, `JoinedIs` (of `FlattenSeq`),
`ReadingIs` and `DoubledDoubles` are obtained; everything else about these functions
is then an induction over the length of a buffer, the number of pieces or of rounds.

The stream. `ScanGoesOn` is the heart: to scan bytes with others behind them is to scan the
first, unless they raise, and then what is left of them with the others behind it. With it
`LikeOneScan` is inductive: what the recvs have found, one after the other, is what one scan
of all received bytes finds, until a frame is undecodable. This is `CutsDoNotMatter`. For
`FramesArriveWhole`, the scan of whole pieces with a part of one more (`PiecesFollow`,
`CompleteIs`) is shown to be the frames of those pieces, and nothing to raise
(`NeverRaised`). For `OneReceiveIsLost`, `Accounted` counts: whatever arrives behind, the
frames found in all bytes are those delivered, those collected, those lost, and those that
are still in the buffer. It has to say so of all bytes that may come, since the buffer
alone does not say what they will complete.

The catalogue. `Stands` says that bytes stand at an offset of others, and `Holds`, byte
for byte, what that means for the fields of an entry. `EntryReads` shows that where the fields of an
entry stand, `EntryAt` reads that entry or, if it breaks the rules, nothing;
`EntryMeans` shows the converse. By induction over the rounds, `PayloadReads` and
`ReadingMeans` carry both over to the loop, and `ParsedBack` and `ParsedMeans` to
`ParseEqEntries`: parsing and writing are inverse to each other on what is accepted.
`Unsigned` and `Signed` being inverse (`SignedBytes`) is why no gain wraps around.
`ListIsProper` is the inductive invariant: a store keeps the list within the rules, because
the entry that the earbuds take over was read by the same parser, and keeps its id.

### Only model-checked

* The liveness properties (`Reconnects`, `DepartureShown`, `Stops`, `AnsweredWhileUp`,
  `ShowsTheLatest`, `OperationsEnd`), which are beyond the prover.

No safety property and no action property of a passing run is left that is only
model-checked. The theorems are about the models: that four bytes of header behave like
nine, and one byte of a frequency like two, is the abstraction of section 2.

## 5. Where the code and its documentation differ

1. `EqSessionAnnounced`: `eq_status` applies the events of its own read, which
   forgets the equaliser for `eq_changed`, and then stores the status it read
   before them. A change announced during the read is lost, and the older
   selection stays cached. The comment at `controller.py:302` says that "the next
   consumer read must fetch complete state".
2. `BudsServiceUnsupported`: a device without a profile is polled from the cache
   and stays on screen after it has left. `docs/backend-api.md:174-176` says that
   the front end removes the old model "while no compatible device is available".
3. `BudsServiceOtherErrors`: a `ValueError` of the codec, or D-Bus's own exception,
   ends the service thread, which should "run until cancellation"
   (`service.py:56`).
4. `AvailabilityOppo`: the watcher asks for "oneplus" in the name, discovery for
   "oneplus" or "oppo"; the arrival of the latter does not interrupt the wait, as
   `docs/backend-api.md:81` says of every compatible device.

Met while modelling, and part of the models as the code has them, without a run of their
own:

* Snapshots are taken under the controller's lock and written after its release
  (`bridge.py:198`), and the last one written is shown. A command's snapshot can follow
  the runner's empty one and stay through the backoff (against the sentence of 2), and
  an older one of the runner can follow a verified command's and stay until the next
  poll, next to "Verified on earbuds" (`README.md:130`: controls "reflect read-back
  state"). `ShowsTheLatest` and `DepartureShown` say that neither lasts.
* `_set_session_anc` applies the events of the transaction and then stores the verifying
  reply's state, also over a touch change reported behind that reply in the same `recv`
  (`docs/backend-api.md:63`: events "update cached typed state"). `EventsUpdateAnc` makes
  the exception explicit.
* `bootstrap` drops every battery and ANC event it has met, since "essential query
  responses are newer than setup notifications" (`session.py:107`). A battery change
  reported after the battery reply, while ANC is read, is newer and is dropped as well:
  one of the causes in `StaleStatusHasCause`.
* The event codes are copied into the controller before the subscription learns them
  (`controller.py:46`), and stay empty until a session is reopened;
  `docs/backend-api.md:61` says that subscription setup "then populates".
* A strength write closes the session before its firmware query is answered, and the
  next one does not ask; `docs/backend-api.md:170` says that firmware follows "on that
  same socket after the usable snapshot".

## 6. What is not modelled

The command line, the diagnostic report, timings and traces, and the scripts have
no state that anything else depends on. The parsers of single payloads of fixed size
(battery, versions, switches, noise control) and the profile tables are look-ups: the
session modules work with what they return. The presentation of the widgets, the
texts of errors and the names of report files are left out. The burst reader
`_receive_burst` is the choice of how many frames a step takes; that it ends quietly
when the peer closes is a failure of the wait after it.

Some limits of what is modelled:

* `set_eq` and `set_custom_eq` cap their events at 64, too (`session.py:278`, `339`). The
  controller forgets the equaliser after them, so that `EqSession` leaves these caps out;
  `SessionStartup` has them in `CommandReads`. `eq_status` has none.
* That a sequence number is not reused while a frame with it is under way is an assumption
  of `EqSession` (`NotInFlight`): the code does not check it.
* A `ValueError` out of a poll is a step of `SessionStartup` and `BudsService`.
  `AncSession` and `EqSession` leave it out: the runner shuts the controller down next,
  and what a command does in between on the session still open is not in them.
* `EqCatalogue` has no size check of names, band counts and frequencies
  (`protocol.py:343`, `353`, `360`), since an entry that was parsed passes them, and draws
  gains from the signed bytes: every other gain is outside the entry's range, which was
  itself parsed from signed bytes, and is refused by the check that is there.
* The lock and the output pipe are not in one module. `SessionStartup` shows that every
  operation ends and so frees the lock, `BudsService` that the process ends if operations
  do, `Panel` what waiting writers do to each other.

Some hazards are delimited by a property that names the one case in which the code lets
them happen: an undecodable frame taken for a refused parameter (`controller.py:177`), the
mode kept after a failed strength write, the verifying reply stored over a newer report, a
refresh after the final shutdown, the requests pending when the helper is told to end. The
properties say that nothing else has the same effect. Nothing is stated of which device
the user meant with a command, nor of whether the text of an answer is the right one
(`command_failed` after a write that took effect, `internal_error` for a device without a
profile).

## 7. Plan

1. Done: `OpoWire`, `AncSession`, `EqSession`, `BudsService`, `Availability`,
   `SessionStartup`, `Panel`, `FrameStream`, `EqCatalogue`, `VerifiedWrite` and its two
   implementations.
2. Done: proofs of every safety and action property of these modules, and of both
   refinements.
3. More abstract specifications: a controller that is down, live or read-only, which
   `BudsService` implements; a hint counter with a waiter, which `Availability`
   implements.
