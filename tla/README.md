# Verification of the ESP32 Codex companion

The repository builds two programs that work as one: the firmware of a round
ESP32-S3 touch device (`firmware/`) and a macOS companion (`mac/`).  The device
has a BOOT button and a microphone.  Holding BOOT starts a voice session: the
Mac switches its default microphone to a virtual device, presses a dictation
shortcut, and plays the audio of the device into the virtual microphone.
Letting go ends it, and two taps within eight seconds send Return.  This
directory holds TLA+ modules of the parts of that path that are hard to test,
the TLC runs that check them, and TLAPS proofs about them.

All line numbers below are those of the files under `src/`.

## 1. Inventory

### Device (C, FreeRTOS)

| component | state | operations | hard behaviour |
|---|---|---|---|
| device model, `components/device_model` | link flag, remote and visible state, debouncer, hold timer, submit window | `set_connected`, `set_remote_state`, `button_edge`, `button_sample` | edges and samples of one button reach it by two paths with different time stamps |
| main loop, `main/app_main.c` | `previous_button_down`, `boot_interaction_armed`, heartbeat, the queues of edges and control messages | one 10 ms iteration: links, route loss, level, messages, edges, sample, switch, render | the interrupt, the display task and the network tasks interleave with it; an iteration may take long |
| wireless router and audio stream | selected route, loss grace; capture flag and stop time | begin, finish, cancel, send, lost; start, stop with tail, cancel | flags shared between the loop and the capture task; a codec shared with the tones |
| Wi-Fi transport | sockets, session keys, sequence numbers | connect with handshake, send, receive, mark disconnected | session torn down on one task while others send |
| Wi-Fi manager and state | state, hint, hotspot, portal, a flag for a disconnection that was asked for | set-up, portal form, station events | three tasks and no lock |
| BLE transport, host profile | connection, hmac key, host in NVS, subscriptions | provisioning write, save, clear | restart, failed write or disconnection between the steps of a pairing |
| replay guard and control queue | last number, eight messages | accept, reset, drain | two radio tasks and the loop, without a lock |
| USB (UAC, HID, CDC) | mode in NVS, desired and reported key | `cc_usb_hid_ptt_set`/`poll`, line send | a release lost with the cable |
| UI, battery | the app that is open, the prompt pending and the one shown | draw, measure, prompt, gestures | prompts come and go while the user swipes |
| codecs | BLE reassembler, Wi-Fi replay window, ADPCM predictor | framing, CBOR, AES frames, ADPCM | each format is written by one program and read by another |

### Mac (Swift, C++)

| component | state | operations | hard behaviour |
|---|---|---|---|
| `CompanionService` | active profile and source, saved input source, cleanup generation, liveness, replay guards, prompt | control dispatch, begin/end/fail a session, USB edges, liveness timer, stop | runs on the main actor, is fed by tasks posted from two other queues |
| `PTTController`, `CodexMicRouteManager`, `MacKeyboard` | session state, profile, held key, previous device | `buttonDown`, `buttonUp`, `finishDeferredRestore`, `cancel`, `submit` | each step may throw after something was taken |
| `WiFiControlServer`, `WiFiAudioGateway` | connection, session, replay window, PTT state, jitter buffer | accept, close, configure, begin, end, playout | live on a network queue, not on the main actor |
| `CompanionBLECentral` | connection, readiness, retries, delayed tasks | scan, connect, subscribe, provision, retry | callbacks become tasks; delayed tasks outlive what they were for |
| `USBControlTransport`, `USBHIDPTTMonitor` | serial port, edge deduplicator | receive, close, connect | two mirrored interfaces and a cable |
| driver, its server and the socket client | ring buffer, connection, `clearPending` | write, read, clear, connect, restart | real-time reader; either process may end at any step |
| hooks, reducer, approvals | snapshot revisions, active prompt | reduce, open, select, press, expire | a selection for a replaced prompt |
| stores, agent, weather, CLI | files, keychain | load, save | I/O |

### How they interact

The interrupt queues edges for the main loop.  The loop calls the device model
and, from the value it returns, the radios or the USB interfaces.  A control
message gets one number and is sent as the same bytes over BLE and Wi-Fi; either
copy may be lost.  On the Mac, CoreBluetooth callbacks and the Wi-Fi network
queue post tasks to the main actor, which runs them in order; but the network
queue reconfigures the audio gateway itself, without waiting for those tasks.
The end of a session schedules a cleanup 200 ms later.

### What makes each part correct

- Button: a bounce or a stall never sends Return into a dictation; one voice
  session buys at most one Return, after two presses; a hold becomes a session;
  a release ends it; the submit window always closes.
- Session: the microphone, the key and the input source of the user come back
  on every path; nothing of an old session disturbs a new one; service and
  controller agree; the gateway plays for a Wi-Fi session only; a mirrored
  message counts once; a lost link or cable ends what came over it.
- Gateway: whatever the network does to the frames, each is played at most once,
  in order, with silence only in the place of a proven loss; nothing stays in a
  buffer for ever and a released press always ends.
- Device audio: what the microphone hears leaves the device only for a session, its
  pre-roll or its tail; a lost route ends the session; the modem sleeps afterwards
  unless the driver refuses.
- Wi-Fi: a flag that waits for a disconnection gets one; the page that takes credentials
  does not stay open; a sender never mixes two sessions; the Mac has one session at most
  and knows of it.
- Pairing: a key is replaced only by way of none; a Mac that says connected shares the
  key, unless the pairing was reset under its link.
- Prompts: the button pressed is the one that was chosen, once, unless another prompt came
  under the finger; a closed prompt leaves.
- Control messages: nothing is handled twice or after something newer; a Mac that starts over
  is heard again once its old links are seen down.
- Virtual microphone: a dictation hears what was said in it, in order, once.
- Formats: what one end writes is what the other end reads, at every limit.

## 2. Modules

```
DeviceModel                 components/device_model (state and actions, no Next)
  BootLoop                  contact, interrupt, queue, main loop
    BootLoopProofs          theorems about BootLoop
PTTController               PTTController + route + input-source memory (operators)
  VoiceSession              CompanionService with its links, tasks and timers
    MCVoiceSession          profiles for TLC
    VoiceSessionProofs      theorems about VoiceSession
BorrowedVoice               what a voice session may do to the Mac (abstract)
WiFiAudioGateway            replay window, prebuffer, jitter buffer, playout timer
InOrderPlayout              what the listener of a session hears (abstract)
WirelessVoice               main loop, router, capture and tone tasks of the device
  WirelessVoiceProofs       theorems about WirelessVoice
WiFiSetup                   wifi_manager and wifi_state: setup, portal and event tasks
WiFiSession                 wifi_transport against WiFiControlServer
WiFiProofs                  theorems about WiFiSetup and WiFiSession
BlePairing                  ble_transport against CompanionBLECentral
  BlePairingProofs          theorems about BlePairing
ControlLink                 replay guard and control queue against a Mac that restarts
  MCControlLink             bounds for TLC
DevicePrompt                approvals: Codex, service, links, screen, finger
ControlProofs               theorems about ControlLink and DevicePrompt
MicDriver                   socket client, server thread, ring, CoreAudio reader
AudioProofs                 theorems about WiFiAudioGateway and MicDriver
WireFormats                 the formats of both ends
  MCWireFormats             inputs for TLC
  WireFormatsProofs         theorems about WireFormats
```

### DeviceModel and BootLoop

`DeviceModel` has one variable per group of fields of `cc_device_model_t` and one
action per function.  Time stamps are kept as ages and deadlines as what is
left of them, saturated where no comparison can tell more; the theorem
`TypeCorrect` shows that nothing leaves these ranges.  The button sample is a
disjunction with one disjunct per branch of the C function (`SampleChanges`,
`SamplePresses`, `SampleEndsVoice`, `SampleReleases`, `SampleStartsVoice`,
`SampleRests`), and each applies the expiry of the window that the function
does first.

`BootLoop` follows one iteration with `pc`:

| step | code (`app_main.c`) |
|---|---|
| `LinkChanges` (before the level is read) | 601-619 |
| `ReadButton` | 630-636 |
| `StateUpdate` (the control queue) | 637, 259-281 |
| `DrainEdge`, `EdgesDrained` | 649-670 |
| `SampleButton` with `Gate` | 671-675 |
| `Switch` with `Rearm` | 676-760 |
| `Tick` | the delay of the loop, and a slow redraw |

`FingerMoves` and `ContactBounces` move the contact and run the interrupt
(`LatchEdge`) at any point of the iteration; `ForegroundChanges` is the display
task.  `delivered` is what the loop carries out in a step.  `taps`, `closures`,
`unspent` and `announced` are history variables: no action reads them.  The
fields of the model that are only displayed (quota, activity) are left out.
The audio calls of the switch are left out too, except that a PTT_DOWN
may find no route and show an error.

### PTTController and VoiceSession

`PTTController` has the four operations of the controller as operators on a
record `[state, profile, held, mic, saved]`, with a Boolean argument where
CoreAudio or the event tap may refuse, and the three operations on the input
source on a record `[current, saved, restore]`.

`VoiceSession` composes them with the service.  There are two threads of control:

- the *network side* (`Arrives`, `LinkMoves`, `GatewayDrains`, `SinkFails`) acts
  at once on `linkUp`, `gateway` and appends to `tasks`;
- the *main actor* (`RunTask`, `StartVoice`, `CleanupRuns`, `LivenessTick`,
  `UsbEdge`, `UsbDetach`, `Stop`) takes one step at a time.

A PTT_DOWN is two steps, `RunTask` and `StartVoice`: the first chooses the source
from `wifiAudioGateway.isSessionReady` (line 628), the second runs
`beginVoiceSession`.  Both calls take the lock of the gateway, and the network
queue may act between them.  The other handlers touch the gateway once,
so each is one step.

Abstractions, and why they lose nothing the properties tell apart:

- The cleanup generation is a counter in the code; only "is it the current one"
  is ever asked.  `deferred` is the set of scheduled work items seen through that
  question: `"Current"`, `"Superseded"`.
- A control message is its number; both copies are the same bytes, so the
  number stands for the packet in the deduplicator as well.  Numbers of the
  device do not wrap in the length of a run.  The 30 s and 64 entries that the
  deduplicator keeps are longer than the life of a copy on the wire.
- `liveness` is `"Unset"`, `"Fresh"` or `"Expired"`: nil, heard within 6 s, not heard.
- `guard[r] = 0` is a `SequenceGuard` that was just reset.
- `bleValue` is `characteristic.value`: a task of the BLE callback reads it when it
  runs, so two quick notifications make both tasks read the second one.
- The HID report of the device is `pending["Hid"]` and the CDC line
  `pending["Cdc"]`; either may come first.  When the cable is pulled,
  macOS releases the keys of the keyboard that vanished.

### BorrowedVoice

The abstract specification has three variables (session, microphone, key) and
three actions: a session opens and borrows, closes and lets go of the key, and
returns the microphone.  `VoiceSession!BorrowsAndReturns` is the instance of it
with a session state computed from the controller's; its liveness says that a
session that closed is settled, by its cleanup or by a new session.

### WiFiAudioGateway and InOrderPlayout

Every handler of `WiFiAudioGateway.swift` runs on one serial queue, so each is one
action: `Configure`, `BeginPTT`, `EndPTT`, `CancelPTT`, `Receive` (`ingest` with
`WiFiReplayWindow.accept` and `enqueue`), and one disjunct of `PlayoutTick` per way
through `playoutTick` (drain over, waiting, a frame, a concealed loss, rebuffering,
a sink that throws).  `VoiceSession` sees of it the press and its end only.

A frame is its number.  The network may deliver any frame of the session at any
time, as often as it likes, or never; packets that fail authentication change a
diagnostic counter only and are left out with the other diagnostics.  The bit mask
of the replay window is the set of distances whose bit is set.  Instants are kept
as ages, saturated where no comparison looks further, and one tick of `Elapse` is
the unit of all durations; the timer may fire more or less often than that.  The
prebuffer forgets entries lazily in the code, at the next packet or press; an
entry that is too old is no longer seen by either, so the model forgets it by age.
`last`, `silent` and `heard` record what the sink was given and are read by no action.

`InOrderPlayout` is the promise: during a press, frames of a numbered stream, each
once in a session and never backwards, with silence for those that did not come.

### WirelessVoice

One iteration of the loop is `LoopLinks` (links, heartbeat, power of the modem),
`LoopRoute` (a lost route, the control queue) and `LoopButton`.  The button is any
sequence of actions that `cc_device_button_sample` can return; which of them it
returns when is the subject of `BootLoop`, and `armed` may drop each as the gate of
line 673 does.  `CaptureStep` is `capture_task`, split at the reads and writes of the
flags of the stream, because `Start`, `Stop` and `Cancel` of the loop come in between;
`ToneLocks` and `ToneNoteEnds` are the tone task, which takes the codec's mutex for a
note at a time.  Deadlines are ticks that are left.  `SetRealtime` is `cc_wifi_set_realtime`
and may fail; all its callers forget the deadline then, so a modem that did not go to
sleep stays awake until another session asks.  `power.failed`, `owner`, `fresh`, `dark`
and `behind` are history.

A session that reuses the route of the one before (`cc_wireless_audio_route_finish`
keeps it) is in the model, and so is a message drained after its link was lost.

### WiFiSetup

`state` is what `wifi_state.c` holds; `SetupStep`, `WebStep` and `HandlerStep` are the
three tasks, each split at the calls another one can act between.  The station
driver is external: it associates, fails, loses the network, refuses any call; an address
comes some time after the association, or never.

### WiFiSession

The transport task goes through `Probe`, `Establish` or `Rejected`, `PrepareAudio`,
`Publish`, and `mark_disconnected` store by store (`Unflag`, `Unlink`, `Silence`, `Clear`).
A sender is two steps: the check of the flags under its mutex, and the end of the
send.  The Mac's serial queue is a sequence of closures and of what the network
reports; closing a connection posts its `onClosed` once, to the end.  A connection
stands for its session and keys, since both ends draw fresh nonces.  A peer without an IPv4
address is refused after its handshake.

### BlePairing

`GattStep` is a provisioning write in the order of `gatt_access`: checks, then the key
to flash, then the name, then the copies in memory; power may go at each
(`PowerCut`), a write may fail, and `cc_ble_clear_pairing` may run in between on its own
task: it erases the flash, forgets the memory, then asks for the end of the link, which
comes later (`LinkEnds`) or, if the stack refuses, not at all.  `unpaired` remembers that a
link outlived its pairing.  The central's callbacks are tasks in a queue; `timers` holds the delayed
tasks (a retry, a new scan), which are not cancelled when what they were for is over.

### ControlLink

`Checks`, `Stores`, `Queues` are `handle_control` on the task of a link: read the guard,
write it, queue the message.  `Samples`, `Drains`, `PassEnds` are the part of the loop that
resets the guard when the link comes or goes and empties the queue.  A line of the USB counts
as a link for ever (`HearsUsb`).  The Mac may end and start over with its numbers (`Restarts`),
which may stay below the old ones; `gone` remembers that the loop then saw no link.  `raced` remembers that the guard changed
between a task's check and its send: the code has no lock, so the property about the
order is stated without it, and `NumbersNeverRepeat` shows what happens with it.

### DevicePrompt

From the hook Codex runs to the button the service presses.  `Tick`, `PollRollout` and
`Expires` are the timers of the service, `Selection` the handler of an answer; `Projects`
is what the device does with an opened or closed prompt, `Touches`, `Selects` and `Lifts`
are the finger, `OpensCodex` and `LeavesCodex` the apps.  The buttons are the same objects for
every prompt: a finger keeps its place and the time of its touch when another prompt replaces
the one it was put on, and its release takes number and risk of the new one.  `finger.seen`,
`answered.replaced` and `answered.chosen` are history.  Prompts get lost with their link
(`LinkDrops`) or when the control queue or the bytes of a USB line overflow (`Overflows`).  A dialog may be answered at the
Mac, replaced by another that offers the same button at another place, or not be one
that asks for approval at all.

### MicDriver

The two threads of the driver end each step at an atomic load or store of the ring,
where they see each other.  `raced` remembers that a clear fell into a read: the
reader then overwrites the cleared index with its own, which the code accepts, and the
properties are stated for the other cases.  Samples are numbers; a restart of
either process loses what the code loses.

### WireFormats

Pure operators, one pair per format: the bytes one program writes and what the other
makes of them, with the limits of both.  `PromptBytes` (Swift) goes through `Sealed`,
`Fragments` or `WifiFrame` or the base64 line, and `Prompt` (C) must give it back.
Integers are their eight bytes, because their widths are what the two sides might
disagree about.  HMAC and AES-GCM are symbolic.  `MCWireFormats` lists the inputs: every
boundary of a width, a capacity or a table, on both of its sides.  A loop of the code is a
recursive function on its steps.  `WellFormed` says what an input of a kind may be: what
the types and the limits of the writer allow it to be, and of the numbered frames that a
session does not come back once another one began, since its nonce is fresh.

## 3. Runs

`PROJECT.json` lists twelve runs.  "Further configurations" below are run by hand.

| run | question | bounds | states |
|---|---|---|---|
| `boot_loop` | what may the button start, confirm and send? | Debounce 2, Lockout 2, Hold 3, Window 5, MaxStall 2 ticks, queue of 3, bounce of 2, wireless mode | 650,276 |
| `voice_session` | what does the Mac hold during a session and give back, and does it implement BorrowedVoice? | 2 messages, 2 link changes, 2 USB presses, 2 waiting tasks, 2 profiles | 228,836 |
| `wifi_gateway` | what is played, in which order, and does a released press end? | 5 frames, window 3, jitter buffer 3, prebuffer 2, start at 2; durations 1, 2, 3, 4 | 37,101 |
| `wireless_voice` | whose microphone is it, which route carries it, when does the modem sleep? | tails 1 and 2, hold 3, grace 4, note 2 ticks | 1,336,600 |
| `wifi_setup` | what do three tasks find of the flags they left? | 3 waiting events, 4 attempts | 4,269 |
| `wifi_session` | does a sender or the Mac ever mix two connections? | 3 connections, one from a stranger | 710,697 |
| `ble_pairing` | is a key ever replaced, does connected mean paired, do attempts end? | 2 retries, 3 faults | 201,043 |
| `device_prompt` | is the button that is pressed the one that was chosen? | 2 links, 2 dialogs, 2 revisions, 1 selection at a time, 1 loss of a link or message | 648,466 |
| `mic_driver` | which samples does the next dictation hear? | ring and read of 2, word of 64, 5 samples, batches of 2, stream of 3, 1 restart | 565,209 |
| `wire_formats` | does each end read what the other writes? | the inputs of `MCWireFormats` | 15,709 |
| `control_link` | what is handled when two radios share a guard without a lock? | 2 links, queue of 2, 2 messages of each process of the Mac, 3 link ups, the USB line | 582,489 |
| `lost_link_releases_key` | finding 1 | 2 messages, 2 link changes, 1 press, hold profile | violation |

Each property is stated in words above its definition.  In short:

- `boot_loop`: `VoiceExcludesSubmit`, no submit window is open while a hold records;
  `SubmitNeedsTwoClosures`, Return needs two closures of the contact since the end of
  the hold, whatever the interrupt queue and the stalls did; `DisarmedBeforeRelease`, the
  gate is closed whenever the debouncer reports a release (it holds, and it is finding
  2); `HoldBecomesVoice`.
- `voice_session`: `SessionsAgree`, `BorrowedIsReturnable`, `UsbSessionMatchesButton`,
  `MirroredOnce`, `SessionUndisturbed`, the refinement `BorrowsAndReturns` with its
  liveness, and `LostWifiEndsSession`.
- `wifi_gateway`: the refinement `PlaysInOrder`, and `DrainsOut`.
- `wireless_voice`: `MicrophoneIsOwned`, a frame that leaves belongs to the session, its
  pre-roll or its tail; `SessionKeepsMicrophone`, nothing of an earlier session or a tone
  takes it away; `LostRouteEnds`; `AwakeForWifi`, the modem does not sleep under a
  session on Wi-Fi or its tail; `ModemSleeps`, afterwards it does.  Both speak of a driver
  that does as it is told.
- `wifi_setup`: `ReconnectIsAwaited`, a set "disconnection expected" flag has one to come,
  if not the one it was set for (section 7); `PortalIsRetired`, the page that takes
  credentials is gone once the station is connected; `ConnectingEnds`, the device stops
  connecting unless a network keeps it without an address.
- `wifi_session`: `SendersUseLiveSession`, whoever is past its check uses the sockets and keys
  of one session; `OneSession`, the Mac has at most one that it told the service of;
  `ConnectedIsAnnounced`.
- `ble_pairing`: `ConnectedIsPaired`, `SecretNeverReplaced`, `AttemptsEnd`.
- `device_prompt`: `PressIsChosen`, which leaves out a prompt replaced under the finger
  (section 7); `PromptOwnsScreen`, `AnsweredOnce`, `ClosedPromptsLeave`.
- `mic_driver`: `RingHoldsSession`, `HeardOnce`, `MissingDriverIsReported`.
- `wire_formats`: `PromptsAndAnswersCross`, `ReportsReachDevice`, `PacketsArriveOnce`,
  `CodecInStep`.
- `control_link`: `HandledForward`, the loop handles no message older than one it handled
  before, unless the guard was reset or the race of the two tasks happened;
  `RestartIsHeard`, a Mac that starts over is heard again once the loop has seen the links
  of the old process down.

Further configurations: `tlc -config X.cfg M`.  The `*_Full.cfg` files hold the type
invariants and weaker or proved properties and all pass; `MCVoiceSession_Full` trades a
link change for a third message.

| configuration | what it adds | result |
|---|---|---|
| `BootLoop_Full` | `BootTypeOK`, `ListeningOnlyWhileHeld`, `SubmitSpendsHold`, `WindowCloses` | passes, 650,276 |
| `MCVoiceSession_Full` | `VoiceTypeOK`, `FinishingIsScheduled`, `GatewayFollowsSession`, `UnpluggedReleases` | passes, 902,494 |
| `WiFiAudioGateway_Full` | `GatewayTypeOK`, `NeverAdmittedAgain`, `BufferAhead`, `TimelineKept`, `FramesLeave` | passes, 37,101 |
| `WirelessVoice_Full` | `WirelessTypeOK`, `ToneYields`, `CaptureHasRoute` | passes, 1,336,600 |
| `WiFiSession_Full` | `SessionTypeOK`, `OneStream`, `SessionIsActive` | passes, 710,697 |
| `MicDriver_Full` | `MicTypeOK`, `RingDrains` | passes, 565,209 |
| `MCControlLink_Full` | `ControlTypeOK` | passes, 582,489 |
| `BootLoop_ReleaseIsAnnounced` | finding 2 seen from the outside | violated |
| `BootLoop_LoneTapNeverSubmits`, `BootLoop_SubmitScreenHasWindow`, `MCVoiceSession_ControlMovesForward`, `MCVoiceSession_FailureRestoresInput`, `WirelessVoice_RoutePerSession`, `WiFiSetup_AddressConnects`, `DevicePrompt_HoldIsOfOption`, `DevicePrompt_PromptIsActionable`, `MicDriver_ClearForgets`, `MCWireFormats_DamageResets`, `MCWireFormats_QuotasReachDevice`, `MCControlLink_NumbersNeverRepeat` | section 7 | violated |

Why the bounds suffice.

- `BootLoop`: the order of the constants is that of the code (25 ms lockout, 30 ms
  debounce, 600 ms hold, 8 s window, in ticks of the loop); a stall of two ticks lets an
  edge overtake a sample and an expiry, three queue entries overflow with one bounce, and
  the window is long enough for two taps and short enough to expire in between.
- `VoiceSession`: two messages give a session and its end, a press lost in between or a
  second press; two link changes a loss and a reconnection, or the loss of both radios;
  two presses are needed for the re-arming interval; with two waiting tasks one can go
  stale behind another.  `MCVoiceSession_Full` has room for a session and the beginning
  of another.  What either leaves out is proved for all bounds (section 6).
- `WiFiAudioGateway`: five frames over a window of three reach every case of the window
  (in it, behind it, a jump past it), the buffers are small enough to be full, and the
  durations keep the order of the code (60, 100, 200, 500 ms).
- `WirelessVoice`: nothing is cut off; the durations keep the order of the code, and the
  grace is longer than a hold, so a route may come back within one.
- `WiFiSetup`: the boot attempt, a form, a second form and a lost network are four attempts;
  three events are more than the driver has under way before one is handled.
- `WiFiSession`: two connections of the device show a new one meeting the remains of the
  old; the third is a stranger that is refused, or a third of the device.
- `BlePairing`: with three faults a write fails, the power goes and the link is lost in one
  attempt; two retries are one that helps and one that is the last.
- `DevicePrompt`: a second dialog replaces the first, under the finger too; a second revision
  replaces a prompt of the same dialog; one loss takes a copy of two.
- `MicDriver`: indices run past the capacity twice; a batch, a read and the ring are of the
  same size, so full and empty both occur; the word is far above what is counted, because
  the code's is 64 bits wide.
- `ControlLink`: two numbers of the first process may be with a task, in the queue and
  accepted when the second starts over with the same two, and never overtakes; its last number
  stands for the heartbeats to come, so it is sent when the loop has looked at the link; four
  messages overfill the queue; three link ups let one link come back while the other stays.
- `WireFormats`: inputs are listed, not searched (the theorems are for all): both sides of
  every width, capacity and table, and for fragments each order, loss and repetition of a
  message of up to three.

The deadlock check is off where a system may really stop: when the bounds of messages,
links, connections, dialogs or attempts are spent (`VoiceSession`, `WiFiSetup`,
`WiFiSession`, `BlePairing`, `DevicePrompt`, `ControlLink`), after `Stop` of the service,
and when all inputs were tried (`WireFormats`).  The other four never stop.

## 4. Fairness

- `BootLoop`: the steps of an iteration are weakly fair (the loop runs in the
  main task and never blocks without a timeout), and so is the clock.  A contact
  that has to settle does.  Finger, links and display have no fairness.
- `VoiceSession`: the main actor serves its tasks, starts and USB edges (weak), the
  cleanup work item (strong: it is enabled again and again between the tasks of the
  main actor, and GCD runs it) and the one-second timer (strong, same reason).
  Time passes for `PeerSilent`.  Links, messages and the device have no fairness.
- `WiFiAudioGateway`: the playout timer fires and time passes (weak).  Network,
  presses and sessions have no fairness.
- `WirelessVoice`: loop, capture task and tone task are scheduled, time passes.  The user
  and the radios are free.
- `WiFiSetup`: the tasks are scheduled, and the station driver ends each join one way or
  the other.  Forms, the loss of the network and the addresses it gives are free.
- `WiFiSession`: tasks and queues are served, and a connection under way makes progress (TCP).
- `BlePairing`: callbacks and due timers run, the device serves a write it was sent, a
  reset goes on, and a link whose end was accepted ends.
- `DevicePrompt`: timers of the service, tasks of the device and deliveries; the dialog, the
  finger and losses are free.
- `MicDriver`: both threads are scheduled and CoreAudio reads while a device runs.
- `ControlLink`: tasks and loop are scheduled and the heartbeat is sent (every 2 s).
- `WireFormats`: none; each state is one input.

## 5. Assumptions about what is outside

- The contact bounces for at most the 25 ms that the lockout constant stands
  for (`BounceAssumption`).
- A key event that the event tap refuses leaves the keyboard unchanged, and the
  key release that cleans up after a failure goes out.  Putting the saved audio
  device back succeeds.
- A tap of a shortcut (press and release) is one event.
- Tasks posted to the main actor run in the order they were posted.
- `start` and `stop` of the gateway open and close its socket; towards the rest of
  its state `stop` is `Configure(FALSE)`.  A session has fewer than 2^32 frames.
- `stop()` is followed by the end of the process (`CompanionAgent` does so).
- The radios that are up when the service starts are a free choice.
- Reads and writes of a `volatile` flag or an aligned word on the ESP32-S3 are not torn;
  anything may happen between two of them.
- TCP and the station driver, `esp_wifi`, NVS, NimBLE and CoreBluetooth are external: each of
  their calls may fail, and what they deliver comes in the order in which they say so.
- Two handshakes never draw the same nonces; a tag made under one key does not verify
  under another.  Encrypted and authenticated bytes are symbolic for that reason.
- `WireFormats` splits integers into bytes because TLC's own integers have 32 bits.

## 6. Proofs

Each theorem holds for all values of the constants that satisfy the named assumptions
of its module.  Every invariant was an invariant of a TLC run before it was proved.

**`BootLoopProofs`** (`TimesAssumption`, `StatesAssumption`, `QueueAssumption`,
`BounceAssumption`, `ModeAssumption`)

| theorem | statement |
|---|---|
| `TypeCorrect` | `Spec => []BootTypeOK` |
| `VoiceExcludesSubmitHolds` | `Spec => []VoiceExcludesSubmit` |
| `ListeningHolds` | `Spec => []ListeningOnlyWhileHeld` |
| `DisarmedHolds` | `Spec => []DisarmedBeforeRelease` |
| `ReleaseNeverDelivered` | `Spec => [](delivered \notin {"PttUp", "CancelPtt"})` |
| `SubmitSpendsHoldHolds` | `Spec => SubmitSpendsHold` |
| `SubmitNeedsTwoClosuresHolds` | `Spec => []SubmitNeedsTwoClosures` |

The inductive invariant is `BootInv`.  The type invariant alone is not inductive:
the age of an edge must be bounded by the present stall (`EdgesFresh`), or a drained
edge could be older than any comparison allows.  `HoldsUnspent` ties an open window
to a hold that no Return has answered, which gives `SubmitSpendsHold`.
`LevelTracked` is the heart of the release argument: the debouncer's candidate is
always the level that the loop saw last, and the interaction is armed only while that
level is pressed; so a debounced release, which needs a candidate that was already
up in an earlier iteration, always finds the gate closed (`ReleaseDisarmed`), and
`ReleaseDropped` follows.

A Return needs two closures of the contact because a closure is never judged twice.
`SubmitInv` follows each one from the interrupt to the model: the presses that wait in
the edge queue (`PressesCounted`), the one that armed the confirmation (`ConfirmCounted`)
and the one that answers it (`SubmitCounted`) were each counted when the contact closed.
The count goes to two, so it is enough to tell one such press from two, whatever the
queue lost when it was full.

**`VoiceSessionProofs`** (`DevicesAssumption`, `ProfilesAssumption`,
`SourceAssumption`, `InputAssumption`, `BoundsAssumption`): every set of profiles and
input sources, every bound, both modes of the device

| theorem | statement |
|---|---|
| `VoiceTypeCorrect` | `Spec => []VoiceTypeOK` |
| `SessionsAlwaysAgree` | `Spec => []SessionsAgree` |
| `AlwaysReturnable` | `Spec => []BorrowedIsReturnable` |
| `AlwaysScheduled` | `Spec => []FinishingIsScheduled` |
| `GatewayAlwaysFollows` | `Spec => []GatewayFollowsSession` |
| `AlwaysMirroredOnce` | `Spec => []MirroredOnce` |
| `UsbSessionAlwaysMatches` | `Spec => []UsbSessionMatchesButton` |
| `AlwaysUnpluggedReleases` | `Spec => []UnpluggedReleases` |
| `NeverDisturbed` | `Spec => SessionUndisturbed` |
| `ImplementsBorrowing` | `Spec => Borrowing!Init /\ [][Borrowing!Next]_(Borrowing!vars)` |

The argument does not go action by action.  `StepOutcome` shows that every step does
one of five things to the session: it keeps it (`Kept`), opens one while none is
active (`Opened`), closes one and schedules its cleanup (`Closed`), gives everything
back at once (`Gone`), or runs the current cleanup (`Cleaned`).  The invariant, the
action property and the refinement then follow from the outcomes alone.  The lemmas
about `ButtonDown`, `ButtonUp`, `Cancel` and `FinishDeferredRestore` in front of it say
that the controller is `Returnable` between any two steps, and that a throw in the
middle leaves one definite state (`Thrown`) from which `Cancel` gives everything back.

The inductive invariant is `VoiceInv`, four conjuncts:

- `SessionInv`: the controller is `Returnable`, the service agrees with it, and a
  current cleanup excludes an active session.  The last is why no late work
  item can disturb a session.
- `MessagesInv`: what was acted on has been remembered, and in USB mode no control
  message is under way; without the second a radio could open a session on top of
  the button's.
- `ButtonInv`: the last edge under way on the HID interface is the state the button
  reported, so once the queue is empty the deduplicator has seen it.  This carries
  `UnpluggedReleases`.
- `EdgeInv`: while a USB session is finishing, the deduplicator is not holding a press
  whose release would be let through.  Without it, that release would cancel the
  controller under a scheduled cleanup.

**`AudioProofs`**, the microphone (`MicAssumption`): every ring, read size, batch,
socket buffer and number of restarts.  The assumption that the samples of a run do not
reach the word size is the code's: its indices are 64 bits wide.

| theorem | statement |
|---|---|
| `MicTypeCorrect` | `MicSpec => []MicTypeOK` |
| `RingAlwaysHoldsSession` | `MicSpec => []RingHoldsSession` |
| `AlwaysHeardOnce` | `MicSpec => HeardOnce` |

The inductive invariant is `MicInv`.  Socket, batch in hand and ring are one queue, in which
samples stand in the order of their numbers and ahead of everything given to
CoreAudio (`Past`, `RingInv`).  Between a sample and what is older than its session there
is a clear, or nothing older is left in front of it (`StaysParted`): that carries the
session's begin across a connection that broke, where the clear is sent first on
the next one.  `RingInv` and `StaysParted` hold until a clear has fallen into a read
(`raced`), and the properties say so too.  The ring is an array with indices modulo its
size, written by one loop and read by another; the proofs see the loops as functions
on the places they touch (`StoredWhere`, `Copied`), and rest on `PlacesDiffer`: two
numbers closer to each other than the capacity have different places.

**`AudioProofs`**, the gateway (`LimitsAssumption`, `DurationsAssumption`): every window,
buffer size, start count, duration and number of frames

| theorem | statement |
|---|---|
| `GatewayTypeCorrect` | `Spec => []GatewayTypeOK` |
| `AdmittedFramesStayOut` | `Spec => []NeverAdmittedAgain` |
| `BufferStaysAhead` | `Spec => []BufferAhead` |
| `TimelineAlwaysKept` | `Spec => TimelineKept` |
| `ImplementsPlayout` | `Spec => PlaysInOrder`, the whole refinement |

The inductive invariant is `GatewayInv`.  `Admitted` says that every frame that was
heard or waits has its bit in the replay window or lies behind it, so what is
accepted is new; `AdmitKeeps` shows that moving the window keeps it.  `Phases` says
which buffer is in use when, so that a frame is in one place only.  `PlaceInv` ties
the expected number to the place played last: without it the next frame of the
buffer could be behind the history that the refinement speaks of.

**`WirelessVoiceProofs`** (`TimesAssumption`)

| theorem | statement |
|---|---|
| `WirelessTypeCorrect` | `Spec => []WirelessTypeOK` |
| `MicrophoneAlwaysOwned` | `Spec => []MicrophoneIsOwned` |
| `SessionAlwaysKeepsMicrophone` | `Spec => []SessionKeepsMicrophone` |
| `LostRouteAlwaysEnds` | `Spec => []LostRouteEnds` |
| `AlwaysAwakeForWifi` | `Spec => []AwakeForWifi` |
| `CaptureAlwaysHasRoute` | `Spec => []CaptureHasRoute` |
| `ToneAlwaysYields` | `Spec => []ToneYields` |

The inductive invariant is `VoiceInv`.  It is an argument about time.  A tail that has run
out is carried out before time goes on, unless the capture task waits for a note of a
tone that began before it.  So a tail is counted out, with the note, before the press
that follows it is long enough to be a session (`TailInv`, `HoldOutlastsTail`), and no
stop of an earlier session is left for a new one.  `AwakeInv` compares the tail with the
wake after it, which is set in the same step and is longer.
`LossInv` compares the grace the router counts with an independent clock.
Each outcome of a button sample has its lemma (`PttDownSettles`, `PttUpSettles`,
`CancelSettles`, `PrepareSettles`, `RestSettles`), so that the step of the loop is a
case split over them.  `YieldInv` is what `ToneYields` needs: a note that is heard over a
capture began before it, and none follows it.

**`WiFiProofs`**, the setup (`BoundsAssumption`): `SetupTypeCorrect`
(`SetupSpec => []SetupTypeOK`), `ReconnectAlwaysAwaited` (`SetupSpec => []ReconnectIsAwaited`),
`PortalAlwaysRetired` (`SetupSpec => []PortalIsRetired`).  `FlagInv` says that a set flag
has its event in the queue or its form not yet acted on; `PortalInv` that a connected station whose event
handler is through, outside the opening of the portal by the set-up task, has none.

**`WiFiProofs`**, the session (`ConnectionsAssumption`): `SendersAlwaysUseLiveSession`
(`Spec => []SendersUseLiveSession`), `AnnouncedIsActive` (`Spec => []SessionIsActive`) and
`AlwaysOneSession` (`Spec => []OneSession`, which has `OneStream` as a conjunct).
`Published` determines sockets, keys and flag from the step of the transport task, and
`SendersInv` says at which of these steps a sender may be past its check: the mutexes
that `mark_disconnected` takes make the tear-down wait for it.  `StreamInv` is about the
server: `accept` closes what is active or pending, and whatever is open is one of the two
(`OneOpen`).  Only a late answer of an old connection could spoil that, by taking the
place of the active one; but the old one was closed before the new one began, so on the
serial queue all it still has to say stands before anything of the new one
(`OldAnswersFirst`).

**`ControlProofs`**, the control link (`ControlAssumption`): `AlwaysHandledForward`
(`Spec => HandledForward`) and `ControlTypeCorrect` (`Spec => []ControlTypeOK`: two tasks
fill the queue and it never exceeds its size), for any number of links, messages and link
changes, and all numberings of the two processes.  `LinkInv` orders the messages of the queue by their number and by the resets of
the guard (`Ordered`), places the queue behind the guard (`Behind`), and says of a task
about to send that nobody took its place (`TasksInv`), all of it unless the two tasks
have raced.

**`ControlProofs`**, the prompts (`PromptAssumption`): any set of links, and any number of
dialogs, states, selections, lost links and lost messages

| theorem | statement |
|---|---|
| `PromptTypesKept` | `PromptSpec => []PromptTypeOK` |
| `PressAlwaysChosen` | `PromptSpec => []PressIsChosen` |
| `PromptAlwaysOwnsScreen` | `PromptSpec => []PromptOwnsScreen` |
| `AlwaysAnsweredOnce` | `PromptSpec => AnsweredOnce` |

The inductive invariant is `PromptInv`.  A number is given once (`IdsIssued`), so two
prompts of one number are the same prompt, in the service, on the screen or on the way
(`PromptsAgree`); a finger put on the open prompt has therefore seen its button (`FingerSees`),
and so did a selection of its number, unless the prompt was replaced before the release
(`SelectionsSeen`); and a press closes its prompt, so the
next number is higher than any that was answered (`AnswersGoUp`).  A reduction may
bring several events, and the service handles them one after the other: `Hooked` is a
recursive function over them.  That it is defined for every number of events, and
keeps the invariant at each, is proved by the least counterexample (`Least`), since the
induction theorems of the library cannot be instantiated.

**`BlePairingProofs`** (`RetriesAssumption`): any number of retries and faults

| theorem | statement |
|---|---|
| `PairingTypesKept` | `Spec => []PairingTypeOK` |
| `NeverReplaced` | `Spec => SecretNeverReplaced` |
| `ConnectedAlwaysPaired` | `Spec => []ConnectedIsPaired` |

`KeysAgree` says that flash, memory and the write under way never hold two different
keys, except that a host nobody remembers any longer may have left its key in flash.
`CallInv` says that an attempt is always at one of five stages (`Waiting`, `Calling`,
`Refused`, `Lost`, `Linked`).  A lost link leaves its disconnection as the last task of
the main actor, and no attempt begins before that task has run; so nothing that an old link
reported is counted for a new one, and while a link is up all that was counted, or
still waits to be, is true of it (`Truthful`), until a reset makes it history.

**`WireFormatsProofs`** (`InputsAssumption`: every input is `WellFormed`;
`RefusedAssumption`: the value for a refusal is none of the things written or read): every
set of inputs, with strings, packets, streams, frames, options of any number and length

| theorem | statement |
|---|---|
| `CodecAlwaysInStep` | `Spec => []CodecInStep` |
| `EveryPacketArrivesOnce` | `Spec => []PacketsArriveOnce` |
| `EveryReportReachesDevice` | `Spec => []ReportsReachDevice` |
| `EveryApprovalCrosses` | `Spec => []PromptsAndAnswersCross` |

A state is one input, so each theorem is a statement about all inputs of some kinds, and
what has to be shown is that reading undoes writing.  The loops are recursive functions on
the natural numbers.  That such a function exists, and that what holds at 0 and from each
step to the next holds throughout, is proved by the least counterexample (`Least`,
`AllNumbers`), since the prover cannot instantiate the induction theorems of the library.

- *Codec*: the four bits of a code are the three comparisons and the sign that
  `encode_nibble` decided on (`CodeBits`), so `decodeNibble` adds up the same difference.
- *Replay window*: after any number of frames of a session the window holds the
  highest number, and of the 63 behind it just those that came (`Knows`).  A
  frame is another session's, ahead of the window, or in it (`AnotherSession`,
  `HigherNumber`, `LowerNumber`), and in each case it is taken just when it is new.
- *Fragments*: the buffer is the part of the packet that came; anything out of place makes
  the receiver forget it, and nothing but a whole packet is delivered.
- *Stream*: the frames of a stream lie one behind the other (`Laid`).  At each byte the framer is
  empty at the end of a frame or holds the beginning of one (`Within`), and a cut loses just
  the packet it falls into.
- *CBOR*: a head is read as it was written whatever stands behind it (`HeadIsRead`), so an item
  is too, and a layout of items by the number of its items (`LayoutIsRead`).  The envelope is
  a layout of thirteen with the tag at its end (`EnvelopeIsOpened`).  A prompt is a head and seven
  items for each option; `ItemPlaces` and `NextItem` find the items of the options in one
  layout of 7n, and `OptionsAreRead` reads them whatever n is.

The cryptography stays symbolic as in section 5: a tag is a function of key and text.

**Only model-checked.**  Every invariant and every action property of a passing run is
proved.  What is not is liveness, which needs `ENABLED` and is beyond the prover:
`HoldBecomesVoice`, `WindowCloses`, `LostWifiEndsSession`, the fairness part of
`BorrowsAndReturns`, `FramesLeave`, `DrainsOut`, `ModemSleeps`, `ConnectingEnds`,
`ConnectedIsAnnounced`, `AttemptsEnd`, `ClosedPromptsLeave`, `MissingDriverIsReported`,
`RingDrains`, `RestartIsHeard`.

## 7. Findings

1. **A PTT_DOWN in flight when Wi-Fi closes holds the key for ever.**  Run
   `lost_link_releases_key`.  `CompanionService.swift:628` chooses the source when the task
   runs, by then the gateway has no session, and the session becomes one of a BLE link
   that is not there; nothing ends it.  `CompanionService.swift:192-193`: "A lost link must
   never leave a synthesized modifier held or Codex Mic selected as the system default
   input."
2. **The release of BOOT is never delivered.**  `app_main.c:759` disarms the
   interaction when it first reads the raw release; `cc_device_button_sample` reports
   the release 30 ms later, and the gate of line 673 drops it.  `PTT_UP`, the audio
   tail and the HID/CDC release are never sent.  `README.md:99` promises that letting
   go ends the session.  `DisarmedBeforeRelease` in run `boot_loop`, for all constants the
   theorem `ReleaseNeverDelivered`; `BootLoop_ReleaseIsAnnounced.cfg` shows the trace.
3. **A quota below 24 % is dropped by the device.**  `app_main.c:172` refuses payloads of
   fewer than 7 bytes, and a value below 24 takes one byte less.
   `protocol/specification.md:91-92` allows 0 to 100.  `ReportsReachDevice` holds in run
   `wire_formats` with this exception only; `MCWireFormats_QuotasReachDevice.cfg` is
   the statement without it.

The following disagreements between a text of the repository and its code were seen while
modelling.  Each has a configuration that TLC refutes; they are run by hand.

| property | text | what the code does |
|---|---|---|
| `LoneTapNeverSubmits` | `host_tests/test_device_model.c:41`: "A lone short tap can never submit." | a closing bounce of the release, 25 ms or more after the press, counts as the second tap |
| `SubmitScreenHasWindow` | lines 41-42 there: its confirmation "expires without action" | a link loss clears the window and keeps its screen, which nothing expires (`device_model.c:38-40`) |
| `ControlMovesForward` | `protocol/specification.md:63-64`: "Sequences that repeat or move backwards are rejected." | the guards of the two radios are separate, so the sequence may move backwards across them |
| `NumbersNeverRepeat` | the same sentence | the tasks of both radios may check the device's guard before either writes it |
| `FailureRestoresInput` | `docs/hardware-validation.md:62-63`: every failure restores microphone and input source | a second PTT_DOWN before the end of the first loses the input source that the first one saved |
| `RoutePerSession` | `wireless_audio_router.h:14`: "Selects and locks the best route for one PTT session." | a route that is finished stays selected, and a session that follows reuses it (`wireless_audio_router.c:37-40`, `app_main.c:679`, `705`) |
| `AddressConnects` | `wifi_state.c:41-43`: the transport task starts discovery once the station has an address | an address that comes after the user opened the set-up is ignored, while the hint says connected |
| `HoldIsOfOption` | `protocol/specification.md:109-111`: a high-risk option is rejected unless it arrives after a hold of at least 1.5 s on the device | a prompt that replaces another under the finger is answered by the release: its number, its risk, the time of the old touch (`device_ui.c:213-224`) |
| `PromptIsActionable` | `CodexApprovalAccessibility.swift:118-121`, `CompanionService.swift:467-470`: the search for buttons runs only while the journal reports an actionable prompt | a search that is pending goes on after the journal has moved on to working, and opens a prompt |
| `ClearForgets` | `test_ring_buffer.cpp:24-25`: a cleared ring has nothing to read | a clear during a read is overwritten by the reader's index |
| `DamageResets` | `protocol/specification.md:47-48`: "Malformed, duplicated, skipped, or reordered fragments reset the current reassembly." | an error empties the buffer but keeps the place, so the remaining fragments complete a shortened message (`ble_framing.c:48-52`) |

Seen without a configuration: after a discovery without its service the central says
`.failed` and stays there (`CompanionBLECentral.swift:483-486`), where lines 395-396 say that
the connection is rejected immediately.  `protocol/wifi_transport.md:90-91` and
`docs/hardware-validation.md:68-69` say that 500 ms without a frame abort the session;
`WiFiAudioGateway.swift:346-348` decides the contrary.  A frame lost exactly at the
place where the playout waits after a rebuffer is skipped without the 20 ms of
silence of `wifi_transport.md:89`, because the restart takes the lowest frame there is.

Where the code itself limits what a property can say, the property states the exception:

- A modem whose `esp_wifi_set_ps` fails stays as it is: the deadline is forgotten with the
  failure (`app_main.c:573-576`, `wifi_manager.c:267-275`), so it stays awake until another
  session ends, or sleeps through one.  A note longer than the tail, or a frame held back by the
  codec's mutex, may leave after the 250 ms wake.
- The disconnection that a form waits for may be one that nobody asked for and that was queued
  before (`wifi_manager.c:179`, `209-216`); the station then reconnects on the wrong event.
- A network that associates and gives no address leaves the device connecting for ever; there is
  no timeout (`wifi_manager.c:204-230`).
- A reset of the pairing whose termination is refused or slow leaves the Mac connected to a
  device that has forgotten the key (`ble_transport.c:398-407`).
- The control queue takes eight messages and drops the ninth without a word (`app_main.c:256`), a
  PROMPT_CLOSE included, which stays on the screen then.
- The guard is reset when the main loop sees the links come or go (`app_main.c:601-607`), not, as
  `protocol/specification.md:65-67` has it, for a new encrypted session.  A Mac that starts over
  numbers from 1 again (`CompanionService.swift:887`).  As long as one of the old links has not
  been noticed down, and for ever once a USB line was heard, it is refused until it has passed
  the last number of its predecessor.

## 8. Not modelled

`PROJECT.json` lists every component with its status and every hazard.  Of the roughly
16,600 lines of C and C++, 5,600 are generated fonts and bitmaps, 3,200 the vendored board
support and sensor drivers, and 1,900 the drawing of the user interface: two thirds have no
control to model.  The modules here map about 2,500 of the rest, and 1,900 of
Swift.  What is left out, by component:

- *User interface of the device*: pages, drawing, the render cache, dimming.  Its prompt,
  its open app and its gesture are in `DevicePrompt`.  Noticed while reading `device_ui.c`:
  leaving Codex while listening keeps the wave bars; task events queued before are
  shown later; a prompt closed in the weather settings returns to the weather home; a prompt
  over another page leaves the hint hidden, and the next status render overwrites
  the hint of a prompt.
- *Pairing code and connection center*: `pairing_manager.c` and `connection_center.c` are
  built and tested, but the firmware does not call them.
- *USB*: polling of the HID report, the battery and the mode in NVS are I/O around what
  `VoiceSession` takes as inputs; `g_host_seen`, which is never cleared, is in `ControlLink`.
- *Handshake and keys*: key derivation and the parsing of CCH2 and CCW2 are external; an
  accepted handshake is authentic.
- *BLE audio*: `AudioFramePipeline` and the sending of notifications; the codec itself is in
  `WireFormats`.
- *Agent, stores, weather, app and command line*: periodic fetches, files, user interface.

Left out within the modules, each a place for a later property:

- `WiFiSetup`: no property says that a station tries again after it lost its network (it
  does not), that the hotspot goes when `httpd_start` failed (it stays on), or that a first
  connect is repeated when the driver refused it (`wifi_manager.c:260` ignores it);
  `cc_wifi_clear_credentials` has no caller and is not modelled.
- `WiFiSession`: a connection that closes between the leaving of its answer and the
  callback is announced all the same, until the next one is accepted; so `OneSession` speaks
  of connections announced and not of those alive.
- `BlePairing`: callbacks of an old peripheral that come late, a `userSelectionScan` that
  keeps rescans away, the rescan that `stop()` triggers.
- `DevicePrompt`: a prompt is not sent again when the link comes back, and a lost close
  leaves it on the device until it expires; these are in the model, and the properties are
  stated around them.
- `MicDriver`: the peer's user is fixed at `Initialize`; `stop()` joins a worker that may
  wait in `read` (`UnixAudioServer.hpp:54-63`); the client's socket has no `SO_NOSIGPIPE`
  (`CodexMicSocketClient.swift:131`); time stamps and property tables.
- `ControlLink`: inbound messages only.  `++outbound_sequence` is done by two tasks
  (`app_main.c:116`), and `ControlLink` does not have it.

## 9. What is left

In this order:

1. `DeviceUI`: the render cache against the screen, pages, queued task events, dimming.
2. `VoicePath`: device loop and Mac session end to end, with a release lost on the device.
3. The handshake of `WiFiSession`, with the coordinator of pairings on the Mac.
4. `WireFormats` with damage: what is refused of bytes nobody wrote.
