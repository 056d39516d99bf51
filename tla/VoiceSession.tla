---------------------------- MODULE VoiceSession ----------------------------
(***************************************************************************)
(* Voice sessions in CompanionService.swift: the control messages the      *)
(* device mirrors over BLE and Wi-Fi, the edges of the USB button, the     *)
(* links that come and go, and what they do to the shortcut, the default   *)
(* microphone, the input source and the Wi-Fi audio gateway of the Mac.    *)
(*                                                                         *)
(* Two threads of control meet here.  The network queue of                 *)
(* WiFiControlServer configures the gateway at once and posts a Task to    *)
(* the main actor for everything else; CoreBluetooth callbacks post Tasks  *)
(* too.  The main actor runs its tasks in order, one at a time, but        *)
(* beginVoiceSession is two steps here: the network queue can act between  *)
(* the choice of the source and the start of the session.                  *)
(***************************************************************************)
EXTENDS PTTController, Sequences

CONSTANTS
  NoSource,     \* activeVoiceSource is nil
  MaxMessages,  \* bound: PTT and submit messages of the device
  MaxChanges,   \* bound: times a link comes up or goes down
  MaxPresses,   \* bound: presses of the button in USB mode
  QueueLimit,   \* bound: tasks waiting for the main actor
  OwnInput      \* the input source the user has chosen

ASSUME SourceAssumption == NoSource \notin {"Usb", "Ble", "Wifi"}
ASSUME InputAssumption == OwnInput \in Inputs
ASSUME BoundsAssumption ==
  /\ MaxMessages \in Nat /\ MaxChanges \in Nat
  /\ MaxPresses \in Nat /\ QueueLimit \in Nat

Sources == {"Usb", "Ble", "Wifi"}
Radios == {"Ble", "Wifi"}
MessageKinds == {"Down", "Up", "Submit"}
Seqs == 1..MaxMessages

VARIABLES
  usbMode,   \* the device has booted as a USB microphone
  msgs,      \* the messages the device has numbered, oldest first
  wire,      \* per radio: copies under way, by number
  linkUp,    \* per radio: the link carries messages; for Wi-Fi, the
             \* gateway is configured with its session (isSessionReady)
  changes,   \* how often a link has changed
  button,    \* the USB button: pressed, presses, attached, and the last
             \* edge the HID interface reported
  pending,   \* per USB interface: edges under way
  tasks,     \* the tasks of the main actor
  bleValue,  \* characteristic.value: the last notified message
  linkState, \* per radio: connected, as the main actor knows it
  guard,     \* per radio: lastAccepted of its SequenceGuard, 0 for nil
  seen,      \* messages in the MirroredControlDeduplicator
  liveness,  \* PeerLiveness: unset, fresh, or 6 s without input
  edge,      \* USBButtonEdgeDeduplicator
  starting,  \* the source a PTT_DOWN has chosen, until the session begins
  ptt,       \* the PTTController and the default input device
  input,     \* the input source of the keyboard
  active,    \* activeProfile
  source,    \* activeVoiceSource
  deferred,  \* deferred cleanups: of the current generation, or superseded
  gateway,   \* pttState of the WiFiAudioGateway
  started,   \* the service runs
  acted      \* history: messages acted on, in the order of acting

deviceVars == <<usbMode, msgs, wire, linkUp, changes>>
usbVars == <<button, pending, edge>>
sessionVars == <<ptt, input, active, source, deferred>>
inboxVars == <<bleValue, linkState, guard, seen, liveness>>
vars == <<deviceVars, usbVars, tasks, inboxVars, starting, sessionVars, gateway,
          started, acted>>

Task == [kind : {"Control"}, radio : {"Ble"}, seq : {0}]
        \cup [kind : {"Control"}, radio : {"Wifi"}, seq : Seqs]
        \cup [kind : {"LinkUp", "LinkDown"}, radio : Radios, seq : {0}]
        \cup [kind : {"SinkFailed"}, radio : {"Wifi"}, seq : {0}]
Edges == [down : BOOLEAN, suppressing : BOOLEAN, rearming : BOOLEAN]

VoiceTypeOK ==
  /\ usbMode \in BOOLEAN
  /\ msgs \in Seq(MessageKinds) /\ Len(msgs) <= MaxMessages
  /\ wire \in [Radios -> Seq(Seqs)]
  /\ linkUp \in [Radios -> BOOLEAN]
  /\ changes \in 0..MaxChanges
  /\ button \in [pressed : BOOLEAN, presses : 0..MaxPresses, attached : BOOLEAN,
                 hid : BOOLEAN]
  /\ pending \in [{"Cdc", "Hid"} -> Seq(BOOLEAN)]
  /\ tasks \in Seq(Task)
  /\ bleValue \in 0..MaxMessages
  /\ linkState \in [Radios -> BOOLEAN]
  /\ guard \in [Radios -> 0..MaxMessages]
  /\ seen \subseteq Seqs
  /\ liveness \in {"Unset", "Fresh", "Expired"}
  /\ edge \in Edges
  /\ starting \in Radios \cup {NoSource}
  /\ ptt \in PTT /\ input \in InputMemory
  /\ active \in Profiles \cup {NoProfile}
  /\ source \in Sources \cup {NoSource}
  /\ deferred \subseteq {"Current", "Superseded"}
  /\ gateway \in {"Idle", "Active", "Draining"}
  /\ started \in BOOLEAN
  /\ acted \in Seq(Seqs)

(* The service has started, and some of the radios have connected.         *)
Init ==
  /\ usbMode \in BOOLEAN
  /\ msgs = << >> /\ wire = [r \in Radios |-> << >>]
  /\ linkUp \in [Radios -> BOOLEAN] /\ changes = 0
  /\ button = [pressed |-> FALSE, presses |-> 0, attached |-> usbMode, hid |-> FALSE]
  /\ pending = [i \in {"Cdc", "Hid"} |-> << >>]
  /\ tasks = << >> /\ bleValue = 0
  /\ linkState = linkUp
  /\ guard = [r \in Radios |-> 0] /\ seen = {}
  /\ liveness = IF \E r \in Radios : linkUp[r] THEN "Fresh" ELSE "Unset"
  /\ edge = [down |-> FALSE, suppressing |-> FALSE, rearming |-> FALSE]
  /\ starting = NoSource
  /\ ptt = PTTInit
  /\ input = [current |-> OwnInput, saved |-> NoInput, restore |-> FALSE]
  /\ active = NoProfile /\ source = NoSource /\ deferred = {}
  /\ gateway = "Idle"
  /\ started = TRUE /\ acted = << >>

-----------------------------------------------------------------------------
(* The three endings and the beginning of a session, as functions of the   *)
(* controller p and the input memory i they find.                          *)

(* deferredVoiceCleanupGeneration &+= 1: no scheduled cleanup is current.  *)
Superseded == IF deferred = {} THEN {} ELSE {"Superseded"}

SessionGone ==
  /\ active' = NoProfile
  /\ source' = NoSource

FailVoiceSession(p, i) ==
  /\ ptt' = Cancel(p)
  /\ input' = RestoreInput(i)
  /\ deferred' = Superseded
  /\ gateway' = "Idle"
  /\ SessionGone

(* A new press finishes the deferred cleanup of the session before.        *)
Settled == FinishDeferredRestore(ptt)
SettledInput == IF ptt.state = "Finishing" THEN RestoreInput(input) ELSE input

BeginVoiceSession(src) ==
  \* no Codex text field, or no enabled profile
  \/ FailVoiceSession(Settled, SettledInput)
  \/ \E profile \in Profiles :
       LET known == Remember(SettledInput, profile)
           chosen == SelectTarget(known, profile)
           route == IF src = "Usb" THEN UsbMic ELSE CodexMic
       IN \* the input source cannot be selected
          \/ Switches(known, profile) /\ FailVoiceSession(Settled, known)
          \* the controller throws, or the audio socket after it
          \/ \E emitted \in BOOLEAN :
               /\ DownThrows(Settled, emitted) \/ src # "Usb"
               /\ FailVoiceSession(ButtonDown(Settled, profile, route, emitted), chosen)
          \/ /\ ~DownThrows(Settled, TRUE)
             /\ ptt' = ButtonDown(Settled, profile, route, TRUE)
             /\ input' = chosen
             /\ deferred' = Superseded
             /\ active' = profile
             /\ source' = src
             /\ gateway' = IF src = "Wifi" THEN "Active" ELSE gateway

(* endVoiceSession with the cleanup it schedules.                          *)
ScheduleCleanup == Superseded \cup {"Current"}
EndVoiceSession ==
  IF active = NoProfile THEN FailVoiceSession(ptt, input)
  ELSE \E emitted \in BOOLEAN :
         IF UpThrows(ptt, emitted) THEN FailVoiceSession(ButtonUp(ptt, emitted), input)
         ELSE /\ ptt' = ButtonUp(ptt, emitted)
              /\ gateway' = IF source = "Wifi" /\ gateway = "Active"
                            THEN "Draining" ELSE gateway
              /\ SessionGone
              /\ deferred' = ScheduleCleanup
              /\ UNCHANGED input

KeepSession == UNCHANGED <<sessionVars, gateway>>

-----------------------------------------------------------------------------
(* The device and its links.                                               *)
Post(task) == tasks' = Append(tasks, task)
NetworkTask(kind, radio) == [kind |-> kind, radio |-> radio, seq |-> 0]
QueueOpen == started /\ Len(tasks) < QueueLimit

LastVoice(kind) ==
  \E i \in DOMAIN msgs :
    msgs[i] = kind /\ \A j \in DOMAIN msgs : j > i => msgs[j] = "Submit"

(* send_control_payload: one number, the same bytes over both radios; each *)
(* copy may be lost.  A release the firmware does not announce is the      *)
(* absence of an Up here.                                                  *)
DeviceSends(kind, copies) ==
  /\ started /\ ~usbMode
  /\ Len(msgs) < MaxMessages
  /\ copies \subseteq {r \in Radios : linkUp[r]}
  /\ kind = "Up" => LastVoice("Down")
  /\ msgs' = Append(msgs, kind)
  /\ wire' = [r \in Radios |-> IF r \in copies THEN Append(wire[r], Len(msgs) + 1)
                               ELSE wire[r]]
  /\ UNCHANGED <<usbMode, linkUp, changes, usbVars, tasks, inboxVars, starting,
                 sessionVars, gateway, started, acted>>

(* didUpdateValueFor posts a task that reads characteristic.value later;   *)
(* the Wi-Fi connection posts the message itself.                          *)
Arrives(radio) ==
  /\ QueueOpen
  /\ wire[radio] # << >>
  /\ wire' = [wire EXCEPT ![radio] = Tail(@)]
  /\ IF radio = "Ble"
     THEN /\ bleValue' = Head(wire[radio])
          /\ Post([kind |-> "Control", radio |-> "Ble", seq |-> 0])
     ELSE /\ Post([kind |-> "Control", radio |-> "Wifi", seq |-> Head(wire[radio])])
          /\ UNCHANGED bleValue
  /\ UNCHANGED <<usbMode, msgs, linkUp, changes, usbVars, linkState, guard, seen,
                 liveness, starting, sessionVars, gateway, started, acted>>

LinkTask(radio, up) == NetworkTask(IF up THEN "LinkUp" ELSE "LinkDown", radio)

(* A link comes up or is lost.  For Wi-Fi this is accept, the closing of   *)
(* the connection or its replacement on the network queue: the gateway is  *)
(* reconfigured before the main actor hears of it.                         *)
LinkMoves(radio) ==
  /\ QueueOpen
  /\ changes < MaxChanges
  /\ changes' = changes + 1
  /\ linkUp' = [linkUp EXCEPT ![radio] = ~@]
  /\ wire' = [wire EXCEPT ![radio] = << >>]
  /\ Post(LinkTask(radio, ~linkUp[radio]))
  /\ gateway' = IF radio = "Wifi" THEN "Idle" ELSE gateway
  /\ UNCHANGED <<usbMode, msgs, usbVars, inboxVars, starting, sessionVars, started,
                 acted>>

(* playoutTick: the tail has played out, or the sink refuses the samples.  *)
GatewayDrains ==
  /\ gateway = "Draining"
  /\ gateway' = "Idle"
  /\ UNCHANGED <<deviceVars, usbVars, tasks, inboxVars, starting, sessionVars, started,
                 acted>>
SinkFails ==
  /\ QueueOpen
  /\ gateway # "Idle" /\ linkUp["Wifi"]
  /\ gateway' = "Idle"
  /\ Post(NetworkTask("SinkFailed", "Wifi"))
  /\ UNCHANGED <<deviceVars, usbVars, inboxVars, starting, sessionVars, started, acted>>

-----------------------------------------------------------------------------
(* The main actor: tasks, timers and the second half of a start.           *)
MainFree == started /\ starting = NoSource

Accepted(radio, n) == n > guard[radio]
AlwaysNew(n) == TRUE
IsNew(n) == n \notin seen

(* handleControl.  The replay guard advances even for a mirrored copy.     *)
HandleControl(radio, n) ==
  LET acts == Accepted(radio, n) /\ IsNew(n)
      kind == msgs[n]
  IN /\ guard' = IF Accepted(radio, n) THEN [guard EXCEPT ![radio] = n] ELSE guard
     /\ seen' = IF acts THEN seen \cup {n} ELSE seen
     /\ acted' = IF acts THEN Append(acted, n) ELSE acted
     /\ liveness' = IF acts \/ radio = "Ble" THEN "Fresh" ELSE liveness
     /\ starting' = IF acts /\ kind = "Down"
                    THEN IF linkUp["Wifi"] THEN "Wifi" ELSE "Ble"
                    ELSE NoSource
     /\ IF acts /\ kind = "Up" THEN EndVoiceSession ELSE KeepSession

NeverAffects(radio) == FALSE
Affects(radio) == source = radio

(* onStateChange of the radios, and onFatalError of the gateway.           *)
HandleLink(task) ==
  /\ linkState' = IF task.kind = "SinkFailed" THEN linkState
                  ELSE [linkState EXCEPT ![task.radio] = (task.kind = "LinkUp")]
  /\ guard' = IF task.kind = "LinkUp" THEN [guard EXCEPT ![task.radio] = 0] ELSE guard
  /\ liveness' = IF task.kind = "LinkUp" THEN "Fresh"
                 ELSE IF task = NetworkTask("LinkDown", "Ble") THEN "Unset"
                 ELSE liveness
  /\ IF task.kind # "LinkUp" /\ Affects(task.radio)
     THEN FailVoiceSession(ptt, input) ELSE KeepSession
  /\ UNCHANGED <<seen, starting, acted>>

RunTask ==
  /\ MainFree
  /\ tasks # << >>
  /\ tasks' = Tail(tasks)
  /\ LET task == Head(tasks) IN
       IF task.kind = "Control"
       THEN /\ HandleControl(task.radio, IF task.radio = "Ble" THEN bleValue ELSE task.seq)
            /\ UNCHANGED linkState
       ELSE HandleLink(task)
  /\ UNCHANGED <<deviceVars, usbVars, bleValue, started>>

StartVoice ==
  /\ started
  /\ starting # NoSource
  /\ starting' = NoSource
  /\ BeginVoiceSession(starting)
  /\ UNCHANGED <<deviceVars, usbVars, tasks, inboxVars, started, acted>>

(* The work item that endVoiceSession scheduled.                           *)
CleansAlways(work) == TRUE
MayClean(work) == work = "Current"
CleanupRuns(work) ==
  /\ MainFree
  /\ work \in deferred
  /\ deferred' = deferred \ {work}
  /\ IF MayClean(work)
     THEN /\ ptt' = FinishDeferredRestore(ptt)
          /\ input' = RestoreInput(input)
     ELSE UNCHANGED <<ptt, input>>
  /\ UNCHANGED <<deviceVars, usbVars, tasks, inboxVars, starting, active, source,
                 gateway, started, acted>>

(* Heartbeats and audio of the device; six seconds without either.         *)
PeerHeard ==
  /\ MainFree
  /\ \E r \in Radios : linkUp[r]
  /\ liveness # "Fresh" /\ liveness' = "Fresh"
  /\ UNCHANGED <<deviceVars, usbVars, tasks, bleValue, linkState, guard, seen, starting,
                 sessionVars, gateway, started, acted>>
PeerSilent ==
  /\ started
  /\ liveness = "Fresh" /\ liveness' = "Expired"
  /\ UNCHANGED <<deviceVars, usbVars, tasks, bleValue, linkState, guard, seen, starting,
                 sessionVars, gateway, started, acted>>

(* The one-second timer on the liveness of the peer; the reconnection of   *)
(* BLE it asks for is a LinkMoves that may follow.                         *)
LivenessTick ==
  /\ MainFree
  /\ \E r \in Radios : linkState[r]
  /\ liveness = "Expired"
  /\ liveness' = "Unset"
  /\ IF source \in Radios THEN FailVoiceSession(ptt, input) ELSE KeepSession
  /\ UNCHANGED <<deviceVars, usbVars, tasks, bleValue, linkState, guard, seen, starting,
                 started, acted>>

(* stop(), after which the process exits: a session is cancelled.          *)
Stop ==
  /\ MainFree
  /\ started' = FALSE
  /\ ptt' = Cancel(ptt)
  /\ deferred' = Superseded
  /\ source' = NoSource
  /\ edge' = [down |-> FALSE, suppressing |-> FALSE, rearming |-> FALSE]
  /\ input' = RestoreInput(input)
  /\ gateway' = "Idle"
  /\ linkState' = [r \in Radios |-> FALSE]
  /\ linkUp' = [r \in Radios |-> FALSE]
  /\ wire' = [r \in Radios |-> << >>]
  /\ tasks' = << >>
  /\ UNCHANGED <<usbMode, msgs, changes, button, pending, bleValue, guard, seen, liveness,
                 starting, active, acted>>

-----------------------------------------------------------------------------
(* The USB button: B:1 and B:0 lines over CDC, F13 over HID, and the cable. *)

(* USBButtonEdgeDeduplicator.action: "None" for an edge it swallows.       *)
EdgeAction(down) ==
  IF down = edge.down THEN "None"
  ELSE IF down THEN IF edge.rearming THEN "None" ELSE "Down"
       ELSE IF edge.suppressing THEN "None" ELSE "Up"

SuppressionSticks(down) ==
  IF down = edge.down THEN edge
  ELSE [down |-> down,
        suppressing |-> edge.suppressing \/ (down /\ edge.rearming),
        rearming |-> IF down \/ edge.suppressing THEN edge.rearming ELSE TRUE]
EdgeAfter(down) ==
  IF down = edge.down THEN edge
  ELSE [down |-> down,
        suppressing |-> down /\ edge.rearming,
        rearming |-> IF down \/ edge.suppressing THEN edge.rearming ELSE TRUE]

HandleNativeUSBButton(down) ==
  /\ edge' = EdgeAfter(down)
  /\ CASE EdgeAction(down) = "Down" -> BeginVoiceSession("Usb")
       [] EdgeAction(down) = "Up" /\ active # NoProfile -> EndVoiceSession
       [] EdgeAction(down) = "Up" /\ active = NoProfile ->
            /\ ptt' = Cancel(ptt)
            /\ UNCHANGED <<input, active, source, deferred, gateway>>
       [] OTHER -> KeepSession

usbFrame == <<deviceVars, tasks, inboxVars, starting, started, acted>>

(* The firmware mirrors a press over both interfaces, a release perhaps.   *)
UsbPress ==
  /\ started /\ button.attached /\ ~button.pressed
  /\ button.presses < MaxPresses
  /\ \E hid \in BOOLEAN :
       /\ button' = [button EXCEPT !.pressed = TRUE, !.presses = @ + 1, !.hid = @ \/ hid]
       /\ pending' = [pending EXCEPT
            !["Cdc"] = Append(@, TRUE),
            !["Hid"] = IF hid /\ ~button.hid THEN Append(@, TRUE) ELSE @]
  /\ UNCHANGED <<edge, sessionVars, gateway, usbFrame>>

UsbRelease ==
  /\ started /\ button.pressed
  /\ \E told \in BOOLEAN :
       /\ button' = [button EXCEPT !.pressed = FALSE, !.hid = @ /\ ~told]
       /\ pending' = IF told /\ button.attached
                     THEN [pending EXCEPT
                            !["Cdc"] = Append(@, FALSE),
                            !["Hid"] = IF button.hid THEN Append(@, FALSE) ELSE @]
                     ELSE pending
  /\ UNCHANGED <<edge, sessionVars, gateway, usbFrame>>

UsbEdge(interface) ==
  /\ MainFree
  /\ pending[interface] # << >>
  /\ pending' = [pending EXCEPT ![interface] = Tail(@)]
  /\ HandleNativeUSBButton(Head(pending[interface]))
  /\ UNCHANGED <<button, usbFrame>>

(* 350 ms after a release the next press counts again.                     *)
RearmElapses ==
  /\ edge.rearming
  /\ edge' = [edge EXCEPT !.rearming = FALSE]
  /\ UNCHANGED <<button, pending, sessionVars, gateway, usbFrame>>

(* The cable is pulled: unread CDC lines are gone, macOS lifts the keys of *)
(* the vanished keyboard, and closePort reports the disconnection.         *)
UsbDetach ==
  /\ MainFree
  /\ button.attached
  /\ button' = [button EXCEPT !.attached = FALSE, !.pressed = FALSE, !.hid = FALSE]
  /\ pending' = [pending EXCEPT
       !["Cdc"] = << >>,
       !["Hid"] = IF button.hid THEN Append(@, FALSE) ELSE @]
  /\ HandleNativeUSBButton(FALSE)
  /\ UNCHANGED usbFrame

UsbAttach ==
  /\ started /\ usbMode
  /\ ~button.attached
  /\ button' = [button EXCEPT !.attached = TRUE]
  /\ UNCHANGED <<pending, edge, sessionVars, gateway, usbFrame>>

-----------------------------------------------------------------------------
Next ==
  \/ \E kind \in MessageKinds, copies \in SUBSET Radios : DeviceSends(kind, copies)
  \/ \E radio \in Radios : Arrives(radio)
  \/ \E radio \in Radios : LinkMoves(radio)
  \/ GatewayDrains \/ SinkFails
  \/ RunTask \/ StartVoice
  \/ \E work \in {"Current", "Superseded"} : CleanupRuns(work)
  \/ PeerHeard \/ PeerSilent \/ LivenessTick
  \/ Stop
  \/ UsbPress \/ UsbRelease \/ RearmElapses \/ UsbDetach \/ UsbAttach
  \/ \E interface \in {"Cdc", "Hid"} : UsbEdge(interface)

(* The main actor keeps serving its tasks and timers, USB edges that are   *)
(* under way arrive, and the clock runs.                                   *)
Fairness ==
  /\ WF_vars(RunTask) /\ WF_vars(StartVoice)
  /\ WF_vars(UsbEdge("Cdc")) /\ WF_vars(UsbEdge("Hid"))
  /\ SF_vars(CleanupRuns("Current"))
  /\ SF_vars(LivenessTick) /\ WF_vars(PeerSilent)
Spec == Init /\ [][Next]_vars /\ Fairness
-----------------------------------------------------------------------------
(* The session as the abstract specification sees it.                      *)
SessionView == CASE ptt.state = "Active" -> "open"
                 [] ptt.state = "Finishing" -> "settling"
                 [] OTHER -> "none"
Borrowing == INSTANCE BorrowedVoice
  WITH session <- SessionView, mic <- ptt.mic, key <- ptt.held

(* The voice sessions of the Mac borrow and return the microphone and the  *)
(* key as BorrowedVoice says, and every session that closed is settled.    *)
BorrowsAndReturns == Borrowing!Spec

(* Service and controller agree on whether a session is active, and with   *)
(* which profile: a release or a submit is never judged by stale state.    *)
SessionsAgree ==
  started => /\ active = ptt.profile
             /\ (active # NoProfile) = (ptt.state = "Active")
             /\ (active # NoProfile) = (source # NoSource)

(* A borrowed device can be given back: the saved one is the user's own,   *)
(* however presses, failures and deferred cleanups were mixed.             *)
BorrowedIsReturnable ==
  /\ ptt.mic # OwnMic => ptt.saved = OwnMic
  /\ ptt.held => ptt.state = "Active"
  /\ input.saved # NoInput => ptt.state \in {"Active", "Finishing"}

(* A session that is finishing has its cleanup scheduled, and no newer     *)
(* generation has disowned it.                                             *)
FinishingIsScheduled == ptt.state = "Finishing" => "Current" \in deferred

(* While a session stays active nothing moves the microphone or the input  *)
(* source under it: no cleanup of an earlier session, no late edge.        *)
SessionUndisturbed ==
  [][ptt.state = "Active" /\ ptt'.state = "Active"
     => /\ ptt'.mic = ptt.mic
        /\ input'.current = input.current]_vars

(* The gateway plays for a Wi-Fi session only: whatever the network queue  *)
(* did meanwhile, no other source finds it open.                           *)
GatewayFollowsSession == gateway = "Active" => source = "Wifi"

(* A message mirrored over both radios is acted on once, also when a radio *)
(* reconnects and its replay guard starts anew.                            *)
MirroredOnce == \A i, j \in DOMAIN acted : acted[i] = acted[j] => i = j

(* A USB session lives exactly in a press the deduplicator has let pass.   *)
UsbSessionMatchesButton == source = "Usb" => edge.down /\ ~edge.suppressing

(* With the cable out and its last edges read, no session is left.         *)
UnpluggedReleases ==
  (usbMode /\ ~button.attached /\ pending["Hid"] = << >>) => source = NoSource /\ ~ptt.held

(* A session over a Wi-Fi connection that was lost is ended.               *)
LostWifiEndsSession == (source = "Wifi" /\ ~linkUp["Wifi"]) ~> source # "Wifi"

-----------------------------------------------------------------------------
(* CompanionService.swift:192-193: "A lost link must never leave a         *)
(* synthesized modifier held": when both radios of a wireless device are   *)
(* gone for good, the key is let go.                                       *)
LostLinkReleasesKey ==
  (~usbMode /\ ptt.held /\ [](\A r \in Radios : ~linkUp[r])) ~> ~ptt.held

(* protocol/specification.md:63-64: sequences that move backwards are      *)
(* rejected: the messages acted on only move forward.                      *)
ControlMovesForward ==
  [][Len(acted') > 1 /\ acted' # acted
     => acted'[Len(acted')] > acted'[Len(acted') - 1]]_vars

(* docs/hardware-validation.md:63: every failure restores the microphone   *)
(* and the input source.  (The profiles of this run restore.)              *)
FailureRestoresInput == ptt.state = "Idle" => input.current = OwnInput
=============================================================================
