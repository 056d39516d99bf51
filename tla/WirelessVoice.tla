--------------------------- MODULE WirelessVoice ---------------------------
(***************************************************************************)
(* The microphone of the device in wireless mode: the router that selects  *)
(* Wi-Fi or BLE for a voice session, the capture task, the task that plays *)
(* tones on the same codec, and what one iteration of the main loop does   *)
(* to them when a link, the heartbeat or the button changes.               *)
(*                                                                         *)
(* The main loop is the sequence of steps named by pc.  The capture task   *)
(* reads the flags of the stream without a lock, so it is split where the  *)
(* loop may act between its reads and its writes.  Only the codec itself   *)
(* is under a mutex.  Time passes in ticks, and no tick passes while a     *)
(* task that is due has not run.                                           *)
(*                                                                         *)
(* The button is any sequence of actions that cc_device_button_sample can  *)
(* return, and boot_interaction_armed may drop each of them.               *)
(***************************************************************************)
EXTENDS Naturals

CONSTANTS
  Tail,          \* CC_PTT_POST_ROLL_MS
  RealtimeTail,  \* CC_PTT_POST_ROLL_MS + 50
  Hold,          \* CC_PTT_HOLD_MS
  Grace,         \* CC_WIRELESS_ROUTE_LOSS_GRACE_MS
  NoteTime       \* ticks that the codec may stay away from the capture task

(* 200 ms, 250 ms, 600 ms and 2 s.  A note is written for up to 240 ms and *)
(* the codec is opened and closed around it; with the 20 ms that the       *)
(* capture task needs for its own frame they must fit into the 400 ms by   *)
(* which a hold outlasts a tail.                                           *)
ASSUME TimesAssumption ==
  /\ {Tail, RealtimeTail, Hold, Grace, NoteTime} \subseteq Nat \ {0}
  /\ Tail < RealtimeTail /\ RealtimeTail < Hold /\ Hold < Grace
  /\ Tail + NoteTime <= Hold

VARIABLES
  wifi,      \* the Wi-Fi transport: down, connected, or with an audio socket
  ble,       \* cc_ble_is_connected()
  pc,        \* the step of the main loop
  linked,    \* link_connected of the last iteration
  connected, \* model.connected
  quiet,     \* no message for more than HEARTBEAT_TIMEOUT_MS, while linked
  press,     \* the button: up, pressed, or held for CC_PTT_HOLD_MS
  age,       \* ticks since the press, while it is not yet held
  armed,     \* boot_interaction_armed
  window,    \* model.submit_pending
  router,    \* g_route, g_ptt_held and the time of g_loss_pending
  stream,    \* active and what is left until stop_at_us
  power,     \* g_realtime, wifi_realtime_release_ms, and as a history
             \* whether esp_wifi_set_ps failed when it was last due
  cap,       \* the step of capture_task
  tone,      \* the step of tone_task
  noteAge,   \* ticks the present note has lasted
  owner,     \* history: what the microphone is open for
  fresh,     \* history: the route was selected for this session
  dark,      \* history: ticks the session's route has been unavailable
  behind     \* history: notes begun since the capture was started

radioVars == <<wifi, ble>>
linkVars == <<linked, connected, quiet>>
buttonVars == <<press, age, armed, window>>
voiceVars == <<router, stream, power, owner, fresh, dark>>
toneVars == <<tone, noteAge>>
vars == <<radioVars, pc, linkVars, buttonVars, voiceVars, cap, toneVars, behind>>

Routes == {"None", "Wifi", "Ble"}
Never == Grace + 1       \* a deadline that is not set
LeftOf(n) == IF n \in 1..Grace THEN n - 1 ELSE n
Older(n, most) == IF n < most THEN n + 1 ELSE n

WirelessTypeOK ==
  /\ wifi \in {"Down", "Control", "Audio"} /\ ble \in BOOLEAN
  /\ pc \in {"idle", "links", "route", "button"}
  /\ linked \in BOOLEAN /\ connected \in BOOLEAN /\ quiet \in BOOLEAN
  /\ press \in {"Up", "Pressed", "Held"} /\ age \in 0..Hold
  /\ armed \in BOOLEAN /\ window \in BOOLEAN
  /\ router \in [route : Routes, held : BOOLEAN, loss : 0..Grace + 1]
  /\ stream \in [on : BOOLEAN, stop : 0..Hold \cup {Never}]
  /\ power \in [on : BOOLEAN, release : 0..RealtimeTail \cup {Never}, failed : BOOLEAN]
  /\ cap \in {"idle", "expired", "waiting", "sending"}
  /\ tone \in {"idle", "note"}
  /\ noteAge \in 0..NoteTime
  /\ fresh \in BOOLEAN
  /\ owner \in {"None", "PreRoll", "Session", "Tail"}
  /\ dark \in 0..Grace + 2 /\ behind \in 0..2

NoRoute == [route |-> "None", held |-> FALSE, loss |-> 0]
Silent == [on |-> FALSE, stop |-> Never]
Asleep == [on |-> FALSE, release |-> Never, failed |-> FALSE]

Init ==
  /\ wifi = "Down" /\ ble = FALSE
  /\ pc = "links" /\ linked = FALSE /\ connected = FALSE /\ quiet = FALSE
  /\ press = "Up" /\ age = 0 /\ armed = FALSE /\ window = FALSE
  /\ router = NoRoute /\ stream = Silent /\ power = Asleep
  /\ cap = "idle"
  /\ tone = "idle" /\ noteAge = 0
  /\ owner = "None" /\ fresh = FALSE /\ dark = 0 /\ behind = 0

-----------------------------------------------------------------------------
Available(route) == (route = "Wifi" /\ wifi = "Audio") \/ (route = "Ble" /\ ble)

(* The radios change under the loop.                                       *)
RadioChanges ==
  /\ \/ wifi' \in {"Down", "Control", "Audio"} \ {wifi} /\ UNCHANGED ble
     \/ ble' = ~ble /\ UNCHANGED wifi
  /\ UNCHANGED <<pc, linkVars, buttonVars, router, stream, power, owner, fresh, cap,
                 toneVars, behind>>
  /\ dark' = IF Available(router.route)' THEN 0 ELSE dark

(* wireless_audio_router.c.                                                *)
Chosen == IF wifi = "Audio" THEN "Wifi" ELSE IF ble THEN "Ble" ELSE "None"

Begun == [route |-> Chosen, held |-> Chosen # "None", loss |-> 0]

Finished == [router EXCEPT !.held = FALSE, !.loss = 0]

(* loss counts the ticks of g_loss_pending from 1; 0 is not pending.       *)
LossRestarts ==
  IF ~router.held THEN router ELSE [router EXCEPT !.loss = 1]
LossSeen ==
  IF ~router.held \/ Available(router.route) THEN [router EXCEPT !.loss = 0]
  ELSE [router EXCEPT !.loss = IF @ = 0 THEN 1 ELSE @]

RouteLost ==
  router.held /\ ~Available(router.route) /\ router.loss = Grace + 1

(* cc_wifi_set_realtime, whose callers all forget the deadline.  When the   *)
(* driver refuses, the modem stays as it was and nobody tries again.       *)
SetRealtime(enabled) ==
  {[on |-> on, release |-> Never, failed |-> on # enabled] : on \in {enabled, power.on}}

(* cancel_wireless_audio_route with cc_audio_stream_cancel, which it always *)
(* follows.                                                                *)
CancelKeepsRoute ==
  /\ stream' = Silent /\ power' \in SetRealtime(FALSE)
  /\ owner' = "None" /\ dark' = 0 /\ fresh' = FALSE
  /\ UNCHANGED router
CancelVoice ==
  /\ stream' = Silent /\ router' = NoRoute /\ power' \in SetRealtime(FALSE)
  /\ owner' = "None" /\ dark' = 0 /\ fresh' = FALSE

(* begin_wireless_audio_route.                                             *)
BeginRoute ==
  /\ router' = Begun
  /\ power' \in IF Chosen = "Wifi" THEN SetRealtime(TRUE) ELSE {power}

(* cc_audio_stream_start, _stop; finish_wireless_audio_route.              *)
StreamStart == stream' = [on |-> TRUE, stop |-> Never] /\ behind' = 0

StopLate == stream' = IF stream.on THEN [stream EXCEPT !.stop = Hold] ELSE stream
StreamStop == stream' = IF stream.on THEN [stream EXCEPT !.stop = Tail] ELSE stream

FinishEarly ==
  /\ router' = Finished
  /\ power' = [power EXCEPT !.release = IF router.route = "Wifi" THEN 0 ELSE Never]
FinishRoute ==
  /\ router' = Finished
  /\ power' = [power EXCEPT !.release =
                 IF router.route = "Wifi" THEN RealtimeTail ELSE Never]

-----------------------------------------------------------------------------
(* The main loop, up to the check of the route.  With no link left it      *)
(* gives up the session at once; with a link that is silent it does so in  *)
(* every iteration.                                                        *)
Linked == ble \/ wifi # "Down"

PowerForgets ==
  power' = IF power.release = 0 THEN [power EXCEPT !.release = Never] ELSE power
PowerDue == power' \in IF power.release = 0 THEN SetRealtime(FALSE) ELSE {power}

LinksDown == linked /\ ~Linked
LinksSilent == Linked /\ linked /\ quiet

LoopLinks ==
  /\ pc \in {"idle", "links"}
  /\ pc' = "route"
  /\ linked' = Linked
  /\ connected' = IF Linked # linked THEN Linked ELSE connected /\ ~LinksSilent
  /\ quiet' = (quiet /\ Linked /\ linked)
  /\ \/ (LinksDown \/ LinksSilent) /\ CancelVoice
     \/ /\ ~(LinksDown \/ LinksSilent)
        /\ PowerDue
        /\ UNCHANGED <<router, stream, owner, fresh, dark>>
  /\ UNCHANGED <<radioVars, buttonVars, cap, toneVars, behind>>

(* The loss is looked for only while the capture is active.  Then the       *)
(* control messages are drained: each is a sign of life, whether or not     *)
(* its link still is there.                                                *)
LoopRoute ==
  /\ pc = "route"
  /\ pc' = "button"
  /\ \/ stream.on /\ RouteLost /\ CancelVoice
     \/ /\ stream.on /\ ~RouteLost
        /\ router' = LossSeen
        /\ UNCHANGED <<stream, power, owner, fresh, dark>>
     \/ ~stream.on /\ UNCHANGED voiceVars
  /\ UNCHANGED <<connected, quiet>> \/ (connected' = TRUE /\ quiet' = FALSE)
  /\ UNCHANGED <<radioVars, linked, buttonVars, cap, toneVars, behind>>

Resting == UNCHANGED <<voiceVars, behind>>

(* CC_BUTTON_PREPARE_PTT.                                                  *)
Prepare ==
  IF connected /\ router.route = "None"
  THEN /\ BeginRoute
       /\ fresh' = TRUE /\ dark' = 0
       /\ IF Chosen = "None" THEN UNCHANGED <<stream, owner, behind>>
          ELSE StreamStart /\ owner' = "PreRoll"
  ELSE Resting

(* CC_BUTTON_PTT_DOWN; a route that is still selected is kept.  Without a   *)
(* link or a route it only shows CC_STATE_VOICE_ERROR.                     *)
PttDown ==
  \/ ~connected /\ Resting
  \/ /\ connected /\ router.route = "None"
     /\ BeginRoute
     /\ fresh' = TRUE /\ dark' = 0
     /\ IF Chosen = "None" THEN UNCHANGED <<stream, owner, behind>>
        ELSE StreamStart /\ owner' = "Session"
  \/ /\ connected /\ router.route # "None"
     /\ owner' = "Session"
     /\ fresh' = (fresh /\ owner = "PreRoll")
     /\ IF stream.on THEN UNCHANGED <<stream, behind>> ELSE StreamStart
     /\ UNCHANGED <<router, power, dark>>

(* CC_BUTTON_PTT_UP.                                                       *)
PttUp ==
  /\ StreamStop /\ FinishRoute
  /\ owner' = IF owner = "None" \/ ~stream.on THEN "None" ELSE "Tail"
  /\ UNCHANGED <<fresh, dark, behind>>

(* The button of an iteration: a press, a hold, a release, a confirmation  *)
(* or nothing; `gate' is what boot_interaction_armed lets through.         *)
Press ==
  /\ press = "Up"
  /\ press' = "Pressed" /\ age' = 0 /\ armed' \in BOOLEAN
  /\ IF armed' /\ ~window THEN Prepare ELSE Resting
  /\ UNCHANGED window

Holds ==
  /\ press = "Pressed" /\ age = Hold
  /\ press' = "Held" /\ window' = FALSE
  /\ IF armed THEN PttDown ELSE Resting
  /\ UNCHANGED <<age, armed>>

Release ==
  /\ press # "Up"
  /\ press' = "Up" /\ armed' = FALSE
  /\ window' = (window \/ press = "Held")
  /\ \E gate \in {FALSE, armed} :
       \/ gate /\ press = "Held" /\ PttUp
       \/ /\ gate /\ press = "Pressed" /\ ~window
          /\ CancelVoice
          /\ UNCHANGED behind
       \/ ~gate /\ Resting
       \/ press = "Pressed" /\ window /\ Resting
  /\ age' = 0

Submit ==
  /\ window /\ press # "Held"
  /\ window' = FALSE
  /\ CancelVoice
  /\ UNCHANGED <<press, age, armed, behind>>

NoAction ==
  /\ ~(press = "Pressed" /\ age = Hold)
  /\ window' \in {FALSE, window}
  /\ UNCHANGED <<press, age, armed>>
  /\ Resting

LoopButton ==
  /\ pc = "button"
  /\ pc' = "idle"
  /\ Press \/ Holds \/ Release \/ Submit \/ NoAction
  /\ UNCHANGED <<radioVars, linkVars, cap, toneVars>>

-----------------------------------------------------------------------------
(* capture_task: the end of the tail is seen in one step and carried out in *)
(* another; the frame is read under the mutex and sent after it.           *)
ToneHolds == tone = "note"
CaptureRest == <<radioVars, pc, linkVars, buttonVars, router, power, fresh, dark,
                 toneVars, behind>>

CaptureExpires ==
  /\ cap = "idle" /\ stream.on /\ stream.stop = 0
  /\ cap' = "expired"
  /\ UNCHANGED <<stream, owner, CaptureRest>>

CaptureEnds ==
  /\ cap = "expired"
  /\ cap' = "idle"
  /\ stream' = Silent
  /\ owner' = IF owner = "Tail" THEN "None" ELSE owner
  /\ UNCHANGED CaptureRest

CaptureWaits ==
  /\ cap = "idle" /\ stream.on /\ stream.stop # 0
  /\ cap' = "waiting"
  /\ UNCHANGED <<stream, owner, CaptureRest>>

CaptureReads ==
  /\ cap = "waiting" /\ ~ToneHolds
  /\ cap' \in IF stream.on THEN {"sending", "idle"} ELSE {"idle"}
  /\ UNCHANGED <<stream, owner, CaptureRest>>

CaptureSends ==
  /\ cap = "sending"
  /\ cap' = "idle"
  /\ UNCHANGED <<stream, owner, CaptureRest>>

CaptureStep ==
  CaptureExpires \/ CaptureEnds \/ CaptureWaits \/ CaptureReads \/ CaptureSends

-----------------------------------------------------------------------------
(* tone_task, which looks at both flags under the mutex before every note.  *)
(* Its queue is left out: an event may be there at any time, and the        *)
(* display task may disable the tones at any time.                         *)
ToneRest == <<radioVars, pc, linkVars, buttonVars, voiceVars, cap>>

ToneLocks ==
  /\ tone = "idle" /\ ~stream.on
  /\ tone' = "note" /\ noteAge' = 0
  /\ UNCHANGED <<behind, ToneRest>>

(* A note is written after the check, without looking again; a capture     *)
(* that starts meanwhile waits for it.                                     *)
MayPlay == ~stream.on

ToneNoteEnds ==
  /\ tone = "note"
  /\ tone' \in IF MayPlay THEN {"note", "idle"} ELSE {"idle"}
  /\ noteAge' = 0
  /\ behind' = IF stream.on THEN Older(behind, 2) ELSE behind
  /\ UNCHANGED ToneRest

-----------------------------------------------------------------------------
CaptureSettled ==
  \/ cap = "idle" /\ ~(stream.on /\ stream.stop = 0)
  \/ cap = "waiting" /\ ToneHolds

Tick ==
  /\ pc = "idle" /\ CaptureSettled
  /\ ToneHolds => noteAge < NoteTime
  /\ pc' = "links"
  /\ quiet' \in {quiet, linked}
  /\ age' = IF press = "Pressed" THEN Older(age, Hold) ELSE age
  /\ router' = [router EXCEPT !.loss = IF @ = 0 THEN 0 ELSE Older(@, Grace + 1)]
  /\ stream' = [stream EXCEPT !.stop = LeftOf(@)]
  /\ power' = [power EXCEPT !.release = LeftOf(@)]
  /\ noteAge' = IF tone = "note" THEN noteAge + 1 ELSE noteAge
  /\ dark' = IF owner = "Session" /\ ~Available(router.route)
             THEN Older(dark, Grace + 2) ELSE 0
  /\ UNCHANGED <<radioVars, linked, connected, press, armed, window, cap, tone, owner,
                 fresh, behind>>

LoopStep == LoopLinks \/ LoopRoute \/ LoopButton

Next ==
  \/ RadioChanges \/ LoopStep \/ CaptureStep \/ ToneLocks \/ ToneNoteEnds \/ Tick

(* The tasks are scheduled and time passes; the radios, the finger and the *)
(* foreground are free.                                                    *)
Fairness ==
  /\ WF_vars(LoopStep) /\ WF_vars(CaptureStep) /\ WF_vars(ToneNoteEnds) /\ SF_vars(Tick)

Spec == Init /\ [][Next]_vars /\ Fairness

-----------------------------------------------------------------------------
(* A frame that a radio would take belongs to a pre-roll, a session or its *)
(* tail: nothing the microphone heard leaves the device on its own         *)
(* (audio_stream.c:42-83, wireless_audio_router.c:42).                     *)
MicrophoneIsOwned ==
  cap = "sending" /\ Available(router.route) => owner # "None"

(* The tail of the session before never ends the capture of this one: the  *)
(* flags are shared without a lock, and only the time of a hold keeps the  *)
(* two apart (audio_stream.c:42-45, 120-127, app_main.c:722).              *)
SessionKeepsMicrophone ==
  owner = "Session" => stream.on /\ stream.stop = Never /\ cap # "expired"

(* A session whose route was selected for it is given up when the route    *)
(* has been away for the grace period (wireless_audio_router.c:60-73).     *)
LostRouteEnds == owner = "Session" /\ fresh => dark <= Grace + 1

(* A capture that goes out over Wi-Fi keeps the modem awake until its tail *)
(* is over, unless the driver refused to wake it.  What the capture task   *)
(* read or waited for when the tail ran out is not covered: a note may     *)
(* hold that frame back until after the modem's deadline                   *)
(* (app_main.c:67-91, 572-576, wifi_manager.c:267-279).                    *)
AwakeForWifi ==
  stream.on /\ stream.stop # 0 /\ fresh /\ router.route = "Wifi" =>
    power.on \/ power.failed

(* Once the microphone is open for nothing the modem goes back to sleep,   *)
(* however the session ended, unless the driver refused when it was told   *)
(* to: the deadline is forgotten all the same, and nothing tries again     *)
(* before the next session (app_main.c:77-91, 572-576).                    *)
ModemSleeps == owner = "None" ~> ~power.on \/ power.failed \/ owner # "None"

(* A session waits for one note at most before it hears its first frame    *)
(* (audio_stream.c:259-265).                                               *)
ToneYields == behind <= 1

(* The capture always has a route to send to, even when a message drained  *)
(* after its link was lost marks the model connected (app_main.c:261, 678, *)
(* 705).                                                                   *)
CaptureHasRoute == stream.on => router.route # "None"

(* Every session is sent over a route that was selected for it: the header *)
(* promises one selection per session (wireless_audio_router.h:14).        *)
RoutePerSession == owner = "Session" => fresh
=============================================================================
