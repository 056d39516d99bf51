------------------------------ MODULE BootLoop ------------------------------
(***************************************************************************)
(* The BOOT button from the contact to the switch of app_main:             *)
(* the finger and the bouncing contact, the GPIO interrupt that latches    *)
(* edges, and the part of the 10 ms main loop that samples the level,      *)
(* drains the edges, gates the result on the foreground app and acts.      *)
(*                                                                         *)
(* One iteration of the loop is the sequence of steps named by pc; the     *)
(* interrupt, the display task and the finger interleave with every step.  *)
(* What the switch does to the microphone and the radios is not part of    *)
(* this module: here an action is `delivered'.                             *)
(***************************************************************************)
EXTENDS DeviceModel, Sequences, FiniteSets

CONSTANTS
  EdgeQueueLength,  \* xQueueCreate(16, ...) in app_main
  BounceTime,       \* ticks a contact may bounce after the finger moved
  UsbUacMode        \* usb_uac_mode, read from NVS at boot

ASSUME QueueAssumption == EdgeQueueLength \in Nat \ {0}
(* The edge lockout covers the bounce of one movement of the contact, which *)
(* is what it is there for.                                                *)
ASSUME BounceAssumption == BounceTime \in Nat /\ BounceTime <= Lockout
ASSUME ModeAssumption == UsbUacMode \in BOOLEAN

VARIABLES
  finger,     \* the finger holds the button
  level,      \* the contact, as gpio_get_level reads it
  bounce,     \* ticks the contact may still bounce
  moved,      \* the contact moved in this tick
  edges,      \* button_edge_queue
  voice,      \* cc_device_ui_codex_voice_available()
  stall,      \* ticks since the last iteration of the loop
  pc,         \* the step the loop is at
  down,       \* button_down of this iteration
  previous,   \* previous_button_down
  armed,      \* boot_interaction_armed
  fromEdge,   \* submit_from_edge
  action,     \* button_action, after the gate
  delivered,  \* what the loop carried out in this step
  taps,       \* history: presses of the finger since the voice hold ended
  closures,   \* history: closures of the contact since then
  unspent,    \* history: a voice hold that no submit answered yet
  announced   \* history: PTT_DOWN of the present hold was carried out

loopVars == <<finger, level, bounce, moved, edges, voice, stall, pc, down, previous,
              armed, fromEdge, action, delivered>>
historyVars == <<taps, closures, unspent, announced>>
vars == <<deviceVars, loopVars, historyVars>>

Edge == [down : BOOLEAN, age : 0..MaxStall, tap : BOOLEAN]

BootTypeOK ==
  /\ DeviceTypeOK
  /\ finger \in BOOLEAN /\ level \in BOOLEAN /\ voice \in BOOLEAN
  /\ bounce \in 0..BounceTime
  /\ moved \in BOOLEAN
  /\ edges \in Seq(Edge)
  /\ Len(edges) <= EdgeQueueLength
  /\ stall \in 0..MaxStall
  /\ pc \in {"idle", "edges", "sample", "switch"}
  /\ down \in BOOLEAN /\ previous \in BOOLEAN /\ armed \in BOOLEAN
  /\ fromEdge \in BOOLEAN
  /\ action \in Actions /\ delivered \in Actions
  /\ taps \in 0..2 /\ closures \in 0..2
  /\ unspent \in BOOLEAN /\ announced \in BOOLEAN

Init ==
  /\ DeviceInit
  /\ finger = FALSE /\ level = FALSE /\ bounce = 0 /\ moved = FALSE
  /\ edges = << >>
  /\ voice \in BOOLEAN
  /\ stall = 0
  /\ pc = "idle"
  /\ down = FALSE /\ previous = FALSE /\ armed = FALSE /\ fromEdge = FALSE
  /\ action = "None" /\ delivered = "None"
  /\ taps = 0 /\ closures = 0 /\ unspent = FALSE
  /\ announced = FALSE

-----------------------------------------------------------------------------
(* The finger, the contact and button_edge_isr.                            *)
AtMost2(n) == IF n < 2 THEN n ELSE 2

(* xQueueSendFromISR: an edge that finds the queue full is lost.           *)
LatchEdge(now, byFinger) ==
  edges' = IF Len(edges) < EdgeQueueLength
           THEN Append(edges, [down |-> now, age |-> 0, tap |-> byFinger])
           ELSE edges

ContactMoves(now, byFinger) ==
  /\ level' = now
  /\ moved' = TRUE
  /\ LatchEdge(now, byFinger)
  /\ closures' = IF now THEN AtMost2(closures + 1) ELSE closures
  /\ taps' = IF now /\ byFinger THEN AtMost2(taps + 1) ELSE taps
  /\ UNCHANGED <<deviceVars, voice, stall, pc, down, previous, armed, fromEdge,
                 action, delivered, unspent, announced>>

(* The finger moves only when the contact has settled, and the contact     *)
(* moves at most once in a tick, unless it has to settle in it.            *)
FingerMoves ==
  /\ bounce = 0 /\ ~moved
  /\ finger' = ~finger
  /\ bounce' = BounceTime
  /\ ContactMoves(~finger, TRUE)

Settling == bounce = 1 /\ level # finger

ContactBounces ==
  /\ bounce > 0
  /\ ~moved \/ Settling
  /\ ContactMoves(~level, FALSE)
  /\ UNCHANGED <<finger, bounce>>

(* The display task: another app, or a prompt, comes to or leaves the front. *)
ForegroundChanges ==
  /\ voice' = ~voice
  /\ UNCHANGED <<deviceVars, finger, level, bounce, moved, edges, stall, pc, down, previous,
                 armed, fromEdge, action, delivered, historyVars>>

Aged(e) == [down |-> e.down, age |-> e.age + 1, tap |-> e.tap]

(* Time passes between two iterations: vTaskDelay, or a slow redraw.       *)
Tick ==
  /\ pc = "idle"
  /\ stall < MaxStall
  /\ ~Settling
  /\ moved' = FALSE
  /\ stall' = stall + 1
  /\ bounce' = IF bounce > 0 THEN bounce - 1 ELSE 0
  /\ edges' = [i \in DOMAIN edges |-> Aged(edges[i])]
  /\ DeviceTick
  /\ UNCHANGED <<finger, level, voice, pc, down, previous, armed, fromEdge, action,
                 delivered, historyVars>>

-----------------------------------------------------------------------------
(* The iteration of the loop.                                              *)

(* The link poll and the heartbeat timeout, as far as the model sees them. *)
LinkChanges ==
  /\ pc = "idle" /\ stall > 0
  /\ SetConnected(~connected)
  /\ UNCHANGED <<loopVars, historyVars>>

(* A press of the level arms the interaction if voice is in the foreground. *)
ReadButton ==
  /\ pc = "idle" /\ stall > 0
  /\ down' = level
  /\ armed' = IF level /\ ~previous THEN voice ELSE armed
  /\ fromEdge' = FALSE
  /\ delivered' = "None"
  /\ pc' = "edges"
  /\ UNCHANGED <<deviceVars, finger, level, bounce, moved, edges, voice, stall, previous,
                 action, historyVars>>

(* A stateUpdate from the control queue.                                   *)
StateUpdate(s) ==
  /\ pc = "edges"
  /\ remote # s
  /\ SetRemoteState(s)
  /\ UNCHANGED <<loopVars, historyVars>>

DrainEdge ==
  /\ pc = "edges"
  /\ edges # << >>
  /\ LET e == Head(edges) IN
       /\ ButtonEdge(e.down, e.age)
       /\ fromEdge' = (fromEdge \/ (EdgeSubmits(e.down, e.age) /\ voice))
       /\ unspent' = (unspent /\ ~EdgeSubmits(e.down, e.age))
  /\ edges' = Tail(edges)
  /\ UNCHANGED <<finger, level, bounce, moved, voice, stall, pc, down, previous,
                 armed, action, delivered, taps, closures, announced>>

EdgesDrained ==
  /\ pc = "edges"
  /\ edges = << >>
  /\ delivered' = IF fromEdge THEN "Submit" ELSE delivered
  /\ pc' = "sample"
  /\ UNCHANGED <<deviceVars, finger, level, bounce, moved, edges, voice, stall, down,
                 previous, armed, fromEdge, action, historyVars>>

(* An action of an interaction that is not armed is dropped.               *)
Gate(a) == IF armed THEN a ELSE "None"

QueuedPresses(onlyTaps) ==
  {i \in DOMAIN edges : edges[i].down /\ (onlyTaps => edges[i].tap)}

SampleButton ==
  /\ pc = "sample"
  /\ ButtonSample(down)
  /\ action' = Gate(SampleAction(down))
  /\ delivered' = "None"
  /\ unspent' = (unspent \/ SampleAction(down) = "PttDown")
  /\ announced' = (announced /\ SampleAction(down) # "PttUp")
  /\ IF SampleAction(down) = "PttUp"
     THEN /\ taps' = AtMost2(Cardinality(QueuedPresses(TRUE)))
          /\ closures' = AtMost2(Cardinality(QueuedPresses(FALSE)))
     ELSE UNCHANGED <<taps, closures>>
  /\ pc' = "switch"
  /\ UNCHANGED <<finger, level, bounce, moved, edges, voice, stall, down, previous, armed,
                 fromEdge>>

(* The end of a press, seen in the level, disarms the interaction.         *)
NeverDisarm == armed
Rearm == armed /\ ~(~down /\ previous)

(* The switch on button_action.  A PTT_DOWN that finds no link, or no      *)
(* audio route, shows VOICE_ERROR; in USB mode it needs neither.           *)
Switch ==
  /\ pc = "switch"
  /\ delivered' = action
  /\ action' = "None"
  /\ visible' \in IF UsbUacMode \/ action # "PttDown" THEN {visible}
                  ELSE IF connected THEN {visible, "VoiceError"}
                  ELSE {"VoiceError"}
  /\ announced' = (announced \/ (action = "PttDown" /\ visible' = "Listening"))
  /\ armed' = Rearm
  /\ previous' = down
  /\ stall' = 0
  /\ pc' = "idle"
  /\ UNCHANGED <<connected, remote, stable, candidate, candidateAge, pressAge, ptt,
                 submit, finger, level, bounce, moved, edges, voice, down, fromEdge,
                 taps, closures, unspent>>

LoopStep == ReadButton \/ DrainEdge \/ EdgesDrained \/ SampleButton \/ Switch

Next ==
  \/ FingerMoves \/ ContactBounces \/ ForegroundChanges \/ Tick
  \/ LinkChanges
  \/ \E s \in RemoteStates : StateUpdate(s)
  \/ ReadButton \/ DrainEdge \/ EdgesDrained \/ SampleButton \/ Switch

(* The main task is watched by the watchdog, so its loop keeps running, and *)
(* the clock keeps ticking once the contact has settled.                    *)
Fairness == WF_vars(LoopStep) /\ WF_vars(Tick) /\ WF_vars(Settling /\ ContactBounces)
Spec == Init /\ [][Next]_vars /\ Fairness

-----------------------------------------------------------------------------
(* While a hold records, no submit window is open: the edges of a bouncing *)
(* contact cannot press Return into the text being dictated.               *)
VoiceExcludesSubmit == ptt => submit = NoSubmit

(* Return is only requested after the contact closed twice since the voice *)
(* hold ended, whatever the interrupt, the queue and the stalls of the     *)
(* loop did to the edges.                                                  *)
SubmitNeedsTwoClosures == delivered = "Submit" => closures = 2

(* One voice hold allows one Return: the taps that confirmed a submit, or  *)
(* came after it, cannot send a second one.                                *)
SubmitSpendsHold == [][fromEdge' /\ ~fromEdge => unspent]_vars

(* Whenever the debouncer reports a release, the interaction is already    *)
(* disarmed: the raw level disarmed it at least one iteration before.      *)
DisarmedBeforeRelease ==
  pc = "sample" /\ SampleAction(down) \in {"PttUp", "CancelPtt"} => ~armed

(* The screen never claims to listen when no hold is in progress.          *)
ListeningOnlyWhileHeld == visible = "Listening" => ptt

(* The submit window always closes: by a submit, by its timeout, by a lost *)
(* link, or by a new hold.                                                 *)
WindowCloses == submit.pending ~> ~submit.pending

(* A finger that stays on the button starts the voice hold, however the    *)
(* contact bounced.                                                        *)
HoldBecomesVoice == (<>[]finger) => <>[]ptt

-----------------------------------------------------------------------------
(* README.md:99: holding BOOT starts the voice input and letting go ends   *)
(* it.  A hold the loop announced with PTT_DOWN ends with PTT_UP.          *)
ReleaseIsAnnounced == [][ptt /\ ~ptt' /\ announced => action' = "PttUp"]_vars

(* test_device_model.c:41: "A lone short tap can never submit."            *)
LoneTapNeverSubmits == delivered = "Submit" => taps = 2

(* test_device_model.c:41-42: the confirmation is visible for the rest of  *)
(* the window, "then expires": the screen never outlives the window.       *)
SubmitScreenHasWindow ==
  visible \in {"SubmitPending", "SubmitConfirm"} => submit.pending
=============================================================================
