---------------------------- MODULE DeviceModel ----------------------------
(***************************************************************************)
(* The interaction model of the device: firmware/components/device_model.  *)
(* One variable per group of fields of cc_device_model_t, one action per   *)
(* function that changes it.  The module has no Next of its own: the main  *)
(* loop (BootLoop) calls these actions.                                    *)
(*                                                                         *)
(* Time is discrete.  A timestamp of the code is kept as an age (now - t), *)
(* or, for a deadline, as what is left of it (deadline - now): the code    *)
(* only ever compares such differences with a constant.  An age stops at   *)
(* the largest value a comparison can tell apart.                          *)
(***************************************************************************)
EXTENDS Integers

CONSTANTS
  Debounce,     \* CC_BUTTON_DEBOUNCE_MS, in ticks
  Lockout,      \* CC_SUBMIT_EDGE_LOCKOUT_MS
  Hold,         \* CC_PTT_HOLD_MS
  Window,       \* CC_SUBMIT_WINDOW_MS
  MaxStall,     \* bound: ticks the main loop may need for one iteration
  RemoteStates  \* the states a stateUpdate may carry

ASSUME TimesAssumption ==
  /\ Debounce \in Nat /\ Lockout \in Nat /\ Hold \in Nat /\ Window \in Nat
  /\ MaxStall \in Nat
  /\ 0 < Lockout /\ Lockout <= Debounce /\ Debounce < Hold /\ Hold < Window
  /\ 0 < MaxStall

LocalStates == {"Listening", "SubmitPending", "SubmitConfirm"}
ASSUME StatesAssumption ==
  /\ RemoteStates # {}
  /\ RemoteStates \cap (LocalStates \cup {"Disconnected", "VoiceError"}) = {}

VARIABLES
  connected,     \* model.connected
  remote,        \* model.remote_state
  visible,       \* model.visible_state
  stable,        \* model.stable_button_down
  candidate,     \* model.candidate_button_down
  candidateAge,  \* now - candidate_since_ms
  pressAge,      \* now - button_press_since_ms
  ptt,           \* model.ptt_active
  submit         \* the five submit_* fields

deviceVars == <<connected, remote, visible, stable, candidate, candidateAge,
                pressAge, ptt, submit>>

Actions == {"None", "PreparePtt", "CancelPtt", "PttDown", "PttUp", "Submit"}

(* last_submit_press_ms = 0 means that no press edge was taken yet.        *)
NoPress == -1
PressAges == {NoPress} \cup 0..(Lockout + MaxStall)

(* clear_submit_state *)
NoSubmit == [pending |-> FALSE, confirm |-> FALSE, lastPress |-> NoPress,
             left |-> 0, confirmLeft |-> 0]

(* The window a release opens.                                             *)
OpenWindow == [pending |-> TRUE, confirm |-> FALSE, lastPress |-> NoPress,
               left |-> Window, confirmLeft |-> 0]

Submits == [pending : BOOLEAN, confirm : BOOLEAN, lastPress : PressAges,
            left : -MaxStall..Window, confirmLeft : -MaxStall..Window]

VisibleStates == RemoteStates \cup LocalStates \cup {"Disconnected", "VoiceError"}

DeviceTypeOK ==
  /\ connected \in BOOLEAN
  /\ remote \in RemoteStates
  /\ visible \in VisibleStates
  /\ stable \in BOOLEAN
  /\ candidate \in BOOLEAN
  /\ candidateAge \in 0..Debounce
  /\ pressAge \in 0..Hold
  /\ ptt \in BOOLEAN
  /\ submit \in Submits

(* cc_device_model_init.  The code starts with CC_STATE_IDLE, one of the   *)
(* remote states; since_ms = 0 at boot, so both ages start saturated.      *)
DeviceInit ==
  /\ connected = FALSE
  /\ remote \in RemoteStates
  /\ visible = "Disconnected"
  /\ stable = FALSE
  /\ candidate = FALSE
  /\ candidateAge = Debounce
  /\ pressAge = Hold
  /\ ptt = FALSE
  /\ submit = NoSubmit

-----------------------------------------------------------------------------
(* What the screen falls back to when no local interaction owns it.        *)
Base == IF connected THEN remote ELSE "Disconnected"

(* cc_device_set_connected *)
SetConnected(c) ==
  /\ connected' = c
  /\ submit' = IF ~c /\ visible # "Listening" THEN NoSubmit ELSE submit
  /\ visible' = IF visible \in LocalStates THEN visible
                ELSE IF c THEN remote ELSE "Disconnected"
  /\ UNCHANGED <<remote, stable, candidate, candidateAge, pressAge, ptt>>

(* cc_device_set_remote_state *)
SetRemoteState(s) ==
  /\ remote' = s
  /\ visible' = IF remote # s /\ connected /\ visible \notin LocalStates
                THEN s ELSE visible
  /\ UNCHANGED <<connected, stable, candidate, candidateAge, pressAge, ptt, submit>>

-----------------------------------------------------------------------------
(* cc_device_button_edge for an edge latched by the ISR `age' ticks ago.   *)
EdgeTaken(down, age) ==
  /\ down
  /\ submit.pending
  /\ submit.left + age > 0
  /\ submit.lastPress # NoPress => submit.lastPress - age >= Lockout

(* An edge that returns CC_BUTTON_SUBMIT: the second press taken.          *)
EdgeSubmitsOnFirst(down, age) == EdgeTaken(down, age)
EdgeSubmits(down, age) == EdgeTaken(down, age) /\ submit.confirm

EdgeIgnored(down, age) ==
  /\ ~EdgeTaken(down, age)
  /\ UNCHANGED <<submit, visible>>

EdgeArms(down, age) ==
  /\ EdgeTaken(down, age) /\ ~EdgeSubmits(down, age)
  /\ submit' = [submit EXCEPT !.confirm = TRUE, !.lastPress = age,
                              !.confirmLeft = submit.left]
  /\ visible' = "SubmitConfirm"

EdgeConfirms(down, age) ==
  /\ EdgeSubmits(down, age)
  /\ submit' = NoSubmit
  /\ visible' = Base

ButtonEdge(down, age) ==
  /\ EdgeIgnored(down, age) \/ EdgeArms(down, age) \/ EdgeConfirms(down, age)
  /\ UNCHANGED <<connected, remote, stable, candidate, candidateAge, pressAge, ptt>>

-----------------------------------------------------------------------------
(* cc_device_button_sample: first the expiry of the submit window ...      *)
WindowExpired == submit.pending /\ submit.left <= 0
ConfirmExpired == ~WindowExpired /\ submit.confirm /\ submit.confirmLeft <= 0

SubmitNow ==
  IF WindowExpired THEN NoSubmit
  ELSE IF ConfirmExpired THEN [submit EXCEPT !.confirm = FALSE, !.confirmLeft = 0]
  ELSE submit

VisibleNow ==
  IF WindowExpired THEN IF ptt THEN visible ELSE Base
  ELSE IF ConfirmExpired THEN "SubmitPending"
  ELSE visible

(* ... then the debouncer and the hold timer, of which one branch runs.    *)
ChangesFromStable(down) == down # stable
Changes(down)   == down # candidate
Debounced(down) == ~Changes(down) /\ down # stable /\ candidateAge >= Debounce
Held(down)      == /\ ~Changes(down) /\ ~Debounced(down)
                   /\ down /\ stable /\ ~ptt /\ pressAge >= Hold

(* The value the call returns.                                             *)
SampleAction(down) ==
  IF Debounced(down) /\ down  THEN IF SubmitNow.pending THEN "None" ELSE "PreparePtt"
  ELSE IF Debounced(down)     THEN IF ptt THEN "PttUp"
                                   ELSE IF SubmitNow.pending THEN "None"
                                   ELSE "CancelPtt"
  ELSE IF Held(down)          THEN "PttDown"
  ELSE "None"

Expire == submit' = SubmitNow /\ visible' = VisibleNow

SampleChanges(down) ==
  /\ Changes(down)
  /\ candidate' = down
  /\ candidateAge' = 0
  /\ Expire
  /\ UNCHANGED <<stable, pressAge, ptt>>

SamplePresses(down) ==
  /\ Debounced(down) /\ down
  /\ stable' = TRUE
  /\ pressAge' = 0
  /\ Expire
  /\ UNCHANGED <<candidate, candidateAge, ptt>>

SampleEndsVoice(down) ==
  /\ Debounced(down) /\ ~down /\ ptt
  /\ stable' = FALSE
  /\ ptt' = FALSE
  /\ submit' = OpenWindow
  /\ visible' = "SubmitPending"
  /\ UNCHANGED <<candidate, candidateAge, pressAge>>

SampleReleases(down) ==
  /\ Debounced(down) /\ ~down /\ ~ptt
  /\ stable' = FALSE
  /\ Expire
  /\ UNCHANGED <<candidate, candidateAge, pressAge, ptt>>

HoldKeepsSubmit(down) ==
  /\ Held(down)
  /\ ptt' = TRUE
  /\ visible' = "Listening"
  /\ UNCHANGED <<stable, candidate, candidateAge, pressAge, submit>>
SampleStartsVoice(down) ==
  /\ Held(down)
  /\ ptt' = TRUE
  /\ submit' = NoSubmit
  /\ visible' = "Listening"
  /\ UNCHANGED <<stable, candidate, candidateAge, pressAge>>

SampleRests(down) ==
  /\ ~Changes(down) /\ ~Debounced(down) /\ ~Held(down)
  /\ Expire
  /\ UNCHANGED <<stable, candidate, candidateAge, pressAge, ptt>>

ButtonSample(down) ==
  /\ \/ SampleChanges(down) \/ SamplePresses(down) \/ SampleEndsVoice(down)
     \/ SampleReleases(down) \/ SampleStartsVoice(down) \/ SampleRests(down)
  /\ UNCHANGED <<connected, remote>>

-----------------------------------------------------------------------------
(* One tick of the clock, seen from the ages and the deadlines above.  The *)
(* deadlines only run while the submit window is open.                     *)
Older(age, limit) == IF age < limit THEN age + 1 ELSE limit
Less(left) == IF left > -MaxStall THEN left - 1 ELSE left

DeviceTick ==
  /\ candidateAge' = Older(candidateAge, Debounce)
  /\ pressAge' = Older(pressAge, Hold)
  /\ submit' =
       IF ~submit.pending THEN submit
       ELSE [submit EXCEPT
              !.left = Less(@),
              !.confirmLeft = IF submit.confirm THEN Less(@) ELSE @,
              !.lastPress = IF @ = NoPress THEN NoPress
                            ELSE Older(@, Lockout + MaxStall)]
  /\ UNCHANGED <<connected, remote, visible, stable, candidate, ptt>>
=============================================================================
