--------------------------- MODULE PTTController ---------------------------
(***************************************************************************)
(* The controller of one voice session on the Mac, as functions of its     *)
(* record: PTTController.swift over CodexMicRouteManager.swift, the event  *)
(* emitter of MacKeyboard.swift, and the input-source memory that          *)
(* CompanionService keeps beside them.                                     *)
(*                                                                         *)
(*   state, profile   the controller's state and its active profile        *)
(*   held             the system sees the start shortcut held down         *)
(*   mic, saved       the default input device, and previousDevice         *)
(*                                                                         *)
(* CoreAudio and the event tap are external: a call into them succeeds or  *)
(* throws.  A throwing key event is assumed to leave the keyboard as it    *)
(* was, and the release that cleans up after one is assumed to go out.     *)
(***************************************************************************)
EXTENDS Naturals

CONSTANTS
  NoProfile,  \* no active profile
  NoDevice,   \* previousDevice is nil
  OwnMic,     \* the input device the user has chosen
  CodexMic,   \* the virtual input device, route .codexMic
  UsbMic,     \* the native UAC device, route .usbHardware
  Profiles,   \* the profiles the resolver can return
  Inputs,     \* keyboard input sources
  NoInput     \* savedInputSourceID is nil

ASSUME DevicesAssumption ==
  /\ NoDevice \notin {OwnMic, CodexMic, UsbMic}
  /\ OwnMic \notin {CodexMic, UsbMic}
ASSUME ProfilesAssumption ==
  /\ NoProfile \notin Profiles /\ NoInput \notin Inputs
  /\ Profiles \subseteq [mode    : {"hold", "togglePair", "separate"},
                         stop    : BOOLEAN,
                         target  : Inputs \cup {NoInput},
                         restore : BOOLEAN]

Routes == {CodexMic, UsbMic}
Mics == Routes \cup {OwnMic}
PTTStates == {"Idle", "Active", "Finishing", "Failed"}
PTT == [state : PTTStates, profile : Profiles \cup {NoProfile}, held : BOOLEAN,
        mic : Mics, saved : Mics \cup {NoDevice}]
InputMemory == [current : Inputs, saved : Inputs \cup {NoInput}, restore : BOOLEAN]

PTTInit == [state |-> "Idle", profile |-> NoProfile, held |-> FALSE,
            mic |-> OwnMic, saved |-> NoDevice]

(* restorePreviousRoute: put the saved device back, if one is saved.       *)
RestoredMic(p) == IF p.saved = NoDevice THEN p.mic ELSE p.saved

Ended(p, state, held) ==
  [state |-> state, profile |-> NoProfile, held |-> held,
   mic |-> RestoredMic(p), saved |-> NoDevice]

(* buttonDown.  What can throw is the start shortcut or the route: then    *)
(* everything taken is given back.  Outside idle it throws before it has   *)
(* done anything.                                                          *)
DownThrows(p, emitted) == p.state # "Idle" \/ ~emitted
DownWhenever(p, profile, route, emitted) ==
  IF emitted
  THEN [state |-> "Active", profile |-> profile, held |-> profile.mode = "hold",
        mic |-> route, saved |-> p.mic]
  ELSE Ended(p, "Failed", FALSE)
ButtonDown(p, profile, route, emitted) ==
  IF p.state # "Idle" THEN p
  ELSE IF emitted
       THEN [state |-> "Active", profile |-> profile, held |-> profile.mode = "hold",
             mic |-> route, saved |-> p.mic]
       ELSE Ended(p, "Failed", FALSE)

(* buttonUp(deferRouteRestore: true).  A separate profile without a stop   *)
(* shortcut throws as a refused key event does.                            *)
UpThrows(p, emitted) ==
  \/ p.profile = NoProfile
  \/ ~emitted
  \/ p.profile.mode = "separate" /\ ~p.profile.stop
UpKeepsProfile(p, emitted) ==
  IF p.profile = NoProfile THEN p
  ELSE IF UpThrows(p, emitted) THEN Ended(p, "Failed", FALSE)
       ELSE [p EXCEPT !.state = "Finishing", !.held = FALSE]
ButtonUp(p, emitted) ==
  IF p.profile = NoProfile THEN p
  ELSE IF UpThrows(p, emitted) THEN Ended(p, "Failed", FALSE)
       ELSE [p EXCEPT !.state = "Finishing", !.profile = NoProfile, !.held = FALSE]

FinishLeavesRoute(p) ==
  IF p.state = "Finishing" THEN [p EXCEPT !.state = "Idle"] ELSE p
FinishDeferredRestore(p) ==
  IF p.state = "Finishing" THEN Ended(p, "Idle", p.held) ELSE p

(* cancel: only a hold shortcut has something to let go of.                *)
Cancel(p) ==
  Ended(p, "Idle", p.held /\ ~(p.profile # NoProfile /\ p.profile.mode = "hold"))

-----------------------------------------------------------------------------
(* The input source of the keyboard, as beginVoiceSession and              *)
(* restoreInputSource use it.                                              *)
RestoreInput(i) ==
  [current |-> IF i.restore /\ i.saved # NoInput THEN i.saved ELSE i.current,
   saved |-> NoInput, restore |-> FALSE]

Remember(i, profile) == [i EXCEPT !.saved = i.current, !.restore = profile.restore]
Switches(i, profile) == profile.target \notin {NoInput, i.current}
SelectTarget(i, profile) ==
  IF Switches(i, profile) THEN [i EXCEPT !.current = profile.target] ELSE i
=============================================================================
