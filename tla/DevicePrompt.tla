---------------------------- MODULE DevicePrompt ----------------------------
(***************************************************************************)
(* An approval dialog of Codex, offered on the screen of the device and     *)
(* answered there with a tap or a hold: from the events Codex reports, over *)
(* the prompt the service of the Mac projects and the mirrored control      *)
(* messages, to the button of the dialog the service presses.              *)
(*                                                                         *)
(* Three parts run by themselves: Codex with the user at the Mac, the main *)
(* actor of the service (a tick every 50 ms, a poll every second, one task  *)
(* per message), and the device, whose screen belongs to whoever holds the *)
(* display lock.  Messages go out over every link that is up and arrive in *)
(* order on each of them.                                                  *)
(***************************************************************************)
EXTENDS Integers, Sequences

CONSTANTS
  Channels,     \* the USB line and the air
  MaxDialogs,   \* bound: dialogs Codex opens
  MaxRevisions, \* bound: states the reducer is told of
  MaxSelections, \* bound: selections under way on a link
  MaxDrops      \* bound: links and messages lost

ASSUME PromptAssumption == {MaxDialogs, MaxRevisions, MaxSelections, MaxDrops} \subseteq Nat

(* ApprovalRiskPolicy: "once" may be tapped, "always" has to be held.  Two  *)
(* dialogs may share a button, at another place of the list.               *)
Offers == {<<"once", "always">>, <<"always">>}
HighRisk == {"always"}

VARIABLES
  dialog,    \* the last dialog on the Mac, and its buttons as long as it is open
  hooks,     \* the inbox of the hooks
  answered,  \* history of the last press: its prompt and dialog, if the prompt was
             \* replaced under the finger, and if it was for the chosen button
  service,   \* controlReducer, pendingApprovalUntil, activePrompt
  links,     \* the channels that are up
  down, up,  \* messages under way, by channel
  lost,      \* a link went down with prompts under way, or a prompt found no room
  drops,     \* what is left of MaxDrops
  app,       \* active_os_app: Codex or another one
  pending,   \* prompt_pending and pending_prompt
  shown,     \* prompt_visible, prompt_id and the buttons
  finger     \* prompt_press_started: the button touched, and history: what it was then

codexVars == <<dialog, hooks, answered>>
linkVars == <<links, lost, drops>>
uiVars == <<app, pending, shown, finger>>
promptVars == <<codexVars, service, linkVars, down, up, uiVars>>

NoPrompt == [id |-> 0, options |-> <<>>]
NoAnswer == [id |-> 0, dialog |-> 0, replaced |-> FALSE, chosen |-> TRUE]

Options == {"once", "always"}
Prompts == {NoPrompt} \cup [id : Nat \ {0}, options : Offers]
NoFinger == [index |-> 0, id |-> 0, seen |-> "once"]
Fingers == {NoFinger} \cup [index : 1..2, id : Nat \ {0}, seen : Options]
Answers == [id : Nat, dialog : 0..MaxDialogs, replaced : BOOLEAN, chosen : BOOLEAN]
Messages == [id : Nat \ {0}, index : 1..2, long : BOOLEAN, finger : Fingers, held : BOOLEAN]

PromptTypeOK ==
  /\ dialog \in [number : 0..MaxDialogs, options : Offers \cup {<<>>}]
  /\ hooks \in Seq({"asks", "works"}) /\ service.revision + Len(hooks) <= MaxRevisions
  /\ answered \in Answers
  /\ service \in [revision : 0..MaxRevisions, current : {"none", "asks", "works", "expired"},
                  pending : BOOLEAN, nextID : Nat, prompt : Prompts,
                  promptRevision : 0..MaxRevisions, out : {<<>>}]
  /\ links \subseteq Channels /\ lost \in BOOLEAN /\ drops \in 0..MaxDrops
  /\ down \in [Channels -> Seq(Prompts)] /\ up \in [Channels -> Seq(Messages)]
  /\ app \in {"codex", "other"} /\ {pending, shown} \subseteq Prompts
  /\ finger \in Fingers

PromptInit ==
  /\ dialog = [number |-> 0, options |-> <<>>] /\ hooks = <<>> /\ answered = NoAnswer
  /\ service = [revision |-> 0, current |-> "none", pending |-> FALSE, nextID |-> 0,
            prompt |-> NoPrompt, promptRevision |-> 0, out |-> <<>>]
  /\ links = Channels /\ lost = FALSE /\ drops = MaxDrops
  /\ down = [c \in Channels |-> <<>>] /\ up = [c \in Channels |-> <<>>]
  /\ app = "other"
  /\ pending = NoPrompt /\ shown = NoPrompt /\ finger = NoFinger

-----------------------------------------------------------------------------
(* Codex opens a dialog, and the user may answer it at the Mac.  A hook    *)
(* reports either, unless the dialog is none that asks for approval, such  *)
(* as a sheet of its settings.                                             *)
Room == service.revision + Len(hooks) < MaxRevisions
Reports(kind) == hooks' = hooks \/ (Room /\ hooks' = Append(hooks, kind))
Open == dialog.options # <<>>
NowClosed == dialog' = [dialog EXCEPT !.options = <<>>]

Asks ==
  /\ ~Open /\ dialog.number < MaxDialogs
  /\ \E o \in Offers : dialog' = [number |-> dialog.number + 1, options |-> o]
  /\ Reports("asks")
  /\ UNCHANGED <<answered, service, linkVars, down, up, uiVars>>

UserAnswers ==
  /\ Open /\ NowClosed /\ Reports("works")
  /\ UNCHANGED <<answered, service, linkVars, down, up, uiVars>>

-----------------------------------------------------------------------------
(* The service.  A step of it works on the record of its state; what it     *)
(* sends is collected in .out and goes out over the links that are up.     *)
Current(m) == m.current \in {"asks", "works"}

ClosePrompt(m) ==
  IF m.prompt = NoPrompt THEN m
  ELSE [m EXCEPT !.prompt = NoPrompt, !.promptRevision = 0, !.pending = FALSE,
                 !.out = Append(@, NoPrompt)]

(* CompanionControlReducer.reduce.                                         *)
Reduced(m, kind) == [m EXCEPT !.revision = @ + 1, !.current = kind]

(* drainHooks: one event, and the first n of the inbox.                    *)
Drained(m, kind) ==
  IF kind = "asks" THEN [Reduced(m, kind) EXCEPT !.pending = TRUE]
                   ELSE ClosePrompt(Reduced(m, kind))
Hooked[n \in 0..Len(hooks)] ==
  IF n = 0 THEN service ELSE Drained(Hooked[n - 1], hooks[n])

(* pollApprovalDialog; the dialog is found only while Codex is in front.   *)
OffersDialog(m, front) ==
  IF m.prompt = NoPrompt /\ m.pending /\ front /\ Open
  THEN LET prompt == [id |-> m.nextID + 1, options |-> dialog.options]
       IN [m EXCEPT !.nextID = @ + 1, !.prompt = prompt, !.pending = FALSE,
                    !.promptRevision = IF Current(m) THEN m.revision ELSE 0,
                    !.out = Append(@, prompt)]
  ELSE m
PollApproval(m, front) ==
  IF m.prompt # NoPrompt /\ ~Current(m) THEN ClosePrompt(m)
  ELSE OffersDialog(m, front)

Does(m) ==
  /\ service' = [m EXCEPT !.out = <<>>]
  /\ down' = [c \in Channels |-> IF c \in links THEN down[c] \o m.out ELSE down[c]]

Tick ==
  /\ \E front \in BOOLEAN : Does(PollApproval(Hooked[Len(hooks)], front))
  /\ hooks' = <<>>
  /\ UNCHANGED <<dialog, answered, linkVars, up, uiVars>>

(* pollCodexRollout: the journal changed, be it for another conversation.  *)
PollRollout ==
  /\ Room
  /\ \E kind \in {"works"} \cup {k \in {"asks"} : Open} : LET m == Reduced(service, kind) IN
        Does(IF kind = "works" THEN ClosePrompt(m)
             ELSE [m EXCEPT !.pending = @ \/ m.prompt = NoPrompt])
  /\ UNCHANGED <<codexVars, linkVars, up, uiVars>>

(* 30 seconds are over: for the state that asks, or for the search.        *)
Expires ==
  /\ \/ service.current = "asks" /\ service' = [service EXCEPT !.current = "expired"]
     \/ /\ service.pending /\ service.prompt = NoPrompt
        /\ service' = [service EXCEPT !.pending = FALSE]
  /\ UNCHANGED <<codexVars, linkVars, down, up, uiVars>>

(* handleSelection, up to the press.                                       *)
Accepted(s) ==
  /\ service.prompt # NoPrompt /\ service.promptRevision # 0
  /\ Current(service) /\ service.promptRevision = service.revision
  /\ service.prompt.id = s.id /\ s.index <= Len(service.prompt.options)

Receives(c) == up[c] # <<>> /\ up' = [up EXCEPT ![c] = Tail(@)]
Chosen(s) == service.prompt.options[s.index]
SelectionRest == UNCHANGED <<linkVars, uiVars>>

MayPress(s) == Accepted(s) /\ (Chosen(s) \in HighRisk => s.long)

(* Not the prompt any more, or a hold is asked for: the prompt stays.      *)
Ignores ==
  /\ \E c \in Channels : Receives(c) /\ ~MayPress(Head(up[c]))
  /\ UNCHANGED <<codexVars, service, down>> /\ SelectionRest

(* CodexApprovalAccessibilityBridge.press: the button is looked up again by *)
(* its title in the dialog that is open now.                               *)
Pressed(s) ==
  [id |-> s.id, dialog |-> dialog.number, replaced |-> s.finger.id # s.id,
   chosen |-> Chosen(s) = s.finger.seen /\ (Chosen(s) \in HighRisk => s.held)]
PressKeepsPrompt ==
  /\ \E c \in Channels :
       /\ Receives(c) /\ MayPress(Head(up[c]))
       /\ \E i \in DOMAIN dialog.options : dialog.options[i] = Chosen(Head(up[c]))
       /\ answered' = Pressed(Head(up[c]))
  /\ NowClosed /\ Reports("works") /\ UNCHANGED <<service, down>>
  /\ SelectionRest
Presses ==
  /\ \E c \in Channels :
       /\ Receives(c) /\ MayPress(Head(up[c]))
       /\ \E i \in DOMAIN dialog.options : dialog.options[i] = Chosen(Head(up[c]))
       /\ answered' = Pressed(Head(up[c]))
  /\ NowClosed /\ Reports("works") /\ Does(ClosePrompt(service))
  /\ SelectionRest

(* The dialog is gone, changed, or does not take the press.                *)
CannotPress ==
  /\ \E c \in Channels : Receives(c) /\ MayPress(Head(up[c]))
  /\ Does(ClosePrompt(service))
  /\ UNCHANGED codexVars /\ SelectionRest

Selection == Ignores \/ Presses \/ CannotPress

-----------------------------------------------------------------------------
(* A link that goes down takes along what is under way on it.              *)
LinkDrops ==
  /\ drops > 0 /\ drops' = drops - 1 /\ lost' = TRUE
  /\ \E c \in links :
       /\ links' = links \ {c}
       /\ down' = [down EXCEPT ![c] = <<>>] /\ up' = [up EXCEPT ![c] = <<>>]
  /\ UNCHANGED <<codexVars, service, uiVars>>

(* The queue of control messages, or that of the bytes of a line, is full. *)
Overflows ==
  /\ drops > 0 /\ drops' = drops - 1 /\ lost' = TRUE
  /\ \E c \in Channels : down[c] # <<>> /\ down' = [down EXCEPT ![c] = Tail(@)]
  /\ UNCHANGED <<codexVars, service, links, up, uiVars>>

(* A line of the USB or a message of the control queue, on the main loop of *)
(* the device: cc_device_ui_show_prompt or cc_device_ui_close_prompt.      *)
CloseForgetsPending(prompt) ==
  IF prompt = NoPrompt
  THEN shown' = (IF app = "codex" THEN pending ELSE NoPrompt) /\ UNCHANGED pending
  ELSE pending' = prompt /\ shown' = IF app = "codex" THEN prompt ELSE shown
ShowsAnywhere(prompt) == pending' = prompt /\ shown' = prompt
Projects(prompt) ==
  /\ pending' = prompt
  /\ shown' = IF app = "codex" THEN prompt ELSE NoPrompt

Delivers(c) ==
  /\ down[c] # <<>> /\ down' = [down EXCEPT ![c] = Tail(@)]
  /\ Projects(Head(down[c]))
  /\ UNCHANGED <<codexVars, service, linkVars, up, app, finger>>

-----------------------------------------------------------------------------
(* The finger on an option: prompt_button_event.  The buttons stay the same *)
(* objects when another prompt fills them, and the finger stays on its own. *)
TouchRest == UNCHANGED <<codexVars, service, linkVars, down, app, pending, shown>>

Touches ==
  /\ finger = NoFinger
  /\ \E i \in DOMAIN shown.options :
       finger' = [index |-> i, id |-> shown.id, seen |-> shown.options[i]]
  /\ UNCHANGED up /\ TouchRest

(* The release, 1500 ms after the touch or before.                         *)
EveryTapCounts(held) == finger.index \in DOMAIN shown.options
TakesEffect(held) ==
  /\ finger.index \in DOMAIN shown.options
  /\ shown.options[finger.index] \in HighRisk => held

(* prompt_selected, over every link that is up, with the number and the    *)
(* risk of the prompt that is there at the release.  Of the touch it keeps *)
(* what the finger was put on and whether, if high-risk, it was held.      *)
Sent(held) ==
  [id |-> shown.id, index |-> finger.index, long |-> shown.options[finger.index] \in HighRisk,
   finger |-> finger, held |-> held /\ finger.seen \in HighRisk]

Selects ==
  /\ finger # NoFinger /\ finger' = NoFinger
  /\ \A c \in Channels : Len(up[c]) < MaxSelections
  /\ \E held \in BOOLEAN :
       /\ TakesEffect(held)
       /\ up' = [c \in Channels |-> IF c \in links THEN Append(up[c], Sent(held)) ELSE up[c]]
  /\ TouchRest

(* Too short, or the prompt is closed or has no such button: the service   *)
(* would refuse the index of a hidden one.                                 *)
Lifts ==
  /\ finger # NoFinger /\ finger' = NoFinger
  /\ UNCHANGED up /\ TouchRest

(* show_os_app, from buttons and gestures; the pages inside of an app do   *)
(* not matter here.  A tap elsewhere needs the finger; a swipe that began   *)
(* on a button takes it away from there (lv_indev_wait_release).           *)
Moves ==
  /\ finger' = NoFinger
  /\ UNCHANGED <<codexVars, service, linkVars, down, up, pending>>

OpensCodex ==
  /\ app = "other" /\ finger = NoFinger
  /\ app' = "codex" /\ shown' = pending
  /\ Moves

LeavesCodex ==
  /\ app = "codex" /\ shown = NoPrompt
  /\ app' = "other" /\ UNCHANGED shown
  /\ Moves

-----------------------------------------------------------------------------
PromptNext ==
  \/ Asks \/ UserAnswers \/ Tick \/ PollRollout \/ Expires \/ Selection
  \/ LinkDrops \/ Overflows \/ (\E c \in Channels : Delivers(c))
  \/ Touches \/ Selects \/ Lifts \/ OpensCodex \/ LeavesCodex

(* Timers fire, tasks run, and a link that is up delivers.                 *)
PromptFairness ==
  /\ WF_promptVars(Tick) /\ WF_promptVars(Selection)
  /\ \A c \in Channels : WF_promptVars(Delivers(c))

PromptSpec == PromptInit /\ [][PromptNext]_promptVars /\ PromptFairness

-----------------------------------------------------------------------------
(* The button the service presses is the one the finger was put on, and a  *)
(* high-risk one was held for 1500 ms, wherever prompts, selections and    *)
(* dialogs have got to meanwhile, unless another prompt replaced the one   *)
(* under the finger: the release takes number and risk of the new prompt   *)
(* and the time of the old touch (CompanionService.swift:695-716,          *)
(* device_ui.c:213-224, 484-521).                                          *)
PressIsChosen == answered.replaced \/ answered.chosen

(* The text says it of every press of a high-risk option: it was held on    *)
(* the device for 1500 ms (protocol/specification.md:109-111).             *)
HoldIsOfOption == answered.chosen

(* A prompt answers at most one dialog, although a selection comes once for *)
(* every link and the next dialog may offer the same buttons               *)
(* (CompanionService.swift:699-716).                                       *)
AnsweredOnce == [][answered' # answered => answered'.id > answered.id]_promptVars

(* A prompt is on the screen only in the Codex app and only while it is    *)
(* pending, whatever arrives and wherever the user swipes: outside of it a *)
(* prompt would lock the screen (device_ui.c:484-522, 658-687, 1900-1930). *)
PromptOwnsScreen == shown # NoPrompt => app = "codex" /\ shown = pending

(* A prompt the service has closed leaves the device, as long as no link    *)
(* and no prompt is lost: the mirrored copies do not bring it back         *)
(* (CompanionService.swift:718-725, device_ui.c:1916-1929).                *)
ClosedPromptsLeave ==
  service.prompt = NoPrompt /\ ~lost ~> pending = NoPrompt \/ service.prompt # NoPrompt \/ lost

(* A prompt is offered only while the last state Codex reported is one that *)
(* asks, as the comment says (CodexApprovalAccessibility.swift:118-121).   *)
PromptIsActionable == service.prompt # NoPrompt => service.current # "works"
=============================================================================
