------------------------- MODULE VoiceSessionProofs -------------------------
(***************************************************************************)
(* The safety properties of VoiceSession, for every set of profiles, input *)
(* sources and bounds, and the safety part of its refinement of            *)
(* BorrowedVoice.                                                          *)
(*                                                                         *)
(* The argument: whatever a step of Next is, it does one of five things to *)
(* the session (Outcome): it keeps it, opens one, closes one, ends one at  *)
(* once, or runs the cleanup.  Each of these keeps SessionInv and is a     *)
(* step or a stutter of BorrowedVoice.  That a late USB release finds      *)
(* nothing to disturb rests on ButtonInv and EdgeInv, which follow the     *)
(* button, the two interfaces and the deduplicator.                        *)
(***************************************************************************)
EXTENDS VoiceSession, TLAPS, SequenceTheorems

USE SourceAssumption, InputAssumption, BoundsAssumption, DevicesAssumption,
    ProfilesAssumption
    DEF Sources, Radios

-----------------------------------------------------------------------------
(* The controller between two steps: it has never failed half-way, it      *)
(* holds a key only for a hold profile in a session, and it has borrowed   *)
(* the user's own device or nothing.                                       *)
Returnable(p) ==
  /\ p \in PTT
  /\ p.state # "Failed"
  /\ (p.profile # NoProfile) = (p.state = "Active")
  /\ p.held => p.profile # NoProfile /\ p.profile.mode = "hold"
  /\ p.state = "Idle" => p.mic = OwnMic /\ p.saved = NoDevice
  /\ p.state # "Idle" => p.saved = OwnMic

(* The controller after a start or a stop that threw.                      *)
Thrown == [state |-> "Failed", profile |-> NoProfile, held |-> FALSE,
           mic |-> OwnMic, saved |-> NoDevice]

(* An idle controller has given everything back.                           *)
LEMMA IdleIsInit ==
  ASSUME NEW p, Returnable(p), p.state = "Idle"
  PROVE  p = PTTInit
  BY DEF Returnable, PTT, PTTInit, Mics, Routes

(* The initial controller is returnable.                                   *)
LEMMA InitReturnable == Returnable(PTTInit)
  BY DEF Returnable, PTT, PTTInit, PTTStates, Mics, Routes

(* cancel gives everything back, in every state and after every throw.     *)
LEMMA CancelReturns ==
  ASSUME NEW p, Returnable(p) \/ p = Thrown
  PROVE  Cancel(p) = PTTInit
<1>1. CASE p = Thrown
  BY <1>1 DEF Thrown, Cancel, Ended, RestoredMic, PTTInit
<1>2. CASE Returnable(p)
  <2>1. RestoredMic(p) = OwnMic
    BY <1>2 DEF Returnable, RestoredMic, PTT, PTTStates
  <2>2. (p.held /\ ~(p.profile # NoProfile /\ p.profile.mode = "hold")) = FALSE
    BY <1>2 DEF Returnable, PTT
  <2> QED
    BY <2>1, <2>2 DEF Cancel, Ended, PTTInit
<1> QED
  BY <1>1, <1>2

(* finishDeferredRestore gives everything back, or finds nothing to do.    *)
LEMMA FinishReturns ==
  ASSUME NEW p, Returnable(p)
  PROVE  /\ p.state = "Finishing" => FinishDeferredRestore(p) = PTTInit
         /\ p.state # "Finishing" => FinishDeferredRestore(p) = p
         /\ Returnable(FinishDeferredRestore(p))
         /\ p.state # "Active" => FinishDeferredRestore(p) = PTTInit
<1>1. ASSUME p.state = "Finishing" PROVE FinishDeferredRestore(p) = PTTInit
  <2>1. RestoredMic(p) = OwnMic
    BY <1>1 DEF Returnable, RestoredMic, PTT, PTTStates
  <2>2. p.held = FALSE
    BY <1>1 DEF Returnable, PTT
  <2> QED
    BY <1>1, <2>1, <2>2 DEF FinishDeferredRestore, Ended, PTTInit
<1>2. ASSUME p.state # "Finishing" PROVE FinishDeferredRestore(p) = p
  BY <1>2 DEF FinishDeferredRestore
<1>3. ASSUME p.state \notin {"Active", "Finishing"} PROVE p = PTTInit
  BY <1>3, IdleIsInit DEF Returnable, PTT, PTTStates
<1> QED
  BY <1>1, <1>2, <1>3, InitReturnable

(* buttonDown opens a session that borrows the user's device, if nothing   *)
(* throws; else it gives everything back.                                  *)
Borrows(q, profile, route) ==
  /\ Returnable(q) /\ q.state = "Active"
  /\ q.profile = profile /\ q.mic = route

(* A press of an idle controller that is not refused borrows.              *)
LEMMA DownOpens ==
  ASSUME NEW p, Returnable(p), NEW profile \in Profiles, NEW route \in Routes,
         p.state = "Idle"
  PROVE  Borrows(ButtonDown(p, profile, route, TRUE), profile, route)
<1>1. p = PTTInit
  BY IdleIsInit
<1> QED
  BY <1>1 DEF ButtonDown, PTTInit, Borrows, Returnable, PTT, PTTStates, Mics, Routes

(* A start that throws has given everything back.                          *)
LEMMA DownThrown ==
  ASSUME NEW p, Returnable(p), NEW profile, NEW route, p.state = "Idle"
  PROVE  ButtonDown(p, profile, route, FALSE) = Thrown
<1>1. p = PTTInit
  BY IdleIsInit
<1> QED
  BY <1>1 DEF ButtonDown, PTTInit, Ended, RestoredMic, Thrown

(* buttonUp throws, or lets go of the key and keeps the microphone.        *)
Releases(q, p) ==
  /\ Returnable(q) /\ q.state = "Finishing"
  /\ q.mic = p.mic /\ q.held = FALSE

(* A release throws, or goes to Finishing and keeps what is owed.          *)
LEMMA UpCloses ==
  ASSUME NEW p, Returnable(p), p.profile # NoProfile, NEW emitted \in BOOLEAN
  PROVE  /\ UpThrows(p, emitted) => ButtonUp(p, emitted) = Thrown
         /\ ~UpThrows(p, emitted) => Releases(ButtonUp(p, emitted), p)
<1>1. p.state = "Active" /\ p.saved = OwnMic
  BY DEF Returnable
<1>2. CASE UpThrows(p, emitted)
  BY <1>1, <1>2 DEF ButtonUp, Ended, RestoredMic, Thrown
<1>3. CASE ~UpThrows(p, emitted)
  BY <1>1, <1>3 DEF ButtonUp, Releases, Returnable, PTT, PTTStates
<1> QED
  BY <1>2, <1>3

(* The input source: what is restored is a source, and nothing stays saved. *)
LEMMA InputRestored ==
  ASSUME NEW i \in InputMemory
  PROVE  RestoreInput(i) \in InputMemory /\ RestoreInput(i).saved = NoInput
  BY DEF InputMemory, RestoreInput

(* Remembering and selecting the target of a profile stays within sources. *)
LEMMA InputSelected ==
  ASSUME NEW i \in InputMemory, NEW profile \in Profiles
  PROVE  /\ Remember(i, profile) \in InputMemory
         /\ SelectTarget(Remember(i, profile), profile) \in InputMemory
  BY DEF InputMemory, Remember, SelectTarget, Switches

-----------------------------------------------------------------------------
(* In USB mode only the button starts sessions, else only the radios do.   *)
SourcesNow == IF usbMode THEN {"Usb"} ELSE Radios

(* What every reachable state satisfies about the session ...              *)
SessionInv ==
  /\ Returnable(ptt)
  /\ input \in InputMemory
  /\ active \in Profiles \cup {NoProfile}
  /\ source \in SourcesNow \cup {NoSource}
  /\ deferred \subseteq {"Current", "Superseded"}
  /\ gateway \in {"Idle", "Active", "Draining"}
  /\ started \in BOOLEAN
  /\ started => active = ptt.profile
  /\ (source # NoSource) = (ptt.state = "Active")
  /\ input.saved # NoInput => ptt.state \in {"Active", "Finishing"}
  /\ ptt.state = "Finishing" => "Current" \in deferred
  /\ "Current" \in deferred => ptt.state # "Active"
  /\ GatewayFollowsSession

(* ... and the five things a step can do to it.  The first is an end at    *)
(* once: everything is given back.  (Only stop leaves active behind.)      *)
Gone ==
  /\ ptt' = PTTInit
  /\ input' \in InputMemory /\ input'.saved = NoInput
  /\ active' = NoProfile \/ (active' = active /\ ~started')
  /\ source' = NoSource
  /\ deferred' \subseteq {"Superseded"}
  /\ gateway' = "Idle"

Opened(src) ==
  /\ ptt.state # "Active"
  /\ Returnable(ptt') /\ ptt'.state = "Active" /\ ptt'.mic \in Routes
  /\ input' \in InputMemory
  /\ active' = ptt'.profile
  /\ source' = src
  /\ deferred' \subseteq {"Superseded"}
  /\ gateway' = IF src = "Wifi" THEN "Active" ELSE gateway

Closed ==
  /\ ptt.state = "Active"
  /\ Returnable(ptt') /\ ptt'.state = "Finishing"
  /\ ptt'.mic = ptt.mic /\ ptt'.held = FALSE
  /\ input' = input
  /\ active' = NoProfile
  /\ source' = NoSource
  /\ deferred' \subseteq {"Current", "Superseded"} /\ "Current" \in deferred'
  /\ gateway' \in {"Idle", "Draining"}

Cleaned ==
  /\ "Current" \in deferred
  /\ ptt' = PTTInit
  /\ input' \in InputMemory /\ input'.saved = NoInput
  /\ deferred' = deferred \ {"Current"}
  /\ UNCHANGED <<active, source, gateway>>

Kept ==
  /\ UNCHANGED <<ptt, input, active, source>>
  /\ deferred' \subseteq deferred /\ ("Current" \in deferred => "Current" \in deferred')
  /\ gateway' \in {gateway, "Idle"}

Outcome == Gone \/ (\E src \in SourcesNow : Opened(src)) \/ Closed \/ Cleaned \/ Kept

(* A failure gives everything back.                                        *)
LEMMA FailIsGone ==
  ASSUME NEW p, NEW i \in InputMemory, Returnable(p) \/ p = Thrown, FailVoiceSession(p, i)
  PROVE  Gone
  BY CancelReturns, InputRestored
     DEF FailVoiceSession, SessionGone, Superseded, Gone

(* beginVoiceSession opens a session or gives everything back; on top of a *)
(* session that is active it can only do the latter.                       *)
LEMMA BeginOutcome ==
  ASSUME SessionInv, NEW src \in Sources, BeginVoiceSession(src)
  PROVE  Gone \/ Opened(src)
<1>1. PICK p : p = Settled
  OBVIOUS
<1>2. PICK i : i = SettledInput
  OBVIOUS
<1>3. Returnable(p) /\ (p.state = "Idle" => ptt.state # "Active")
  BY <1>1, FinishReturns DEF SessionInv, Settled
<1>4. i \in InputMemory
  BY <1>2, InputRestored DEF SessionInv, SettledInput
<1>5. PICK route \in Routes : route = IF src = "Usb" THEN UsbMic ELSE CodexMic
  BY DEF Routes
<1>6. CASE FailVoiceSession(p, i)
  BY <1>3, <1>4, <1>6, FailIsGone
<1>7. ASSUME NEW profile \in Profiles, FailVoiceSession(p, Remember(i, profile))
      PROVE  Gone
  BY <1>3, <1>4, <1>7, FailIsGone, InputSelected
<1>8. ASSUME NEW profile \in Profiles, NEW emitted \in BOOLEAN,
             FailVoiceSession(ButtonDown(p, profile, route, emitted),
                              SelectTarget(Remember(i, profile), profile))
      PROVE  Gone
  <2> DEFINE q == ButtonDown(p, profile, route, emitted)
  <2>1. CASE p.state = "Idle" /\ emitted = TRUE
    <3>1. Borrows(q, profile, route)
      BY <1>3, <1>5, <1>8, <2>1, DownOpens, Zenon
    <3> QED
      BY <1>4, <1>8, <3>1, FailIsGone, InputSelected, Zenon DEF Borrows
  <2>2. CASE p.state = "Idle" /\ emitted = FALSE
    <3>1. q = Thrown
      BY <1>3, <2>2, DownThrown, Zenon
    <3> QED
      BY <1>4, <1>8, <3>1, FailIsGone, InputSelected, Zenon
  <2>3. CASE p.state # "Idle"
    <3>1. q = p
      BY <2>3 DEF ButtonDown
    <3> QED
      BY <1>3, <1>4, <1>8, <3>1, FailIsGone, InputSelected, Zenon
  <2> QED
    BY <1>8, <2>1, <2>2, <2>3, Zenon
<1>9. ASSUME NEW profile \in Profiles,
             ~DownThrows(p, TRUE),
             ptt' = ButtonDown(p, profile, route, TRUE),
             input' = SelectTarget(Remember(i, profile), profile),
             deferred' = Superseded,
             active' = profile,
             source' = src,
             gateway' = IF src = "Wifi" THEN "Active" ELSE gateway
      PROVE  Opened(src)
  <2>1. p.state = "Idle"
    BY <1>9 DEF DownThrows
  <2>2. Borrows(ptt', profile, route)
    BY <1>3, <1>5, <1>9, <2>1, DownOpens, Zenon
  <2>3. input' \in InputMemory
    BY <1>4, <1>9, InputSelected
  <2> QED
    BY <1>3, <1>5, <1>9, <2>1, <2>2, <2>3 DEF Opened, Superseded, Borrows
<1> QED
  BY <1>1, <1>2, <1>5, <1>6, <1>7, <1>8, <1>9 DEF BeginVoiceSession

(* endVoiceSession closes the active session, or gives everything back.    *)
LEMMA EndOutcome ==
  ASSUME SessionInv, started, EndVoiceSession
  PROVE  Gone \/ Closed
<1>1. CASE active = NoProfile
  BY <1>1, FailIsGone DEF EndVoiceSession, SessionInv
<1>2. CASE active # NoProfile
  <2>1. ptt.profile # NoProfile /\ ptt.state = "Active" /\ Returnable(ptt)
    BY <1>2 DEF SessionInv, Returnable
  <2>2. PICK emitted \in BOOLEAN :
          IF UpThrows(ptt, emitted) THEN FailVoiceSession(ButtonUp(ptt, emitted), input)
          ELSE /\ ptt' = ButtonUp(ptt, emitted)
               /\ gateway' = IF source = "Wifi" /\ gateway = "Active"
                             THEN "Draining" ELSE gateway
               /\ SessionGone
               /\ deferred' = ScheduleCleanup
               /\ UNCHANGED input
    BY <1>2 DEF EndVoiceSession
  <2>3. CASE UpThrows(ptt, emitted)
    <3>1. ButtonUp(ptt, emitted) = Thrown
      BY <2>1, <2>2, <2>3, UpCloses, Zenon
    <3> QED
      BY <2>2, <2>3, <3>1, FailIsGone DEF SessionInv
  <2>4. CASE ~UpThrows(ptt, emitted)
    <3>1. Releases(ptt', ptt)
      BY <2>1, <2>2, <2>4, UpCloses, Zenon
    <3>2. gateway' \in {"Idle", "Draining"}
      BY <2>2, <2>4 DEF SessionInv, GatewayFollowsSession
    <3> QED
      BY <2>1, <2>2, <2>4, <3>1, <3>2
         DEF Closed, SessionGone, ScheduleCleanup, Superseded, Releases
  <2> QED
    BY <2>3, <2>4
<1> QED
  BY <1>1, <1>2

(* Whatever happens to the session, the invariant survives it.  A step     *)
(* that keeps started, or stops by ending the session, is all it needs.    *)
LEMMA OutcomeKeepsInv ==
  ASSUME SessionInv, Outcome, started' = started \/ (~started' /\ Gone),
         started' \in BOOLEAN, usbMode' = usbMode
  PROVE  SessionInv'
<1>0. SourcesNow' = SourcesNow /\ SourcesNow \subseteq Sources
  BY DEF SourcesNow
<1>1. CASE Gone
  <2>1. active' \in Profiles \cup {NoProfile} /\ (started' => active' = NoProfile)
    BY <1>1 DEF Gone, SessionInv
  <2> QED
    BY <1>0, <1>1, <2>1, InitReturnable DEF Gone, SessionInv, GatewayFollowsSession, PTTInit
<1>2. ASSUME NEW src \in SourcesNow, Opened(src) PROVE SessionInv'
  <2>1. ptt' \in PTT /\ ptt'.profile \in Profiles \cup {NoProfile}
    BY <1>2 DEF Opened, Returnable, PTT
  <2>2. source = NoSource
    BY <1>2 DEF Opened, SessionInv
  <2>3. (gateway = "Active" => source = "Wifi") /\ gateway \in {"Idle", "Active", "Draining"}
    BY DEF SessionInv, GatewayFollowsSession
  <2>4. gateway' \in {"Idle", "Active", "Draining"} /\ GatewayFollowsSession'
    BY <1>2, <2>2, <2>3 DEF Opened, GatewayFollowsSession
  <2> QED
    BY <1>0, <1>2, <2>1, <2>4 DEF Opened, SessionInv
<1>3. CASE Closed
  BY <1>0, <1>3 DEF Closed, SessionInv, Returnable, GatewayFollowsSession
<1>4. CASE Cleaned
  <2>1. ptt.state # "Active" /\ ptt.profile = NoProfile /\ source = NoSource
    BY <1>4 DEF Cleaned, SessionInv, Returnable
  <2>2. started' => active' = NoProfile
    BY <1>4, <2>1 DEF Cleaned, SessionInv, Gone
  <2> QED
    BY <1>0, <1>4, <2>1, <2>2, InitReturnable DEF Cleaned, SessionInv, GatewayFollowsSession, PTTInit
<1>5. CASE Kept
  BY <1>0, <1>5 DEF Kept, SessionInv, GatewayFollowsSession, Gone
<1> QED
  BY <1>1, <1>2, <1>3, <1>4, <1>5 DEF Outcome

-----------------------------------------------------------------------------
(* The messages on their way, the tasks, and what was acted on.            *)
MessagesType ==
  /\ usbMode \in BOOLEAN
  /\ msgs \in Seq(MessageKinds) /\ Len(msgs) <= MaxMessages
  /\ wire \in [Radios -> Seq(Seqs)]
  /\ linkUp \in [Radios -> BOOLEAN]
  /\ changes \in 0..MaxChanges
  /\ tasks \in Seq(Task)
  /\ bleValue \in 0..MaxMessages
  /\ linkState \in [Radios -> BOOLEAN]
  /\ guard \in [Radios -> 0..MaxMessages]
  /\ seen \subseteq Seqs
  /\ liveness \in {"Unset", "Fresh", "Expired"}
  /\ starting \in Radios \cup {NoSource}
  /\ acted \in Seq(Seqs)

(* In USB mode no control message is under way.                            *)
Quiet ==
  usbMode => /\ \A r \in Radios : wire[r] = << >>
             /\ \A k \in DOMAIN tasks : tasks[k].kind # "Control"
             /\ starting = NoSource

(* What was acted on has been remembered, which is why it is not repeated. *)
Remembered ==
  /\ MirroredOnce
  /\ \A i \in DOMAIN acted : acted[i] \in seen

MessagesInv == MessagesType /\ Quiet /\ Remembered

(* The button, the two interfaces that mirror it, and the deduplicator.    *)
ButtonType ==
  /\ button \in [pressed : BOOLEAN, presses : 0..MaxPresses, attached : BOOLEAN,
                 hid : BOOLEAN]
  /\ pending \in [{"Cdc", "Hid"} -> Seq(BOOLEAN)]
  /\ edge \in Edges

(* The HID interface ends in the state the button has reported; without a  *)
(* cable that state is up, and so is the deduplicator once it has read it. *)
HidEndsUp ==
  /\ button.pressed => button.attached
  /\ pending["Hid"] # << >> => pending["Hid"][Len(pending["Hid"])] = button.hid
  /\ ~button.attached => /\ pending["Cdc"] = << >> /\ ~button.hid
                         /\ pending["Hid"] = << >> => ~edge.down

NoUsbWithoutUsb ==
  ~usbMode => /\ ~button.attached /\ ~edge.down
              /\ pending["Cdc"] = << >> /\ pending["Hid"] = << >>

(* A release that the deduplicator lets through never meets a session that *)
(* is finishing.                                                           *)
NoLateRelease ==
  usbMode /\ ptt.state = "Finishing" => ~edge.down \/ edge.suppressing

ButtonInv == ButtonType /\ HidEndsUp /\ NoUsbWithoutUsb
EdgeInv == UsbSessionMatchesButton /\ NoLateRelease

VoiceInv == SessionInv /\ MessagesInv /\ ButtonInv /\ EdgeInv

-----------------------------------------------------------------------------
(* Steps of the radios, of the main actor, and of the USB button.          *)
RadioStep ==
  \/ \E kind \in MessageKinds, copies \in SUBSET Radios : DeviceSends(kind, copies)
  \/ \E radio \in Radios : Arrives(radio)
  \/ \E radio \in Radios : LinkMoves(radio)
  \/ GatewayDrains \/ SinkFails \/ PeerHeard \/ PeerSilent
ActorStep ==
  \/ RunTask \/ StartVoice
  \/ \E work \in {"Current", "Superseded"} : CleanupRuns(work)
  \/ LivenessTick \/ Stop
UsbStep ==
  \/ UsbPress \/ UsbRelease \/ RearmElapses \/ UsbDetach \/ UsbAttach
  \/ \E interface \in {"Cdc", "Hid"} : UsbEdge(interface)

(* The radios never touch the session.                                     *)
LEMMA RadioOutcome ==
  ASSUME VoiceInv, RadioStep
  PROVE  Kept /\ UNCHANGED <<started, usbMode, usbVars>>
<1> USE DEF Kept, sessionVars, deviceVars, usbVars, inboxVars
<1>1. ASSUME NEW kind \in MessageKinds, NEW copies \in SUBSET Radios, DeviceSends(kind, copies)
      PROVE  Kept /\ UNCHANGED <<started, usbMode, usbVars>>
  BY <1>1 DEF DeviceSends
<1>2. ASSUME NEW radio \in Radios, Arrives(radio)
      PROVE  Kept /\ UNCHANGED <<started, usbMode, usbVars>>
  BY <1>2 DEF Arrives
<1>3. ASSUME NEW radio \in Radios, LinkMoves(radio)
      PROVE  Kept /\ UNCHANGED <<started, usbMode, usbVars>>
  BY <1>3 DEF LinkMoves
<1>4. CASE GatewayDrains \/ SinkFails \/ PeerHeard \/ PeerSilent
  BY <1>4 DEF GatewayDrains, SinkFails, PeerHeard, PeerSilent
<1> QED
  BY <1>1, <1>2, <1>3, <1>4 DEF RadioStep

(* What the main actor may do to a session in USB mode is end it.          *)
ActorOutcome ==
  \/ Gone
  \/ ~usbMode /\ \E src \in Radios : Opened(src)
  \/ ~usbMode /\ Closed
  \/ Cleaned
  \/ Kept

(* A control task is only found outside USB mode.                          *)
LEMMA RunTaskOutcome ==
  ASSUME VoiceInv, RunTask
  PROVE  ActorOutcome
<1> DEFINE task == Head(tasks)
           n == IF task.radio = "Ble" THEN bleValue ELSE task.seq
<1>1. started /\ tasks # << >>
  BY DEF RunTask, MainFree
<1>2. CASE task.kind = "Control"
  <2>1. ~usbMode
    BY <1>1, <1>2 DEF VoiceInv, MessagesInv, MessagesType, Quiet
  <2>2. HandleControl(task.radio, n)
    BY <1>2 DEF RunTask
  <2>3. EndVoiceSession \/ KeepSession
    BY <2>2 DEF HandleControl
  <2> QED
    BY <1>1, <2>1, <2>3, EndOutcome
       DEF VoiceInv, ActorOutcome, KeepSession, Kept, sessionVars
<1>3. CASE task.kind # "Control"
  <2>1. HandleLink(task)
    BY <1>3 DEF RunTask
  <2>2. FailVoiceSession(ptt, input) \/ KeepSession
    BY <2>1 DEF HandleLink
  <2> QED
    BY <2>2, FailIsGone
       DEF VoiceInv, SessionInv, ActorOutcome, KeepSession, Kept, sessionVars
<1> QED
  BY <1>2, <1>3

(* The second half of a PTT_DOWN.                                          *)
LEMMA StartVoiceOutcome ==
  ASSUME VoiceInv, StartVoice
  PROVE  ActorOutcome
<1>1. starting \in Radios /\ ~usbMode
  BY DEF StartVoice, VoiceInv, MessagesInv, MessagesType, Quiet
<1>2. BeginVoiceSession(starting)
  BY DEF StartVoice
<1> QED
  BY <1>1, <1>2, BeginOutcome DEF VoiceInv, ActorOutcome

(* The cleanup runs only while it is current, and then it finds no session. *)
LEMMA CleanupOutcome ==
  ASSUME VoiceInv, NEW work \in {"Current", "Superseded"}, CleanupRuns(work)
  PROVE  ActorOutcome
<1>1. CASE work = "Current"
  <2>1. ptt.state # "Active" /\ Returnable(ptt) /\ input \in InputMemory
    BY <1>1 DEF CleanupRuns, VoiceInv, SessionInv
  <2>2. ptt' = PTTInit /\ input' = RestoreInput(input)
    BY <1>1, <2>1, FinishReturns DEF CleanupRuns, MayClean
  <2> QED
    BY <1>1, <2>1, <2>2, InputRestored DEF CleanupRuns, ActorOutcome, Cleaned
<1>2. CASE work = "Superseded"
  BY <1>2 DEF CleanupRuns, MayClean, ActorOutcome, Kept
<1> QED
  BY <1>1, <1>2

(* Every step of the main actor, with what it does to started.             *)
LEMMA ActorOutcomes ==
  ASSUME VoiceInv, ActorStep
  PROVE  /\ ActorOutcome
         /\ started' = started \/ (~started' /\ Gone)
         /\ started' \in BOOLEAN /\ usbMode' = usbMode
<1> USE DEF deviceVars
<1>1. CASE RunTask
  BY <1>1, RunTaskOutcome DEF RunTask, VoiceInv, SessionInv
<1>2. CASE StartVoice
  BY <1>2, StartVoiceOutcome DEF StartVoice, VoiceInv, SessionInv
<1>3. ASSUME NEW work \in {"Current", "Superseded"}, CleanupRuns(work)
      PROVE  ActorOutcome /\ UNCHANGED <<started, usbMode>>
  BY <1>3, CleanupOutcome DEF CleanupRuns
<1>4. CASE LivenessTick
  BY <1>4, FailIsGone DEF LivenessTick, ActorOutcome, KeepSession, Kept, sessionVars,
                          VoiceInv, SessionInv
<1>5. CASE Stop
  <2>1. Gone
    BY <1>5, CancelReturns, InputRestored DEF Stop, VoiceInv, SessionInv, Gone, Superseded
  <2> QED
    BY <1>5, <2>1 DEF Stop, ActorOutcome
<1> QED
  BY <1>1, <1>2, <1>3, <1>4, <1>5 DEF ActorStep, VoiceInv, SessionInv

-----------------------------------------------------------------------------
(* The USB button.                                                         *)

(* What the deduplicator makes of an edge, and what the service does with  *)
(* it: a press opens, a release closes, and neither meets a session of     *)
(* another kind.                                                           *)
LEMMA ButtonOutcome ==
  ASSUME VoiceInv, usbMode, started, NEW down \in BOOLEAN, HandleNativeUSBButton(down)
  PROVE  /\ Gone \/ Opened("Usb") \/ Closed \/ Kept
         /\ edge' = EdgeAfter(down)
         /\ Opened("Usb") => edge'.down /\ ~edge'.suppressing
         /\ EdgeInv'
<1>1. edge' = EdgeAfter(down) /\ edge \in Edges
  BY DEF HandleNativeUSBButton, VoiceInv, ButtonInv, ButtonType
<1>2. SourcesNow = {"Usb"}
  BY DEF SourcesNow
<1>3. CASE EdgeAction(down) = "Down"
  <2>1. Gone \/ Opened("Usb")
    BY <1>3, BeginOutcome DEF HandleNativeUSBButton, VoiceInv
  <2>2. edge'.down /\ ~edge'.suppressing
    BY <1>1, <1>3 DEF EdgeAction, EdgeAfter, Edges
  <2>3. ptt'.state # "Finishing"
    BY <2>1 DEF Gone, Opened, PTTInit
  <2> QED
    BY <1>1, <2>1, <2>2, <2>3 DEF EdgeInv, UsbSessionMatchesButton, NoLateRelease
<1>4. CASE EdgeAction(down) = "Up"
  <2>1. ~edge'.down /\ edge.down /\ ~edge.suppressing
    BY <1>1, <1>4 DEF EdgeAction, EdgeAfter, Edges
  <2>2. CASE active # NoProfile
    <3>1. Gone \/ Closed
      BY <1>4, <2>2, EndOutcome DEF HandleNativeUSBButton, VoiceInv
    <3>2. source' = NoSource
      BY <3>1 DEF Gone, Closed
    <3> QED
      BY <1>1, <2>1, <3>1, <3>2 DEF EdgeInv, UsbSessionMatchesButton, NoLateRelease,
                                    Gone, Closed, Opened
  <2>3. CASE active = NoProfile
    <3>1. ptt.state = "Idle" /\ source = NoSource /\ Returnable(ptt)
      BY <2>1, <2>3 DEF VoiceInv, SessionInv, Returnable, PTT, PTTStates, EdgeInv,
                        NoLateRelease
    <3>2. /\ ptt' = Cancel(ptt)
          /\ UNCHANGED <<input, active, source, deferred, gateway>>
      BY <1>4, <2>3 DEF HandleNativeUSBButton
    <3>3. ptt' = ptt
      BY <3>1, <3>2, IdleIsInit, CancelReturns
    <3> QED
      BY <1>1, <2>1, <3>1, <3>2, <3>3 DEF Kept, EdgeInv, UsbSessionMatchesButton,
                                          NoLateRelease, Opened
  <2> QED
    BY <2>2, <2>3
<1>5. CASE EdgeAction(down) = "None"
  <2>1. Kept /\ UNCHANGED <<ptt, source>>
    BY <1>5 DEF HandleNativeUSBButton, KeepSession, Kept, sessionVars
  <2>2. edge' = edge \/ edge'.suppressing \/ (~edge'.down /\ edge.suppressing)
    BY <1>1, <1>5 DEF EdgeAction, EdgeAfter, Edges
  <2>3. source = "Usb" => edge' = edge
    BY <1>1, <1>5 DEF EdgeAction, EdgeAfter, Edges, VoiceInv, EdgeInv,
                      UsbSessionMatchesButton, SessionInv
  <2> QED
    BY <1>1, <2>1, <2>2, <2>3 DEF EdgeInv, UsbSessionMatchesButton, NoLateRelease,
                                  VoiceInv, Opened
<1> QED
  BY <1>3, <1>4, <1>5 DEF EdgeAction

(* Every step of the USB button.                                           *)
LEMMA UsbOutcome ==
  ASSUME VoiceInv, UsbStep
  PROVE  /\ Gone \/ (usbMode /\ Opened("Usb")) \/ Closed \/ Kept
         /\ EdgeInv'
         /\ UNCHANGED <<usbFrame>>
<1> USE DEF usbFrame, sessionVars
<1>1. CASE UsbPress \/ UsbRelease \/ UsbAttach
  <2>1. UNCHANGED <<edge, sessionVars, gateway, usbFrame>>
    BY <1>1 DEF UsbPress, UsbRelease, UsbAttach
  <2> QED
    BY <2>1 DEF Kept, VoiceInv, EdgeInv, UsbSessionMatchesButton, NoLateRelease,
                deviceVars
<1>2. CASE RearmElapses
  BY <1>2 DEF RearmElapses, Kept, VoiceInv, EdgeInv, UsbSessionMatchesButton,
              NoLateRelease, deviceVars, ButtonInv, ButtonType, Edges
<1>3. CASE UsbDetach
  <2>1. usbMode /\ started /\ HandleNativeUSBButton(FALSE)
    BY <1>3 DEF UsbDetach, MainFree, VoiceInv, ButtonInv, NoUsbWithoutUsb
  <2>2. /\ Gone \/ Opened("Usb") \/ Closed \/ Kept
        /\ EdgeInv'
    BY <2>1, ButtonOutcome
  <2>3. UNCHANGED <<usbFrame>>
    BY <1>3 DEF UsbDetach
  <2> QED
    BY <2>1, <2>2, <2>3
<1>4. ASSUME NEW interface \in {"Cdc", "Hid"}, UsbEdge(interface)
      PROVE  /\ Gone \/ (usbMode /\ Opened("Usb")) \/ Closed \/ Kept
             /\ EdgeInv'
             /\ UNCHANGED <<usbFrame>>
  <2>1. PICK down : down = Head(pending[interface])
    OBVIOUS
  <2>2. pending[interface] \in Seq(BOOLEAN) /\ pending[interface] # << >>
    BY <1>4 DEF UsbEdge, VoiceInv, ButtonInv, ButtonType
  <2>3. down \in BOOLEAN
    BY <2>1, <2>2
  <2>4. usbMode /\ started /\ HandleNativeUSBButton(down)
    BY <1>4, <2>1, <2>2 DEF UsbEdge, MainFree, VoiceInv, ButtonInv, NoUsbWithoutUsb
  <2>5. /\ Gone \/ Opened("Usb") \/ Closed \/ Kept
        /\ EdgeInv'
    BY <2>3, <2>4, ButtonOutcome
  <2>6. UNCHANGED <<usbFrame>>
    BY <1>4 DEF UsbEdge
  <2> QED
    BY <2>4, <2>5, <2>6
<1> QED
  BY <1>1, <1>2, <1>3, <1>4 DEF UsbStep

(* The last element of a queue after an append, and after the head is      *)
(* taken.                                                                  *)
LEMMA LastOfAppend ==
  ASSUME NEW q \in Seq(BOOLEAN), NEW b \in BOOLEAN
  PROVE  /\ Append(q, b) \in Seq(BOOLEAN) /\ Append(q, b) # << >>
         /\ Append(q, b)[Len(Append(q, b))] = b
  OBVIOUS

(* Taking the head of a queue leaves its last element.                     *)
LEMMA LastOfTail ==
  ASSUME NEW q \in Seq(BOOLEAN), q # << >>
  PROVE  /\ Tail(q) \in Seq(BOOLEAN)
         /\ Tail(q) # << >> => Tail(q)[Len(Tail(q))] = q[Len(q)]
         /\ Tail(q) = << >> => Head(q) = q[Len(q)]
<1>1. Len(q) \in Nat \ {0}
  OBVIOUS
<1>2. PICK t : t = Tail(q)
  OBVIOUS
<1>3. t \in Seq(BOOLEAN) /\ Len(t) = Len(q) - 1 /\ \A k \in 1..Len(t) : t[k] = q[k + 1]
  BY <1>2
<1>4. t # << >> => Len(t) \in 1..Len(t)
  BY <1>3
<1>5. t = << >> => Len(q) = 1
  BY <1>1, <1>3
<1> QED
  BY <1>1, <1>2, <1>3, <1>4, <1>5

(* The button and its interfaces, whatever is done with the edges.         *)
LEMMA ButtonKept ==
  ASSUME VoiceInv, UsbStep
  PROVE  ButtonInv'
<1> USE DEF usbFrame, deviceVars
<1>0. /\ ButtonType /\ HidEndsUp /\ NoUsbWithoutUsb
      /\ edge \in [down : BOOLEAN, suppressing : BOOLEAN, rearming : BOOLEAN]
      /\ pending["Cdc"] \in Seq(BOOLEAN) /\ pending["Hid"] \in Seq(BOOLEAN)
  BY DEF VoiceInv, ButtonInv, ButtonType, Edges
<1>1. \A down \in BOOLEAN :
        /\ EdgeAfter(down) \in Edges
        /\ EdgeAfter(down).down = down
  BY <1>0 DEF EdgeAfter, Edges
<1>2. CASE UsbPress
  <2>1. PICK hid \in BOOLEAN :
          /\ button' = [button EXCEPT !.pressed = TRUE, !.presses = @ + 1, !.hid = @ \/ hid]
          /\ pending' = [pending EXCEPT
               !["Cdc"] = Append(@, TRUE),
               !["Hid"] = IF hid /\ ~button.hid THEN Append(@, TRUE) ELSE @]
    BY <1>2 DEF UsbPress
  <2>2. button.attached /\ button.presses < MaxPresses /\ UNCHANGED <<edge, usbMode>>
    BY <1>2 DEF UsbPress
  <2>3. usbMode
    BY <1>0, <2>2 DEF NoUsbWithoutUsb
  <2>4. /\ button' \in [pressed : BOOLEAN, presses : 0..MaxPresses, attached : BOOLEAN,
                        hid : BOOLEAN]
        /\ button'.attached /\ button'.hid = (button.hid \/ hid)
    <3>1. button.presses + 1 \in 0..MaxPresses /\ button.hid \in BOOLEAN
      BY <1>0, <2>2 DEF ButtonType
    <3>2. CASE button.hid \/ hid
      <4>1. button' = [button EXCEPT !.pressed = TRUE, !.presses = button.presses + 1,
                                     !.hid = TRUE]
        BY <2>1, <3>2
      <4> QED
        BY <1>0, <2>2, <3>1, <3>2, <4>1 DEF ButtonType
    <3>3. CASE ~button.hid /\ ~hid
      <4>1. button' = [button EXCEPT !.pressed = TRUE, !.presses = button.presses + 1,
                                     !.hid = FALSE]
        BY <2>1, <3>3
      <4> QED
        BY <1>0, <2>2, <3>1, <3>3, <4>1 DEF ButtonType
    <3> QED
      BY <3>2, <3>3
  <2>5. /\ pending' \in [{"Cdc", "Hid"} -> Seq(BOOLEAN)]
        /\ pending'["Hid"] = IF hid /\ ~button.hid THEN Append(pending["Hid"], TRUE)
                             ELSE pending["Hid"]
    BY <1>0, <2>1, LastOfAppend DEF ButtonType
  <2>6. pending'["Hid"] # << >> => pending'["Hid"][Len(pending'["Hid"])] = button'.hid
    <3>1. CASE hid /\ ~button.hid
      BY <1>0, <2>4, <2>5, <3>1, LastOfAppend
    <3>2. CASE ~(hid /\ ~button.hid)
      BY <1>0, <2>4, <2>5, <3>2 DEF HidEndsUp, ButtonType
    <3> QED
      BY <3>1, <3>2
  <2> QED
    BY <1>0, <2>2, <2>3, <2>4, <2>5, <2>6 DEF ButtonInv, ButtonType, HidEndsUp, NoUsbWithoutUsb
<1>3. CASE UsbRelease
  <2>1. PICK told \in BOOLEAN :
          /\ button' = [button EXCEPT !.pressed = FALSE, !.hid = @ /\ ~told]
          /\ pending' = IF told /\ button.attached
                        THEN [pending EXCEPT
                               !["Cdc"] = Append(@, FALSE),
                               !["Hid"] = IF button.hid THEN Append(@, FALSE) ELSE @]
                        ELSE pending
    BY <1>3 DEF UsbRelease
  <2>2. button.attached /\ usbMode /\ UNCHANGED <<edge, usbMode>>
    BY <1>0, <1>3 DEF UsbRelease, HidEndsUp, NoUsbWithoutUsb
  <2>3. /\ button' \in [pressed : BOOLEAN, presses : 0..MaxPresses, attached : BOOLEAN,
                        hid : BOOLEAN]
        /\ button'.attached /\ button'.hid = (button.hid /\ ~told)
    BY <1>0, <2>1, <2>2 DEF ButtonType
  <2>4. /\ pending' \in [{"Cdc", "Hid"} -> Seq(BOOLEAN)]
        /\ pending'["Hid"] = IF told /\ button.hid THEN Append(pending["Hid"], FALSE)
                             ELSE pending["Hid"]
    BY <1>0, <2>1, <2>2, LastOfAppend DEF ButtonType
  <2>5. pending'["Hid"] # << >> => pending'["Hid"][Len(pending'["Hid"])] = button'.hid
    <3>1. CASE told /\ button.hid
      BY <1>0, <2>3, <2>4, <3>1, LastOfAppend
    <3>2. CASE ~(told /\ button.hid)
      BY <1>0, <2>3, <2>4, <3>2 DEF HidEndsUp, ButtonType
    <3> QED
      BY <3>1, <3>2
  <2> QED
    BY <1>0, <2>2, <2>3, <2>4, <2>5 DEF ButtonInv, ButtonType, HidEndsUp, NoUsbWithoutUsb
<1>4. CASE RearmElapses
  BY <1>0, <1>4 DEF RearmElapses, ButtonInv, ButtonType, HidEndsUp, NoUsbWithoutUsb, Edges
<1>5. CASE UsbAttach
  BY <1>0, <1>5 DEF UsbAttach, ButtonInv, ButtonType, HidEndsUp, NoUsbWithoutUsb
<1>6. CASE UsbDetach
  <2>1. /\ button.attached /\ usbMode' = usbMode
        /\ button' = [button EXCEPT !.attached = FALSE, !.pressed = FALSE, !.hid = FALSE]
        /\ pending' = [pending EXCEPT
             !["Cdc"] = << >>,
             !["Hid"] = IF button.hid THEN Append(@, FALSE) ELSE @]
        /\ edge' = EdgeAfter(FALSE)
    BY <1>6 DEF UsbDetach, HandleNativeUSBButton
  <2>2. usbMode
    BY <1>0, <2>1 DEF NoUsbWithoutUsb
  <2>3. /\ button' \in [pressed : BOOLEAN, presses : 0..MaxPresses, attached : BOOLEAN,
                        hid : BOOLEAN]
        /\ ~button'.attached /\ ~button'.pressed /\ button'.hid = FALSE
    BY <1>0, <2>1 DEF ButtonType
  <2>4. /\ pending' \in [{"Cdc", "Hid"} -> Seq(BOOLEAN)]
        /\ pending'["Cdc"] = << >>
        /\ pending'["Hid"] = IF button.hid THEN Append(pending["Hid"], FALSE)
                             ELSE pending["Hid"]
    BY <1>0, <2>1, LastOfAppend, EmptySeq DEF ButtonType
  <2>5. pending'["Hid"] # << >> => pending'["Hid"][Len(pending'["Hid"])] = FALSE
    <3>1. CASE button.hid
      BY <1>0, <2>4, <3>1, LastOfAppend
    <3>2. CASE ~button.hid
      BY <1>0, <2>4, <3>2 DEF HidEndsUp, ButtonType
    <3> QED
      BY <3>1, <3>2
  <2> QED
    BY <1>1, <2>1, <2>2, <2>3, <2>4, <2>5
       DEF ButtonInv, ButtonType, HidEndsUp, NoUsbWithoutUsb
<1>7. ASSUME NEW interface \in {"Cdc", "Hid"}, UsbEdge(interface) PROVE ButtonInv'
  <2>1. /\ pending[interface] # << >>
        /\ pending' = [pending EXCEPT ![interface] = Tail(@)]
        /\ edge' = EdgeAfter(Head(pending[interface]))
        /\ UNCHANGED <<button, usbMode>>
    BY <1>7 DEF UsbEdge, HandleNativeUSBButton
  <2>2. pending[interface] \in Seq(BOOLEAN) /\ Head(pending[interface]) \in BOOLEAN
    BY <1>0, <2>1
  <2>3. pending' \in [{"Cdc", "Hid"} -> Seq(BOOLEAN)] /\ edge' \in Edges
    BY <1>0, <1>1, <2>1, <2>2, LastOfTail DEF ButtonType
  <2>4. usbMode
    BY <1>0, <2>1 DEF NoUsbWithoutUsb
  <2>5. CASE interface = "Cdc"
    <3>1. button.attached /\ pending'["Hid"] = pending["Hid"]
      BY <1>0, <2>1, <2>5 DEF HidEndsUp, ButtonType
    <3> QED
      BY <1>0, <2>1, <2>3, <2>4, <3>1 DEF ButtonInv, ButtonType, HidEndsUp, NoUsbWithoutUsb
  <2>6. CASE interface = "Hid"
    <3>1. pending'["Hid"] = Tail(pending["Hid"]) /\ pending'["Cdc"] = pending["Cdc"]
      BY <1>0, <2>1, <2>6 DEF ButtonType
    <3>2. /\ pending'["Hid"] # << >> => pending'["Hid"][Len(pending'["Hid"])] = button.hid
          /\ pending'["Hid"] = << >> => Head(pending["Hid"]) = button.hid
      BY <1>0, <2>1, <2>6, <3>1, LastOfTail DEF HidEndsUp
    <3>3. pending'["Hid"] = << >> => edge'.down = button.hid
      BY <1>1, <2>1, <2>2, <2>6, <3>2
    <3> QED
      BY <1>0, <2>1, <2>3, <2>4, <3>1, <3>2, <3>3
         DEF ButtonInv, ButtonType, HidEndsUp, NoUsbWithoutUsb
  <2> QED
    BY <2>5, <2>6
<1> QED
  BY <1>2, <1>3, <1>4, <1>5, <1>6, <1>7 DEF UsbStep

-----------------------------------------------------------------------------
(* The messages, whoever moves.                                            *)

(* A task that is posted: a control task only outside USB mode.            *)
LEMMA PostKeeps ==
  ASSUME MessagesInv, NEW task \in Task, Post(task),
         usbMode => task.kind # "Control"
  PROVE  /\ tasks' \in Seq(Task)
         /\ usbMode => \A k \in DOMAIN tasks' : tasks'[k].kind # "Control"
<1>1. tasks \in Seq(Task) /\ tasks' = Append(tasks, task)
  BY DEF MessagesInv, MessagesType, Post
<1>2. tasks' \in Seq(Task) /\ DOMAIN tasks' = 1..(Len(tasks) + 1)
  BY <1>1
<1>3. \A k \in DOMAIN tasks' : tasks'[k] = IF k <= Len(tasks) THEN tasks[k] ELSE task
  BY <1>1, <1>2
<1>4. \A k \in DOMAIN tasks' : k <= Len(tasks) => k \in DOMAIN tasks
  BY <1>1, <1>2
<1> QED
  BY <1>2, <1>3, <1>4 DEF MessagesInv, Quiet

(* A task that is taken.                                                   *)
LEMMA TakeKeeps ==
  ASSUME MessagesInv, tasks # << >>, tasks' = Tail(tasks)
  PROVE  /\ Head(tasks) \in Task
         /\ usbMode => Head(tasks).kind # "Control"
         /\ tasks' \in Seq(Task)
         /\ usbMode => \A k \in DOMAIN tasks' : tasks'[k].kind # "Control"
<1>1. tasks \in Seq(Task) /\ Len(tasks) \in Nat \ {0}
  BY DEF MessagesInv, MessagesType
<1>2. Head(tasks) = tasks[1] /\ 1 \in DOMAIN tasks
  BY <1>1
<1>3. tasks' \in Seq(Task) /\ \A k \in DOMAIN tasks' : tasks'[k] = tasks[k + 1]
                                                      /\ k + 1 \in DOMAIN tasks
  BY <1>1
<1> QED
  BY <1>1, <1>2, <1>3 DEF MessagesInv, Quiet

(* The device numbers a message, and its copies go out.                    *)
LEMMA SendKeeps ==
  ASSUME MessagesInv, NEW kind \in MessageKinds, NEW copies \in SUBSET Radios,
         DeviceSends(kind, copies)
  PROVE  MessagesInv'
<1>1. /\ msgs' = Append(msgs, kind) /\ Len(msgs) < MaxMessages /\ ~usbMode /\ usbMode' = usbMode
      /\ wire' = [r \in Radios |-> IF r \in copies THEN Append(wire[r], Len(msgs) + 1)
                                   ELSE wire[r]]
      /\ UNCHANGED <<linkUp, changes, tasks, inboxVars, starting, acted>>
  BY DEF DeviceSends
<1>2. msgs' \in Seq(MessageKinds) /\ Len(msgs') <= MaxMessages /\ Len(msgs) + 1 \in Seqs
  BY <1>1 DEF MessagesInv, MessagesType, Seqs
<1>3. wire' \in [Radios -> Seq(Seqs)]
  BY <1>1, <1>2 DEF MessagesInv, MessagesType
<1> QED
  BY <1>1, <1>2, <1>3 DEF MessagesInv, MessagesType, Quiet, Remembered, MirroredOnce, inboxVars

(* A message arrives on a radio.                                           *)
LEMMA ArrivalKeeps ==
  ASSUME MessagesInv, NEW radio \in Radios, Arrives(radio)
  PROVE  MessagesInv'
<1>1. /\ wire[radio] # << >> /\ wire' = [wire EXCEPT ![radio] = Tail(@)]
      /\ UNCHANGED <<usbMode, msgs, linkUp, changes, linkState, guard, seen, liveness,
                     starting, acted>>
  BY DEF Arrives
<1>2. ~usbMode
  BY <1>1 DEF MessagesInv, Quiet
<1>3. wire[radio] \in Seq(Seqs) /\ Head(wire[radio]) \in Seqs /\ Tail(wire[radio]) \in Seq(Seqs)
  BY <1>1 DEF MessagesInv, MessagesType
<1>4. wire' \in [Radios -> Seq(Seqs)]
  BY <1>1, <1>3 DEF MessagesInv, MessagesType
<1>5. bleValue' \in 0..MaxMessages
  BY <1>3 DEF Arrives, MessagesInv, MessagesType, Seqs
<1>6. PICK task \in Task : Post(task)
  BY <1>3 DEF Arrives, Task
<1>7. tasks' \in Seq(Task)
  BY <1>2, <1>6, PostKeeps
<1> QED
  BY <1>1, <1>2, <1>4, <1>5, <1>7 DEF MessagesInv, MessagesType, Quiet, Remembered, MirroredOnce

(* A link changes.                                                         *)
LEMMA LinkKeeps ==
  ASSUME MessagesInv, NEW radio \in Radios, LinkMoves(radio)
  PROVE  MessagesInv'
<1>1. /\ changes < MaxChanges /\ changes' = changes + 1
      /\ linkUp' = [linkUp EXCEPT ![radio] = ~@]
      /\ wire' = [wire EXCEPT ![radio] = << >>]
      /\ UNCHANGED <<usbMode, msgs, inboxVars, starting, acted>>
  BY DEF LinkMoves
<1>2. PICK task \in Task : Post(task) /\ task.kind # "Control"
  BY DEF LinkMoves, LinkTask, NetworkTask, Task
<1>3. /\ tasks' \in Seq(Task)
      /\ usbMode => \A k \in DOMAIN tasks' : tasks'[k].kind # "Control"
  BY <1>2, PostKeeps
<1>4. linkUp' \in [Radios -> BOOLEAN] /\ changes' \in 0..MaxChanges
  BY <1>1 DEF MessagesInv, MessagesType
<1>5. wire' \in [Radios -> Seq(Seqs)] /\ (usbMode => \A r \in Radios : wire'[r] = << >>)
  BY <1>1, EmptySeq DEF MessagesInv, MessagesType, Quiet
<1> QED
  BY <1>1, <1>3, <1>4, <1>5
     DEF MessagesInv, MessagesType, Quiet, Remembered, MirroredOnce, inboxVars

(* A control message the main actor has read.                              *)
LEMMA ControlKeeps ==
  ASSUME MessagesInv, ~usbMode, NEW radio \in Radios, NEW n \in 0..MaxMessages,
         HandleControl(radio, n)
  PROVE  /\ guard' \in [Radios -> 0..MaxMessages] /\ seen' \subseteq Seqs
         /\ liveness' \in {"Unset", "Fresh", "Expired"}
         /\ starting' \in Radios \cup {NoSource}
         /\ acted' \in Seq(Seqs) /\ Remembered'
<1> DEFINE acts == Accepted(radio, n) /\ IsNew(n)
<1>1. /\ guard' = IF Accepted(radio, n) THEN [guard EXCEPT ![radio] = n] ELSE guard
      /\ seen' = IF acts THEN seen \cup {n} ELSE seen
      /\ acted' = IF acts THEN Append(acted, n) ELSE acted
      /\ liveness' \in {"Fresh", liveness}
      /\ starting' \in {"Wifi", "Ble", NoSource}
  BY DEF HandleControl
<1>2. /\ guard \in [Radios -> 0..MaxMessages] /\ seen \subseteq Seqs /\ acted \in Seq(Seqs)
      /\ liveness \in {"Unset", "Fresh", "Expired"}
      /\ \A i, j \in DOMAIN acted : acted[i] = acted[j] => i = j
      /\ \A i \in DOMAIN acted : acted[i] \in seen
  BY DEF MessagesInv, MessagesType, Remembered, MirroredOnce
<1>3. guard' \in [Radios -> 0..MaxMessages]
  BY <1>1, <1>2
<1>4. CASE acts
  <2>1. n \in Seqs /\ n \notin seen
    BY <1>2, <1>4 DEF Accepted, IsNew, Seqs
  <2>2. acted' = Append(acted, n) /\ seen' = seen \cup {n}
    BY <1>1, <1>4
  <2>3. acted' \in Seq(Seqs) /\ DOMAIN acted' = 1..(Len(acted) + 1)
    BY <1>2, <2>1, <2>2
  <2>4. \A i \in DOMAIN acted' : /\ i # Len(acted) + 1 => i \in DOMAIN acted
                                 /\ acted'[i] = IF i = Len(acted) + 1 THEN n ELSE acted[i]
    BY <1>2, <2>1, <2>2, <2>3
  <2>5. Remembered'
    BY <1>2, <2>1, <2>2, <2>4 DEF Remembered, MirroredOnce
  <2> QED
    BY <1>1, <1>2, <1>3, <2>1, <2>2, <2>3, <2>5
<1>5. CASE ~acts
  <2>1. acted' = acted /\ seen' = seen
    BY <1>1, <1>5
  <2> QED
    BY <1>1, <1>2, <1>3, <2>1 DEF Remembered, MirroredOnce
<1> QED
  BY <1>4, <1>5

(* A task of the main actor.                                               *)
LEMMA TaskKeeps ==
  ASSUME MessagesInv, RunTask
  PROVE  MessagesInv'
<1>1. PICK task : task = Head(tasks)
  OBVIOUS
<1>2. tasks # << >> /\ tasks' = Tail(tasks) /\ UNCHANGED <<deviceVars, bleValue>>
  BY DEF RunTask
<1>3. /\ task \in Task /\ (usbMode => task.kind # "Control")
      /\ tasks' \in Seq(Task)
      /\ usbMode => \A k \in DOMAIN tasks' : tasks'[k].kind # "Control"
  BY <1>1, <1>2, TakeKeeps
<1>4. task.radio \in Radios
  BY <1>3 DEF Task
<1>5. CASE task.kind = "Control"
  <2>1. PICK n \in 0..MaxMessages : n = IF task.radio = "Ble" THEN bleValue ELSE task.seq
    <3>1. task.radio # "Ble" => task.seq \in 1..MaxMessages
      BY <1>3, <1>5 DEF Task, Seqs
    <3>2. bleValue \in 0..MaxMessages
      BY DEF MessagesInv, MessagesType
    <3>3. PICK n : n = IF task.radio = "Ble" THEN bleValue ELSE task.seq
      OBVIOUS
    <3> QED
      BY <3>1, <3>2, <3>3
  <2>2. HandleControl(task.radio, n) /\ linkState' = linkState
    BY <1>1, <1>5, <2>1 DEF RunTask
  <2>3. ~usbMode
    BY <1>3, <1>5
  <2>4. /\ guard' \in [Radios -> 0..MaxMessages] /\ seen' \subseteq Seqs
        /\ liveness' \in {"Unset", "Fresh", "Expired"}
        /\ starting' \in Radios \cup {NoSource}
        /\ acted' \in Seq(Seqs) /\ Remembered'
    BY <1>4, <2>1, <2>2, <2>3, ControlKeeps
  <2> QED
    BY <1>2, <1>3, <2>2, <2>3, <2>4 DEF MessagesInv, MessagesType, Quiet, deviceVars
<1>6. CASE task.kind # "Control"
  <2>1. HandleLink(task)
    BY <1>1, <1>6 DEF RunTask
  <2>2. /\ linkState' = IF task.kind = "SinkFailed" THEN linkState
                        ELSE [linkState EXCEPT ![task.radio] = (task.kind = "LinkUp")]
        /\ guard' = IF task.kind = "LinkUp" THEN [guard EXCEPT ![task.radio] = 0] ELSE guard
        /\ liveness' \in {"Fresh", "Unset", liveness}
        /\ UNCHANGED <<seen, starting, acted>>
    BY <2>1 DEF HandleLink
  <2>3. linkState' \in [Radios -> BOOLEAN] /\ guard' \in [Radios -> 0..MaxMessages]
    BY <1>4, <2>2 DEF MessagesInv, MessagesType
  <2> QED
    BY <1>2, <1>3, <2>2, <2>3
       DEF MessagesInv, MessagesType, Quiet, Remembered, MirroredOnce, deviceVars
<1> QED
  BY <1>5, <1>6

(* The messages, in every step.                                            *)
LEMMA MessagesKept ==
  ASSUME VoiceInv, Next
  PROVE  MessagesInv'
<1>0. MessagesInv
  BY DEF VoiceInv
<1> USE DEF MessagesInv, MessagesType, Quiet, Remembered, MirroredOnce, deviceVars, inboxVars
<1>1. ASSUME NEW kind \in MessageKinds, NEW copies \in SUBSET Radios, DeviceSends(kind, copies)
      PROVE  MessagesInv'
  BY <1>0, <1>1, SendKeeps, Zenon
<1>2. ASSUME NEW radio \in Radios, Arrives(radio) \/ LinkMoves(radio) PROVE MessagesInv'
  BY <1>0, <1>2, ArrivalKeeps, LinkKeeps, Zenon
<1>3. CASE SinkFails
  <2>1. /\ NetworkTask("SinkFailed", "Wifi") \in Task
        /\ NetworkTask("SinkFailed", "Wifi").kind # "Control"
    BY DEF NetworkTask, Task
  <2>2. Post(NetworkTask("SinkFailed", "Wifi")) /\ UNCHANGED <<deviceVars, inboxVars, starting, acted>>
    BY <1>3 DEF SinkFails
  <2>3. /\ tasks' \in Seq(Task)
        /\ usbMode => \A k \in DOMAIN tasks' : tasks'[k].kind # "Control"
    BY <1>0, <2>1, <2>2, PostKeeps, Zenon
  <2> QED
    BY <1>0, <2>2, <2>3
<1>4. CASE GatewayDrains \/ PeerHeard \/ PeerSilent \/ LivenessTick
  BY <1>0, <1>4 DEF GatewayDrains, PeerHeard, PeerSilent, LivenessTick
<1>5. CASE RunTask
  BY <1>0, <1>5, TaskKeeps, Zenon
<1>6. CASE StartVoice
  BY <1>0, <1>6 DEF StartVoice
<1>7. ASSUME NEW work \in {"Current", "Superseded"}, CleanupRuns(work) PROVE MessagesInv'
  BY <1>0, <1>7 DEF CleanupRuns
<1>8. CASE Stop
  <2>1. /\ linkState' = [r \in Radios |-> FALSE] /\ linkUp' = [r \in Radios |-> FALSE]
        /\ wire' = [r \in Radios |-> << >>] /\ tasks' = << >>
        /\ UNCHANGED <<usbMode, msgs, changes, bleValue, guard, seen, liveness, starting, acted>>
    BY <1>8 DEF Stop
  <2>2. linkState' \in [Radios -> BOOLEAN] /\ linkUp' \in [Radios -> BOOLEAN]
    BY <2>1
  <2>3. /\ wire' \in [Radios -> Seq(Seqs)] /\ (usbMode => \A r \in Radios : wire'[r] = << >>)
        /\ tasks' \in Seq(Task) /\ DOMAIN tasks' = {}
    BY <2>1, EmptySeq
  <2> QED
    BY <1>0, <2>1, <2>2, <2>3
<1>9. CASE UsbStep
  <2>1. UNCHANGED <<usbFrame>>
    BY <1>9, UsbOutcome
  <2> QED
    BY <1>0, <2>1 DEF usbFrame
<1> QED
  BY <1>1, <1>2, <1>3, <1>4, <1>5, <1>6, <1>7, <1>8, <1>9, Zenon DEF Next, UsbStep

(* The main actor leaves the button alone; stop forgets its edges.         *)
LEMMA ActorKeepsButton ==
  ASSUME VoiceInv, ActorStep
  PROVE  ButtonInv' /\ EdgeInv'
<1>1. /\ UNCHANGED <<button, pending, usbMode>>
      /\ edge' = edge \/ edge' = [down |-> FALSE, suppressing |-> FALSE, rearming |-> FALSE]
  BY DEF ActorStep, RunTask, StartVoice, CleanupRuns, LivenessTick, Stop, usbVars, deviceVars
<1>2. edge' = edge \/ Gone
  <2>1. CASE Stop
    BY <2>1, CancelReturns, InputRestored DEF Stop, VoiceInv, SessionInv, Gone, Superseded
  <2>2. CASE ~Stop
    BY <2>2 DEF ActorStep, RunTask, StartVoice, CleanupRuns, LivenessTick, usbVars
  <2> QED
    BY <2>1, <2>2
<1>3. ActorOutcome
  BY ActorOutcomes
<1>4. ButtonInv'
  <2>1. CASE edge' = edge
    BY <1>1, <2>1 DEF VoiceInv, ButtonInv, ButtonType, HidEndsUp, NoUsbWithoutUsb
  <2>2. CASE edge' = [down |-> FALSE, suppressing |-> FALSE, rearming |-> FALSE]
    <3>1. edge' \in Edges /\ edge'.down = FALSE
      BY <2>2 DEF Edges
    <3> QED
      BY <1>1, <3>1 DEF VoiceInv, ButtonInv, ButtonType, HidEndsUp, NoUsbWithoutUsb
  <2> QED
    BY <1>1, <2>1, <2>2
<1>5. CASE Gone
  BY <1>4, <1>5 DEF Gone, EdgeInv, UsbSessionMatchesButton, NoLateRelease, PTTInit
<1>6. CASE edge' = edge
  <2>1. source' = "Usb" => source = "Usb"
    BY <1>3 DEF ActorOutcome, Gone, Opened, Closed, Cleaned, Kept
  <2>2. usbMode /\ ptt'.state = "Finishing" => ptt.state = "Finishing"
    BY <1>3 DEF ActorOutcome, Gone, Opened, Closed, Cleaned, Kept, PTTInit
  <2> QED
    BY <1>1, <1>4, <1>6, <2>1, <2>2
       DEF VoiceInv, EdgeInv, UsbSessionMatchesButton, NoLateRelease
<1> QED
  BY <1>2, <1>4, <1>5, <1>6

-----------------------------------------------------------------------------
(* Every step is one of the five outcomes ...                              *)
LEMMA StepOutcome ==
  ASSUME VoiceInv, Next
  PROVE  /\ Outcome
         /\ started' = started \/ (~started' /\ Gone)
         /\ started' \in BOOLEAN /\ usbMode' = usbMode
<1>1. CASE RadioStep
  BY <1>1, RadioOutcome DEF Outcome, VoiceInv, SessionInv
<1>2. CASE ActorStep
  BY <1>2, ActorOutcomes DEF ActorOutcome, Outcome, SourcesNow
<1>3. CASE UsbStep
  BY <1>3, UsbOutcome DEF Outcome, SourcesNow, usbFrame, deviceVars, VoiceInv, SessionInv
<1> QED
  BY <1>1, <1>2, <1>3 DEF Next, RadioStep, ActorStep, UsbStep

(* ... so the invariant holds at first, and every step keeps it.           *)
LEMMA InitInv == Init => VoiceInv
<1> SUFFICES ASSUME Init PROVE VoiceInv
  OBVIOUS
<1>1. SessionInv
  BY InitReturnable DEF Init, SessionInv, GatewayFollowsSession, PTTInit, InputMemory
<1>2. MessagesInv
  BY EmptySeq DEF Init, MessagesInv, MessagesType, Quiet, Remembered, MirroredOnce
<1>3. ButtonInv
  BY EmptySeq DEF Init, ButtonInv, ButtonType, HidEndsUp, NoUsbWithoutUsb, Edges
<1>4. EdgeInv
  BY DEF Init, EdgeInv, UsbSessionMatchesButton, NoLateRelease, PTTInit
<1> QED
  BY <1>1, <1>2, <1>3, <1>4 DEF VoiceInv

(* Every step keeps the invariant.                                         *)
LEMMA StepInv == VoiceInv /\ [Next]_vars => VoiceInv'
<1> SUFFICES ASSUME VoiceInv, [Next]_vars PROVE VoiceInv'
  OBVIOUS
<1>1. CASE Next
  <2>1. SessionInv'
    BY <1>1, StepOutcome, OutcomeKeepsInv DEF VoiceInv
  <2>2. MessagesInv'
    BY <1>1, MessagesKept
  <2>3. CASE RadioStep
    <3>1. Kept /\ UNCHANGED <<usbMode, usbVars>>
      BY <2>3, RadioOutcome
    <3>2. ButtonInv' /\ EdgeInv'
      BY <3>1 DEF Kept, usbVars, VoiceInv, ButtonInv, ButtonType, HidEndsUp, NoUsbWithoutUsb,
                  Edges, EdgeInv, UsbSessionMatchesButton, NoLateRelease
    <3> QED
      BY <2>1, <2>2, <3>2 DEF VoiceInv
  <2>4. CASE ActorStep
    BY <2>1, <2>2, <2>4, ActorKeepsButton DEF VoiceInv
  <2>5. CASE UsbStep
    BY <2>1, <2>2, <2>5, ButtonKept, UsbOutcome DEF VoiceInv
  <2> QED
    BY <1>1, <2>3, <2>4, <2>5 DEF Next, RadioStep, ActorStep, UsbStep
<1>2. CASE UNCHANGED vars
  <2>1. UNCHANGED <<deviceVars, usbVars, tasks, inboxVars, starting, sessionVars, gateway,
                    started, acted>>
    BY <1>2 DEF vars
  <2>2. SessionInv'
    BY <2>1 DEF VoiceInv, SessionInv, SourcesNow, deviceVars, sessionVars, GatewayFollowsSession
  <2>3. MessagesInv'
    BY <2>1 DEF VoiceInv, MessagesInv, MessagesType, Quiet, Remembered, MirroredOnce,
                deviceVars, inboxVars
  <2>4. ButtonInv' /\ EdgeInv'
    BY <2>1 DEF VoiceInv, ButtonInv, ButtonType, HidEndsUp, NoUsbWithoutUsb, Edges, EdgeInv,
                UsbSessionMatchesButton, NoLateRelease, usbVars, deviceVars, sessionVars
  <2> QED
    BY <2>2, <2>3, <2>4 DEF VoiceInv
<1> QED
  BY <1>1, <1>2

(* The invariant holds in every state.                                     *)
LEMMA Invariant == Spec => []VoiceInv
  BY InitInv, StepInv, PTL DEF Spec

-----------------------------------------------------------------------------
(* Every variable keeps its type.                                          *)
THEOREM VoiceTypeCorrect == Spec => []VoiceTypeOK
<1>1. VoiceInv => VoiceTypeOK
  BY DEF VoiceInv, SessionInv, Returnable, MessagesInv, MessagesType, ButtonInv, ButtonType,
         VoiceTypeOK, SourcesNow
<1> QED
  BY <1>1, Invariant, PTL

(* CompanionService and PTTController agree on the active session: no      *)
(* release or submit is judged by the stale state of the other.            *)
THEOREM SessionsAlwaysAgree == Spec => []SessionsAgree
<1>1. VoiceInv => SessionsAgree
  BY DEF VoiceInv, SessionInv, Returnable, SessionsAgree
<1> QED
  BY <1>1, Invariant, PTL

(* The saved device is the user's own whenever another one is selected:    *)
(* no mixture of presses, failures and cleanups loses it.                  *)
THEOREM AlwaysReturnable == Spec => []BorrowedIsReturnable
<1>1. VoiceInv => BorrowedIsReturnable
  BY DEF VoiceInv, SessionInv, Returnable, BorrowedIsReturnable, PTT, PTTStates
<1> QED
  BY <1>1, Invariant, PTL

(* The cleanup of a finishing session is scheduled, in the generation that *)
(* counts, so the session cannot be stranded.                              *)
THEOREM AlwaysScheduled == Spec => []FinishingIsScheduled
<1>1. VoiceInv => FinishingIsScheduled
  BY DEF VoiceInv, SessionInv, FinishingIsScheduled
<1> QED
  BY <1>1, Invariant, PTL

(* The gateway is open for a Wi-Fi session only, although another queue    *)
(* reconfigures it under the main actor.                                   *)
THEOREM GatewayAlwaysFollows == Spec => []GatewayFollowsSession
<1>1. VoiceInv => GatewayFollowsSession
  BY DEF VoiceInv, SessionInv
<1> QED
  BY <1>1, Invariant, PTL

(* No message is acted on twice, whichever radios brought it and however   *)
(* often they reconnected.                                                 *)
THEOREM AlwaysMirroredOnce == Spec => []MirroredOnce
<1>1. VoiceInv => MirroredOnce
  BY DEF VoiceInv, MessagesInv, Remembered
<1> QED
  BY <1>1, Invariant, PTL

(* A USB session lives in a press that the deduplicator let through.       *)
THEOREM UsbSessionAlwaysMatches == Spec => []UsbSessionMatchesButton
<1>1. VoiceInv => UsbSessionMatchesButton
  BY DEF VoiceInv, EdgeInv
<1> QED
  BY <1>1, Invariant, PTL

(* With the cable out and its edges read, neither session nor key is left. *)
THEOREM AlwaysUnpluggedReleases == Spec => []UnpluggedReleases
<1>1. VoiceInv => UnpluggedReleases
  <2> SUFFICES ASSUME VoiceInv, usbMode, ~button.attached, pending["Hid"] = << >>
               PROVE  source = NoSource /\ ~ptt.held
    BY DEF UnpluggedReleases
  <2>1. ~edge.down
    BY DEF VoiceInv, ButtonInv, HidEndsUp
  <2>2. source = NoSource
    BY <2>1 DEF VoiceInv, EdgeInv, UsbSessionMatchesButton, SessionInv, SourcesNow
  <2>3. ptt.state # "Active" /\ Returnable(ptt)
    BY <2>2 DEF VoiceInv, SessionInv
  <2> QED
    BY <2>2, <2>3 DEF Returnable
<1> QED
  BY <1>1, Invariant, PTL

(* While a session stays active, nothing moves the microphone or the input *)
(* source: neither the cleanup of an earlier session nor a late edge.      *)
THEOREM NeverDisturbed == Spec => SessionUndisturbed
<1>1. VoiceInv /\ [Next]_vars
      => [ptt.state = "Active" /\ ptt'.state = "Active"
          => ptt'.mic = ptt.mic /\ input'.current = input.current]_vars
  <2> SUFFICES ASSUME VoiceInv, Next, ptt.state = "Active", ptt'.state = "Active"
               PROVE  ptt'.mic = ptt.mic /\ input'.current = input.current
    OBVIOUS
  <2>1. Outcome
    BY StepOutcome
  <2>2. "Current" \notin deferred
    BY DEF VoiceInv, SessionInv
  <2> QED
    BY <2>1, <2>2 DEF Outcome, Gone, Opened, Closed, Cleaned, Kept, PTTInit
<1> QED
  BY <1>1, Invariant, PTL DEF Spec, SessionUndisturbed

(* The safety part of BorrowsAndReturns: every step of the service opens,  *)
(* closes or returns what BorrowedVoice lends, or changes none of it.      *)
BorrowingSafely == Borrowing!Init /\ [][Borrowing!Next]_(Borrowing!vars)

(* The service implements the safety of BorrowedVoice for all bounds.      *)
THEOREM ImplementsBorrowing == Spec => BorrowingSafely
<1>1. Init => Borrowing!Init
  BY DEF Init, Borrowing!Init, SessionView, PTTInit
<1>2. VoiceInv /\ [Next]_vars => [Borrowing!Next]_(Borrowing!vars)
  <2> SUFFICES ASSUME VoiceInv, [Next]_vars
               PROVE  Borrowing!Next \/ UNCHANGED Borrowing!vars
    OBVIOUS
  <2> USE DEF Borrowing!Next, Borrowing!vars, Borrowing!Open, Borrowing!Close,
              Borrowing!Return, SessionView
  <2>1. /\ Returnable(ptt) /\ ptt.held \in BOOLEAN
        /\ ptt.state \in {"Idle", "Active", "Finishing"}
    BY DEF VoiceInv, SessionInv, Returnable, PTT, PTTStates
  <2>2. CASE Gone \/ Cleaned
    <3>1. ptt' = PTTInit
      BY <2>2 DEF Gone, Cleaned
    <3>2. CASE ptt.state = "Idle"
      BY <2>1, <3>1, <3>2, IdleIsInit
    <3>3. CASE ptt.state # "Idle"
      BY <2>1, <3>1, <3>3 DEF PTTInit
    <3> QED
      BY <3>2, <3>3
  <2>3. ASSUME NEW src, Opened(src) PROVE Borrowing!Next
    BY <2>1, <2>3 DEF Opened, Returnable, PTT
  <2>4. CASE Closed
    BY <2>4 DEF Closed
  <2>5. CASE Kept \/ UNCHANGED vars
    BY <2>5 DEF Kept, vars, sessionVars
  <2> QED
    BY <2>2, <2>3, <2>4, <2>5, StepOutcome DEF Outcome
<1> QED
  BY <1>1, <1>2, Invariant, PTL DEF Spec, BorrowingSafely
=============================================================================
