------------------------ MODULE WirelessVoiceProofs ------------------------
(***************************************************************************)
(* For all times that keep the order of the code's: nothing that the       *)
(* microphone hears leaves the device without an owner, a session keeps    *)
(* the microphone, is given up when its route stays away, and finds the    *)
(* modem awake unless the driver refused to wake it.                       *)
(*                                                                         *)
(* The argument is about time.  A tail that is over is carried out before  *)
(* time goes on, unless the capture task waits for a note; and a note that *)
(* it waits for began before the tail did.  So what is left of a tail is   *)
(* over within a hold (TailInv), and the modem is kept awake for longer    *)
(* than the tail itself (AwakeInv).  The loss of a route is seen in the    *)
(* iteration after it happened (LossInv).                                  *)
(***************************************************************************)
EXTENDS WirelessVoice, TLAPS

(* The three records.                                                      *)
Routers == [route : Routes, held : BOOLEAN, loss : 0..Grace + 1]
Streams == [on : BOOLEAN, stop : 0..Hold \cup {Never}]
Powers == [on : BOOLEAN, release : 0..RealtimeTail \cup {Never}, failed : BOOLEAN]
Awake == power.on \/ power.failed

(* The stream is on for somebody and goes somewhere, and the capture task  *)
(* that is about to send read its frame from a stream that is on.          *)
OwnedInv ==
  /\ stream.on => owner # "None" /\ router.route # "None"
  /\ ~stream.on => stream.stop = Never
  /\ cap = "sending" /\ router.route # "None" => stream.on

(* A tail, counted against the press that follows it.                      *)
TailInv ==
  /\ stream.stop # Never => stream.stop <= Tail
  /\ stream.stop # Never /\ press = "Pressed" =>
       /\ age + stream.stop <= Tail \/ (stream.stop = 0 /\ age <= NoteTime)
       /\ tone = "note" => age <= noteAge
  /\ cap = "expired" /\ press = "Pressed" => age < Hold
  /\ press = "Held" => stream.stop = Never
  /\ SessionKeepsMicrophone

(* The route of a session that selected it.                                *)
RouteInv ==
  owner \in {"PreRoll", "Session"} /\ fresh /\ router.route # "None" =>
    router.held /\ (router.route = "Wifi" => Awake /\ power.release = Never)

(* The ticks without a route and those that the router has counted: from   *)
(* its check on it has them all, before the check all but the last.        *)
LossInv ==
  /\ owner = "PreRoll" => dark = 0
  /\ dark > 0 => ~Available(router.route)
  /\ owner = "Session" /\ fresh =>
       /\ dark <= 1 \/ dark <= router.loss
       /\ pc \in {"button", "idle"} => dark <= router.loss /\ dark <= Grace

(* The modem outlasts the tail.                                            *)
AwakeInv ==
  stream.on /\ fresh /\ router.route = "Wifi" /\ owner = "Tail" =>
    /\ stream.stop # Never
    /\ stream.stop # 0 => Awake /\ power.release \in stream.stop + 1..RealtimeTail

VoiceInv == OwnedInv /\ TailInv /\ RouteInv /\ LossInv /\ AwakeInv

-----------------------------------------------------------------------------
(* The order of the times, spelled out.                                    *)
LEMMA Times ==
  /\ Tail \in Nat /\ RealtimeTail \in Nat /\ Hold \in Nat /\ Grace \in Nat /\ NoteTime \in Nat
  /\ 0 < Tail /\ Tail < RealtimeTail /\ RealtimeTail < Hold /\ Hold < Grace
  /\ 0 < NoteTime /\ Tail + NoteTime <= Hold
  /\ Never \in Nat /\ Grace < Never
<1>1. /\ Tail \in Nat \ {0} /\ RealtimeTail \in Nat \ {0} /\ Hold \in Nat \ {0}
      /\ Grace \in Nat \ {0} /\ NoteTime \in Nat \ {0}
  BY TimesAssumption
<1>2. /\ Tail < RealtimeTail /\ RealtimeTail < Hold /\ Hold < Grace
      /\ Tail + NoteTime <= Hold
  BY TimesAssumption
<1> QED
  BY <1>1, <1>2 DEF Never

(* What the fields of a record range over.                                 *)
LEMMA Fields ==
  /\ \A r \in Routers : r.route \in Routes /\ r.held \in BOOLEAN /\ r.loss \in 0..Grace + 1
  /\ \A s \in Streams : s.on \in BOOLEAN /\ s.stop \in 0..Hold \cup {Never}
  /\ \A p \in Powers :
       /\ p.on \in BOOLEAN /\ p.release \in 0..RealtimeTail \cup {Never}
       /\ p.failed \in BOOLEAN
  BY DEF Routers, Streams, Powers

(* The type invariant in two parts: what the voice handlers change, and    *)
(* the rest.                                                               *)
VoiceTypes ==
  /\ router \in Routers /\ stream \in Streams /\ power \in Powers
  /\ fresh \in BOOLEAN /\ owner \in {"None", "PreRoll", "Session", "Tail"}
  /\ dark \in 0..Grace + 2 /\ behind \in 0..2

TaskTypes ==
  /\ wifi \in {"Down", "Control", "Audio"} /\ ble \in BOOLEAN
  /\ pc \in {"idle", "links", "route", "button"}
  /\ linked \in BOOLEAN /\ connected \in BOOLEAN /\ quiet \in BOOLEAN
  /\ press \in {"Up", "Pressed", "Held"} /\ age \in 0..Hold
  /\ armed \in BOOLEAN /\ window \in BOOLEAN
  /\ cap \in {"idle", "expired", "waiting", "sending"}
  /\ tone \in {"idle", "note"}
  /\ noteAge \in 0..NoteTime

(* The type invariant in two parts, the voice and the tasks.               *)
LEMMA TypesSplit == WirelessTypeOK <=> VoiceTypes /\ TaskTypes
  BY DEF WirelessTypeOK, VoiceTypes, TaskTypes, Routers, Streams, Powers

(* The records that the handlers make.                                     *)
LEMMA Records ==
  /\ NoRoute \in Routers /\ Silent \in Streams /\ Asleep \in Powers
  /\ Begun \in Routers
  /\ [on |-> TRUE, stop |-> Never] \in Streams
  BY Times DEF Routers, Streams, Powers, NoRoute, Silent, Asleep, Begun, Chosen, Routes

(* What an assignment to one field of the router makes of it.              *)
LEMMA RouterSteps ==
  ASSUME router \in Routers
  PROVE  /\ Finished.route = router.route /\ Finished.held = FALSE
         /\ Finished \in Routers
         /\ \A n \in 0..Grace + 1 :
              /\ [router EXCEPT !.loss = n] = [route |-> router.route, held |-> router.held, loss |-> n]
              /\ [router EXCEPT !.loss = n] \in Routers
         /\ LossSeen \in Routers
         /\ LossSeen.route = router.route /\ LossSeen.held = router.held
         /\ router.held /\ ~Available(router.route) =>
              LossSeen.loss >= 1 /\ LossSeen.loss >= router.loss
<1>1. Finished.route = router.route /\ Finished.held = FALSE
  BY DEF Routers, Finished
<1>2. Finished \in Routers
  <2>1. \A r \in Routers : [r EXCEPT !.held = FALSE] \in Routers
    BY DEF Routers
  <2>2. \A r \in Routers : [r EXCEPT !.loss = 0] \in Routers
    BY Times DEF Routers
  <2> HIDE DEF Routers
  <2> QED
    BY <2>1, <2>2 DEF Finished
<1>3. ASSUME NEW n \in 0..Grace + 1
      PROVE  /\ [router EXCEPT !.loss = n] = [route |-> router.route, held |-> router.held, loss |-> n]
             /\ [router EXCEPT !.loss = n] \in Routers
  BY DEF Routers
<1>4. router.loss \in 0..Grace + 1 /\ 0 \in 0..Grace + 1 /\ 1 \in 0..Grace + 1
  BY Times, Fields
<1>5. CASE ~router.held \/ Available(router.route)
  BY <1>1, <1>2, <1>3, <1>4, <1>5 DEF LossSeen
<1>6. CASE router.held /\ ~Available(router.route)
  <2> DEFINE n == IF router.loss = 0 THEN 1 ELSE router.loss
  <2>1. n \in 0..Grace + 1 /\ n >= 1 /\ n >= router.loss
    BY <1>4, Times
  <2>2. LossSeen = [router EXCEPT !.loss = n]
    BY <1>6 DEF LossSeen
  <2> HIDE DEF n
  <2> QED
    BY <1>1, <1>2, <1>3, <1>6, <2>1, <2>2
<1> QED
  BY <1>5, <1>6

(* The same for the stream.                                                *)
LEMMA StreamSteps ==
  ASSUME stream \in Streams, NEW n \in 0..Hold \cup {Never}
  PROVE  /\ [stream EXCEPT !.stop = n] = [on |-> stream.on, stop |-> n]
         /\ [stream EXCEPT !.stop = n] \in Streams
  BY DEF Streams

(* The same for the power save.                                            *)
LEMMA PowerSteps ==
  ASSUME power \in Powers, NEW n \in 0..RealtimeTail \cup {Never}
  PROVE  /\ [power EXCEPT !.release = n].on = power.on
         /\ [power EXCEPT !.release = n].release = n
         /\ [power EXCEPT !.release = n].failed = power.failed
         /\ [power EXCEPT !.release = n] \in Powers
  BY DEF Powers

(* What the driver may make of a request: it is done or it has failed.     *)
LEMMA DriverSteps ==
  ASSUME power \in Powers, NEW enabled \in BOOLEAN, NEW p \in SetRealtime(enabled)
  PROVE  /\ p \in Powers /\ p.release = Never
         /\ p.on = enabled \/ p.failed
<1>1. PICK on \in {enabled, power.on} :
        p = [on |-> on, release |-> Never, failed |-> on # enabled]
  BY DEF SetRealtime
<1>2. on \in BOOLEAN
  BY <1>1, Fields
<1> QED
  BY <1>1, <1>2 DEF Powers

(* The ends of the ranges.                                                 *)
LEMMA Bounds ==
  /\ 0 \in 0..Grace + 2 /\ 0 \in 0..2 /\ 0 \in 0..Hold /\ 0 \in 0..NoteTime
  /\ TRUE \in BOOLEAN /\ FALSE \in BOOLEAN
  BY Times

(* Each thing that the loop may do to a session keeps the types.           *)
LEMMA CancelTypes ==
  ASSUME VoiceTypes, CancelVoice, UNCHANGED behind
  PROVE  VoiceTypes'
<1>1. /\ router' = NoRoute /\ stream' = Silent /\ power' \in Powers
      /\ owner' = "None" /\ dark' = 0 /\ fresh' = FALSE /\ behind' = behind
  BY DriverSteps DEF CancelVoice, VoiceTypes
<1> QED
  BY <1>1, Records, Bounds DEF VoiceTypes

(* Choosing a route keeps the records.                                     *)
LEMMA BeginTypes ==
  ASSUME VoiceTypes, BeginRoute
  PROVE  router' \in Routers /\ power' \in Powers
  BY Records, DriverSteps DEF BeginRoute, VoiceTypes

(* The pre-roll keeps the types.                                           *)
LEMMA PrepareTypes ==
  ASSUME VoiceTypes, Prepare
  PROVE  VoiceTypes'
<1>1. CASE ~(connected /\ router.route = "None")
  <2>1. Resting
    BY <1>1 DEF Prepare
  <2> QED
    BY <2>1 DEF Resting, voiceVars, VoiceTypes
<1>2. CASE connected /\ router.route = "None"
  <2>1. BeginRoute /\ fresh' = TRUE /\ dark' = 0
    BY <1>2 DEF Prepare
  <2>2. /\ stream' \in {stream, [on |-> TRUE, stop |-> Never]}
        /\ owner' \in {owner, "PreRoll"} /\ behind' \in {behind, 0}
    BY <1>2 DEF Prepare, StreamStart
  <2> QED
    BY <2>1, <2>2, BeginTypes, Records, Bounds DEF VoiceTypes
<1> QED
  BY <1>1, <1>2

(* A hold keeps the types.                                                 *)
LEMMA PttDownTypes ==
  ASSUME VoiceTypes, PttDown
  PROVE  VoiceTypes'
<1>1. CASE Resting
  BY <1>1 DEF Resting, voiceVars, VoiceTypes
<1>2. CASE BeginRoute /\ fresh' = TRUE /\ dark' = 0
  <2>1. /\ stream' \in {stream, [on |-> TRUE, stop |-> Never]}
        /\ owner' \in {owner, "Session"} /\ behind' \in {behind, 0}
    BY <1>2 DEF PttDown, StreamStart, Resting, voiceVars
  <2> QED
    BY <1>2, <2>1, BeginTypes, Records, Bounds DEF VoiceTypes
<1>3. CASE UNCHANGED <<router, power, dark>> /\ owner' = "Session"
  <2>1. /\ stream' \in {stream, [on |-> TRUE, stop |-> Never]}
        /\ fresh' \in BOOLEAN /\ behind' \in {behind, 0}
    BY <1>3 DEF PttDown, StreamStart, Resting, voiceVars, VoiceTypes
  <2> QED
    BY <1>3, <2>1, Records, Bounds DEF VoiceTypes
<1> QED
  BY <1>1, <1>2, <1>3 DEF PttDown

(* A release keeps the types.                                              *)
LEMMA PttUpTypes ==
  ASSUME VoiceTypes, PttUp
  PROVE  VoiceTypes'
<1>1. Tail \in 0..Hold \cup {Never} /\ RealtimeTail \in 0..RealtimeTail \cup {Never}
      /\ Never \in 0..RealtimeTail \cup {Never}
  BY Times
<1>2. router' \in Routers
  BY RouterSteps DEF PttUp, FinishRoute, VoiceTypes
<1>3. stream' \in Streams
  BY <1>1, StreamSteps DEF PttUp, StreamStop, VoiceTypes
<1>4. power' \in Powers
  BY <1>1, PowerSteps DEF PttUp, FinishRoute, VoiceTypes
<1> QED
  BY <1>2, <1>3, <1>4 DEF PttUp, VoiceTypes

(* An iteration that does nothing keeps the types.                         *)
LEMMA RestTypes ==
  ASSUME VoiceTypes, Resting
  PROVE  VoiceTypes'
  BY DEF Resting, voiceVars, VoiceTypes

(* The type invariant.                                                     *)
LEMMA TypesKept ==
  ASSUME VoiceTypes, TaskTypes, [Next]_vars
  PROVE  VoiceTypes' /\ TaskTypes'
<1> USE DEF radioVars, linkVars, buttonVars, toneVars
<1>0. voiceVars' = voiceVars /\ behind' = behind => VoiceTypes'
  BY DEF voiceVars, VoiceTypes
<1>1. CASE RadioChanges
  <2>1. dark' \in {0, dark}
    BY <1>1 DEF RadioChanges
  <2>2. VoiceTypes'
    BY <1>1, <2>1, Bounds DEF RadioChanges, VoiceTypes
  <2>3. wifi' \in {"Down", "Control", "Audio"} /\ ble' \in BOOLEAN
    BY <1>1 DEF RadioChanges, TaskTypes
  <2> QED
    BY <1>1, <2>2, <2>3 DEF RadioChanges, TaskTypes
<1>2. CASE LoopLinks
  <2>1. VoiceTypes'
    <3>1. CASE CancelVoice
      BY <1>2, <3>1, CancelTypes DEF LoopLinks
    <3>2. CASE PowerDue /\ UNCHANGED <<router, stream, owner, fresh, dark>>
      <4>1. power' \in Powers
        BY <3>2, DriverSteps DEF PowerDue, VoiceTypes
      <4> QED
        BY <1>2, <3>2, <4>1 DEF LoopLinks, VoiceTypes
    <3> QED
      BY <1>2, <3>1, <3>2 DEF LoopLinks
  <2>2. TaskTypes'
    BY <1>2 DEF LoopLinks, TaskTypes, Linked, LinksSilent
  <2> QED
    BY <2>1, <2>2
<1>3. CASE LoopRoute
  <2>1. VoiceTypes'
    <3>1. CASE CancelVoice
      BY <1>3, <3>1, CancelTypes DEF LoopRoute
    <3>2. CASE router' = LossSeen /\ UNCHANGED <<stream, power, owner, fresh, dark>>
      BY <1>3, <3>2, RouterSteps DEF LoopRoute, VoiceTypes
    <3>3. CASE UNCHANGED voiceVars
      BY <1>0, <1>3, <3>3 DEF LoopRoute
    <3> QED
      BY <1>3, <3>1, <3>2, <3>3 DEF LoopRoute
  <2>2. TaskTypes'
    <3>1. pc' = "button" /\ connected' \in {connected, TRUE} /\ quiet' \in {quiet, FALSE}
      BY <1>3 DEF LoopRoute
    <3>2. UNCHANGED <<wifi, ble, linked, press, age, armed, window, cap, tone, noteAge>>
      BY <1>3 DEF LoopRoute
    <3>3. connected' \in BOOLEAN /\ quiet' \in BOOLEAN
      BY <3>1 DEF TaskTypes
    <3> QED
      BY <3>1, <3>2, <3>3 DEF TaskTypes
  <2> QED
    BY <2>1, <2>2
<1>4. CASE LoopButton
  <2>1. Prepare \/ PttDown \/ PttUp \/ Resting \/ (CancelVoice /\ UNCHANGED behind)
    BY <1>4 DEF LoopButton, Press, Holds, Release, Submit, NoAction
  <2>2. VoiceTypes'
    BY <2>1, CancelTypes, PrepareTypes, PttDownTypes, PttUpTypes, RestTypes
  <2>3. press' \in {"Up", "Pressed", "Held"} /\ age' \in 0..Hold /\ armed' \in BOOLEAN
        /\ window' \in BOOLEAN
    <3>1. CASE Press
      BY <3>1, Times DEF Press, TaskTypes
    <3>2. CASE Holds \/ Release \/ Submit \/ NoAction
      BY <3>2, Bounds DEF Holds, Release, Submit, NoAction, TaskTypes
    <3> QED
      BY <1>4, <3>1, <3>2 DEF LoopButton
  <2> QED
    BY <1>4, <2>2, <2>3 DEF LoopButton, TaskTypes
<1>5. CASE CaptureStep
  <2>1. VoiceTypes'
    BY <1>5, Records
    DEF CaptureStep, CaptureExpires, CaptureEnds, CaptureWaits, CaptureReads, CaptureSends,
        CaptureRest, VoiceTypes
  <2>2. TaskTypes'
    BY <1>5
    DEF CaptureStep, CaptureExpires, CaptureEnds, CaptureWaits, CaptureReads, CaptureSends,
        CaptureRest, TaskTypes
  <2> QED
    BY <2>1, <2>2
<1>6. CASE ToneLocks
  BY <1>6, <1>0, Times DEF ToneLocks, ToneRest, TaskTypes
<1>7. CASE ToneNoteEnds
  <2>1. behind' \in 0..2
    BY <1>7 DEF ToneNoteEnds, Older, VoiceTypes
  <2> QED
    BY <1>7, <2>1, Times DEF ToneNoteEnds, ToneRest, TaskTypes, VoiceTypes, voiceVars
<1>8. CASE Tick
  <2>1. router' \in Routers
    <3>1. (IF router.loss = 0 THEN 0 ELSE Older(router.loss, Grace + 1)) \in 0..Grace + 1
      BY Times, Fields DEF Older, VoiceTypes
    <3> QED
      BY <1>8, <3>1, RouterSteps DEF Tick, VoiceTypes
  <2>2. stream' \in Streams
    <3>1. LeftOf(stream.stop) \in 0..Hold \cup {Never}
      BY Times, Fields DEF LeftOf, VoiceTypes
    <3> QED
      BY <1>8, <3>1, StreamSteps DEF Tick, VoiceTypes
  <2>3. power' \in Powers
    <3>1. LeftOf(power.release) \in 0..RealtimeTail \cup {Never}
      BY Times, Fields DEF LeftOf, VoiceTypes
    <3> QED
      BY <1>8, <3>1, PowerSteps DEF Tick, VoiceTypes
  <2>4. dark' \in 0..Grace + 2
    BY <1>8, Times DEF Tick, Older, VoiceTypes
  <2>5. VoiceTypes'
    BY <1>8, <2>1, <2>2, <2>3, <2>4 DEF Tick, VoiceTypes
  <2>6. age' \in 0..Hold /\ noteAge' \in 0..NoteTime
    BY <1>8, Times DEF Tick, Older, ToneHolds, TaskTypes
  <2> QED
    <3>1. pc' = "links" /\ quiet' \in BOOLEAN
          /\ UNCHANGED <<radioVars, linked, connected, press, armed, window, cap, tone>>
      BY <1>8 DEF Tick, TaskTypes
    <3> QED
      BY <2>5, <2>6, <3>1 DEF TaskTypes
<1>9. CASE UNCHANGED vars
  BY <1>9 DEF vars, voiceVars, VoiceTypes, TaskTypes
<1> QED
  BY <1>1, <1>2, <1>3, <1>4, <1>5, <1>6, <1>7, <1>8, <1>9 DEF Next, LoopStep

-----------------------------------------------------------------------------
(* The button of an iteration.  What its handlers do to a session, with    *)
(* what every one of them leaves alone.                                    *)
ButtonFrame ==
  /\ pc = "button" /\ pc' = "idle"
  /\ UNCHANGED <<wifi, ble, cap, tone, noteAge>>
  /\ press' = "Pressed" => age' = 0 \/ (press = "Pressed" /\ age' = age)
  /\ press' = "Held" => press = "Held" \/ (press = "Pressed" /\ age = Hold)

(* A route is as available as before while the radios do not change.       *)
LEMMA SameAvailable ==
  ASSUME UNCHANGED <<wifi, ble>>, router'.route = router.route
  PROVE  Available(router.route)' <=> Available(router.route)
  BY DEF Available

(* A cancelled session leaves nothing.                                     *)
LEMMA CancelSettles ==
  ASSUME CancelVoice, cap' = "expired" /\ press' = "Pressed" => age' < Hold
  PROVE  VoiceInv'
<1>1. /\ router' = NoRoute /\ stream' = Silent
      /\ owner' = "None" /\ dark' = 0 /\ fresh' = FALSE
  BY DEF CancelVoice
<1>2. router'.route = "None" /\ stream'.on = FALSE /\ stream'.stop = Never
  BY <1>1 DEF NoRoute, Silent
<1> QED
  BY <1>1, <1>2 DEF VoiceInv, OwnedInv, TailInv, SessionKeepsMicrophone, RouteInv, LossInv, AwakeInv

(* By the time that a press has become a hold, the tail before it is over. *)
LEMMA HoldOutlastsTail ==
  ASSUME VoiceTypes, VoiceInv, press = "Pressed", age = Hold
  PROVE  stream.stop = Never /\ cap # "expired"
  BY Times, Fields DEF VoiceInv, TailInv, VoiceTypes

(* Nothing happens to the session.                                         *)
LEMMA RestSettles ==
  ASSUME VoiceTypes, TaskTypes, VoiceInv, ButtonFrame, Resting
  PROVE  VoiceInv'
<1> USE DEF VoiceInv, ButtonFrame
<1>1. UNCHANGED <<router, stream, power, owner, fresh, dark>>
  BY DEF Resting, voiceVars
<1>2. OwnedInv' /\ RouteInv' /\ LossInv' /\ AwakeInv'
  BY <1>1, SameAvailable DEF OwnedInv, RouteInv, LossInv, AwakeInv, Awake
<1>3. TailInv'
  <2>1. age' = 0 => age' < Hold /\ age' <= noteAge
    BY Times DEF TaskTypes
  <2>2. (stream.stop # Never /\ age' = 0) => age' + stream.stop <= Tail
    BY Times, Fields DEF TailInv, VoiceTypes
  <2>3. press' = "Held" => stream.stop = Never
    BY HoldOutlastsTail DEF TailInv
  <2> QED
    BY <1>1, <2>1, <2>2, <2>3 DEF TailInv, SessionKeepsMicrophone
<1> QED
  BY <1>2, <1>3

(* A route is selected, and the capture started if there is one.           *)
LEMMA BeginSettles ==
  ASSUME VoiceTypes, TaskTypes, VoiceInv, ButtonFrame,
         router.route = "None", BeginRoute, fresh' = TRUE, dark' = 0,
         NEW by \in {"PreRoll", "Session"}, by = "Session" => cap # "expired",
         IF Chosen = "None" THEN UNCHANGED <<stream, owner, behind>>
         ELSE StreamStart /\ owner' = by
  PROVE  VoiceInv'
<1>1. router'.route = Chosen /\ (router'.held <=> Chosen # "None") /\ router'.loss = 0
  BY DEF BeginRoute, Begun
<1>2. LossInv'
  BY <1>1, Times DEF LossInv
<1>3. cap' = "expired" /\ press' = "Pressed" => age' < Hold
  BY Times DEF ButtonFrame, VoiceInv, TailInv, TaskTypes
<1>4. CASE Chosen = "None"
  <2>1. ~stream.on /\ stream.stop = Never /\ owner # "Session"
    BY DEF VoiceInv, OwnedInv, TailInv, SessionKeepsMicrophone
  <2> QED
    BY <1>1, <1>2, <1>3, <1>4, <2>1
    DEF VoiceInv, OwnedInv, TailInv, SessionKeepsMicrophone, RouteInv, AwakeInv
<1>5. CASE Chosen # "None"
  <2>1. stream'.on = TRUE /\ stream'.stop = Never /\ owner' = by
    BY <1>5 DEF StreamStart
  <2>2. Chosen = "Wifi" => Awake' /\ power'.release = Never
    BY DriverSteps DEF BeginRoute, VoiceTypes, Awake
  <2> QED
    BY <1>1, <1>2, <1>3, <1>5, <2>1, <2>2
    DEF VoiceInv, OwnedInv, TailInv, SessionKeepsMicrophone, RouteInv, AwakeInv, ButtonFrame
<1> QED
  BY <1>4, <1>5

(* The pre-roll keeps the invariant.                                       *)
LEMMA PrepareSettles ==
  ASSUME VoiceTypes, TaskTypes, VoiceInv, ButtonFrame, Prepare
  PROVE  VoiceInv'
<1>1. CASE connected /\ router.route = "None"
  BY <1>1, BeginSettles DEF Prepare
<1>2. CASE ~(connected /\ router.route = "None")
  BY <1>2, RestSettles DEF Prepare
<1> QED
  BY <1>1, <1>2

(* A hold keeps the invariant: the tail before it is over by then.         *)
LEMMA PttDownSettles ==
  ASSUME VoiceTypes, TaskTypes, VoiceInv, ButtonFrame, press = "Pressed", age = Hold,
         press' = "Held", PttDown
  PROVE  VoiceInv'
<1>1. CASE ~connected /\ Resting
  BY <1>1, RestSettles
<1>2. CASE connected /\ router.route = "None"
  BY <1>2, HoldOutlastsTail, BeginSettles DEF PttDown
<1>3. CASE connected /\ router.route # "None"
  <2>1. /\ owner' = "Session" /\ UNCHANGED <<router, power, dark>>
        /\ fresh' => fresh /\ owner = "PreRoll"
        /\ IF stream.on THEN stream' = stream ELSE stream' = [on |-> TRUE, stop |-> Never]
    BY <1>3 DEF PttDown, StreamStart
  <2>2. stream'.on = TRUE /\ stream'.stop = Never /\ cap' # "expired"
    BY <2>1, HoldOutlastsTail, Fields DEF ButtonFrame, VoiceTypes
  <2>3. OwnedInv' /\ TailInv' /\ AwakeInv'
    BY <1>3, <2>1, <2>2 DEF OwnedInv, TailInv, SessionKeepsMicrophone, AwakeInv, Awake
  <2>4. RouteInv'
    BY <2>1 DEF VoiceInv, RouteInv, Awake
  <2>5. LossInv'
    BY <2>1, SameAvailable, Fields, Times DEF VoiceInv, LossInv, ButtonFrame, VoiceTypes
  <2> QED
    BY <2>3, <2>4, <2>5 DEF VoiceInv
<1> QED
  BY <1>1, <1>2, <1>3 DEF PttDown

(* A release keeps the invariant: the tail is shorter than the wake.       *)
LEMMA PttUpSettles ==
  ASSUME VoiceTypes, TaskTypes, VoiceInv, ButtonFrame, press = "Held", press' = "Up", PttUp
  PROVE  VoiceInv'
<1>1. /\ router'.route = router.route /\ UNCHANGED <<fresh, dark>>
      /\ owner' = IF owner = "None" \/ ~stream.on THEN "None" ELSE "Tail"
  BY RouterSteps DEF PttUp, FinishRoute, VoiceTypes
<1>2. stream'.on = stream.on /\ stream'.stop = IF stream.on THEN Tail ELSE Never
  BY Times, StreamSteps DEF PttUp, StreamStop, VoiceInv, OwnedInv, VoiceTypes
<1>3. /\ power'.on = power.on /\ power'.failed = power.failed
      /\ router.route = "Wifi" => power'.release = RealtimeTail
  BY Times, PowerSteps DEF PttUp, FinishRoute, VoiceTypes
<1>4. OwnedInv'
  BY <1>1, <1>2 DEF VoiceInv, OwnedInv, ButtonFrame
<1>5. TailInv'
  BY <1>1, <1>2, Times DEF TailInv, SessionKeepsMicrophone
<1>6. RouteInv' /\ LossInv'
  BY <1>1, SameAvailable DEF VoiceInv, RouteInv, LossInv, ButtonFrame
<1>7. AwakeInv'
  <2> SUFFICES ASSUME stream.on, fresh, router.route = "Wifi", owner' = "Tail"
               PROVE  AwakeInv'
    BY <1>1, <1>2 DEF AwakeInv
  <2>1. owner \in {"PreRoll", "Session"}
    BY <1>1 DEF VoiceTypes, VoiceInv, TailInv, AwakeInv
  <2>2. Awake
    BY <2>1 DEF VoiceInv, RouteInv
  <2>3. Awake' /\ power'.release = RealtimeTail /\ stream'.stop = Tail
    BY <1>2, <1>3, <2>2 DEF Awake
  <2>4. RealtimeTail \in Tail + 1..RealtimeTail /\ Tail # Never
    BY Times
  <2> QED
    BY <2>3, <2>4 DEF AwakeInv
<1> QED
  BY <1>4, <1>5, <1>6, <1>7 DEF VoiceInv

(* Whatever the button does keeps the invariant.                           *)
LEMMA ButtonSettles ==
  ASSUME VoiceTypes, TaskTypes, VoiceInv, LoopButton
  PROVE  VoiceInv'
<1>1. ButtonFrame
  BY DEF LoopButton, ButtonFrame, Press, Holds, Release, Submit, NoAction, radioVars, toneVars
<1>2. CASE CancelVoice
  <2>1. cap' = "expired" /\ press' = "Pressed" => age' < Hold
    BY <1>1, Times DEF ButtonFrame, VoiceInv, TailInv, TaskTypes
  <2> QED
    BY <1>2, <2>1, CancelSettles
<1>3. CASE Prepare \/ Resting
  BY <1>1, <1>3, PrepareSettles, RestSettles
<1>4. CASE Holds /\ PttDown
  BY <1>1, <1>4, PttDownSettles DEF Holds
<1>5. CASE Release /\ press = "Held" /\ PttUp
  BY <1>1, <1>5, PttUpSettles DEF Release
<1> QED
  BY <1>2, <1>3, <1>4, <1>5 DEF LoopButton, Press, Holds, Release, Submit, NoAction

-----------------------------------------------------------------------------
(* The other steps.                                                        *)
LEMMA RadioSettles ==
  ASSUME VoiceTypes, VoiceInv, RadioChanges
  PROVE  VoiceInv'
<1>1. UNCHANGED <<pc, press, age, router, stream, power, owner, fresh, cap, tone, noteAge>>
      /\ dark' = IF Available(router.route)' THEN 0 ELSE dark
  BY DEF RadioChanges, buttonVars, toneVars
<1>2. OwnedInv' /\ TailInv' /\ RouteInv' /\ AwakeInv'
  BY <1>1 DEF VoiceInv, OwnedInv, TailInv, SessionKeepsMicrophone, RouteInv, AwakeInv, Awake
<1>3. LossInv'
  BY <1>1, Fields, Times DEF VoiceInv, LossInv, VoiceTypes
<1> QED
  BY <1>2, <1>3 DEF VoiceInv

(* Reading the links keeps the invariant.                                  *)
LEMMA LinksSettles ==
  ASSUME VoiceTypes, VoiceInv, LoopLinks
  PROVE  VoiceInv'
<1>1. pc' = "route" /\ pc \in {"idle", "links"}
      /\ UNCHANGED <<wifi, ble, press, age, cap, tone, noteAge>>
  BY DEF LoopLinks, radioVars, buttonVars, toneVars
<1>2. CASE CancelVoice
  BY <1>1, <1>2, CancelSettles DEF VoiceInv, TailInv
<1>3. CASE PowerDue /\ UNCHANGED <<router, stream, owner, fresh, dark>>
  <2>1. power.release # 0 => power' = power
    BY <1>3 DEF PowerDue
  <2>2. OwnedInv' /\ TailInv'
    BY <1>1, <1>3 DEF VoiceInv, OwnedInv, TailInv, SessionKeepsMicrophone
  <2>3. RouteInv'
    BY <1>1, <1>3, <2>1, Times DEF VoiceInv, RouteInv, Awake
  <2>4. AwakeInv'
    <3>1. stream.stop \in 0..Hold \cup {Never}
      BY Fields DEF VoiceTypes
    <3>2. stream.stop # 0 /\ power.release \in stream.stop + 1..RealtimeTail => power.release # 0
      BY <3>1, Times
    <3> QED
      BY <1>3, <2>1, <3>2 DEF VoiceInv, AwakeInv, Awake
  <2>5. LossInv'
    BY <1>1, <1>3, SameAvailable DEF VoiceInv, LossInv
  <2> QED
    BY <2>2, <2>3, <2>4, <2>5 DEF VoiceInv
<1> QED
  BY <1>2, <1>3 DEF LoopLinks

(* The loss of a route that was away in the last tick is counted now, and  *)
(* the session given up when the count is full.                            *)
LEMMA RouteSettles ==
  ASSUME VoiceTypes, VoiceInv, LoopRoute
  PROVE  VoiceInv'
<1>1. pc' = "button" /\ UNCHANGED <<wifi, ble, press, age, cap, tone, noteAge>>
  BY DEF LoopRoute, radioVars, buttonVars, toneVars
<1>2. CASE CancelVoice
  BY <1>1, <1>2, CancelSettles DEF VoiceInv, TailInv
<1>3. CASE stream.on /\ ~RouteLost /\ router' = LossSeen
           /\ UNCHANGED <<stream, power, owner, fresh, dark>>
  <2>1. router'.route = router.route /\ router'.held = router.held
    BY <1>3, RouterSteps DEF VoiceTypes
  <2>2. OwnedInv' /\ TailInv' /\ RouteInv' /\ AwakeInv'
    BY <1>1, <1>3, <2>1
    DEF VoiceInv, OwnedInv, TailInv, SessionKeepsMicrophone, RouteInv, AwakeInv, Awake
  <2>3. ASSUME owner = "Session", fresh, dark > 0
        PROVE  dark <= router'.loss /\ dark <= Grace
    <3>1. router.held /\ ~Available(router.route)
      BY <1>3, <2>3 DEF VoiceInv, OwnedInv, RouteInv, LossInv
    <3>2. router'.loss >= 1 /\ router'.loss >= router.loss /\ router'.loss \in 0..Grace + 1
      BY <1>3, <3>1, RouterSteps, Fields DEF VoiceTypes
    <3>3. router.loss \in 0..Grace + 1 /\ router.loss # Grace + 1
      BY <1>3, <3>1, Fields DEF RouteLost, VoiceTypes
    <3> QED
      BY <2>3, <3>2, <3>3, Times DEF VoiceInv, LossInv, VoiceTypes
  <2>4. router'.loss \in Nat /\ dark \in Nat
    BY <1>3, RouterSteps, Fields, Times DEF VoiceTypes
  <2>5. LossInv'
    BY <1>1, <1>3, <2>1, <2>3, <2>4, SameAvailable, Times DEF VoiceInv, LossInv
  <2> QED
    BY <2>2, <2>5 DEF VoiceInv
<1>4. CASE ~stream.on /\ UNCHANGED voiceVars
  <2>1. owner # "Session"
    BY <1>4 DEF VoiceInv, TailInv, SessionKeepsMicrophone
  <2> QED
    BY <1>1, <1>4, <2>1, SameAvailable
    DEF voiceVars, VoiceInv, OwnedInv, TailInv, SessionKeepsMicrophone, RouteInv, LossInv, AwakeInv,
        Awake
<1> QED
  BY <1>2, <1>3, <1>4 DEF LoopRoute

(* The capture task.                                                       *)
LEMMA CaptureSettles ==
  ASSUME VoiceTypes, TaskTypes, VoiceInv, CaptureStep
  PROVE  VoiceInv'
<1>1. UNCHANGED <<wifi, ble, pc, press, age, router, power, fresh, dark, tone, noteAge>>
  BY DEF CaptureStep, CaptureExpires, CaptureEnds, CaptureWaits, CaptureReads, CaptureSends,
         CaptureRest, radioVars, buttonVars, toneVars
<1>2. CASE CaptureExpires
  <2>1. UNCHANGED <<stream, owner>> /\ cap' = "expired" /\ stream.stop = 0 /\ stream.stop # Never
    BY <1>2, Times DEF CaptureExpires
  <2>2. press = "Pressed" => age < Hold
    BY <2>1, Times DEF VoiceInv, TailInv, TaskTypes
  <2> QED
    BY <1>1, <2>1, <2>2, SameAvailable
    DEF VoiceInv, OwnedInv, TailInv, SessionKeepsMicrophone, RouteInv, LossInv, AwakeInv,
        Awake
<1>3. CASE CaptureEnds
  <2>1. cap = "expired" /\ cap' = "idle" /\ stream'.on = FALSE /\ stream'.stop = Never
        /\ owner' = IF owner = "Tail" THEN "None" ELSE owner
    BY <1>3 DEF CaptureEnds, Silent
  <2>2. owner # "Session"
    BY <2>1 DEF VoiceInv, TailInv, SessionKeepsMicrophone
  <2> QED
    BY <1>1, <2>1, <2>2, SameAvailable
    DEF VoiceInv, OwnedInv, TailInv, SessionKeepsMicrophone, RouteInv, LossInv, AwakeInv,
        Awake
<1>4. CASE CaptureWaits \/ CaptureReads \/ CaptureSends
  <2>1. UNCHANGED <<stream, owner>> /\ cap' # "expired" /\ (cap' = "sending" => stream.on)
    BY <1>4 DEF CaptureWaits, CaptureReads, CaptureSends
  <2> QED
    BY <1>1, <2>1, SameAvailable
    DEF VoiceInv, OwnedInv, TailInv, SessionKeepsMicrophone, RouteInv, LossInv, AwakeInv,
        Awake
<1> QED
  BY <1>2, <1>3, <1>4 DEF CaptureStep

(* The tone task; a note that ends under a capture is the last.            *)
LEMMA ToneSettles ==
  ASSUME VoiceTypes, TaskTypes, VoiceInv, ToneLocks \/ ToneNoteEnds
  PROVE  VoiceInv'
<1>1. /\ UNCHANGED <<wifi, ble, pc, press, age, router, stream, power, owner, fresh, dark, cap>>
      /\ stream.on => tone' # "note"
  BY DEF ToneLocks, ToneNoteEnds, ToneRest, MayPlay, radioVars, buttonVars, voiceVars
<1>2. stream.stop # Never => stream.on
  BY DEF VoiceInv, OwnedInv
<1> QED
  BY <1>1, <1>2, SameAvailable
  DEF VoiceInv, OwnedInv, TailInv, SessionKeepsMicrophone, RouteInv, LossInv, AwakeInv,
        Awake

(* Time passes.  A tail that is over lasts on only for the note that the   *)
(* capture task waits for.                                                 *)
LEMMA TickSettles ==
  ASSUME VoiceTypes, TaskTypes, VoiceInv, Tick
  PROVE  VoiceInv'
<1>1. /\ pc = "idle" /\ pc' = "links" /\ CaptureSettled
      /\ UNCHANGED <<wifi, ble, press, cap, tone, owner, fresh>>
      /\ age' = IF press = "Pressed" THEN Older(age, Hold) ELSE age
      /\ noteAge' = IF tone = "note" THEN noteAge + 1 ELSE noteAge
      /\ tone = "note" => noteAge < NoteTime
      /\ dark' = IF owner = "Session" /\ ~Available(router.route)
                 THEN Older(dark, Grace + 2) ELSE 0
  BY DEF Tick, ToneHolds, radioVars
<1>2. stream'.on = stream.on /\ stream'.stop = LeftOf(stream.stop)
  BY Fields, Times, StreamSteps DEF Tick, LeftOf, VoiceTypes
<1>3. router'.route = router.route /\ router'.held = router.held
      /\ router'.loss = IF router.loss = 0 THEN 0 ELSE Older(router.loss, Grace + 1)
  BY Fields, Times, RouterSteps DEF Tick, Older, VoiceTypes
<1>4. (Awake' <=> Awake) /\ power'.release = LeftOf(power.release)
  BY Fields, Times, PowerSteps DEF Tick, LeftOf, VoiceTypes, Awake
<1>5. /\ stream.stop \in 0..Hold \cup {Never} /\ power.release \in 0..RealtimeTail \cup {Never}
      /\ router.loss \in 0..Grace + 1 /\ age \in 0..Hold /\ noteAge \in 0..NoteTime /\ dark \in Nat
  BY Fields, Times DEF VoiceTypes, TaskTypes
<1>6. stream.stop = Never <=> stream'.stop = Never
  BY <1>2, <1>5, Times DEF LeftOf
<1>7. OwnedInv'
  BY <1>1, <1>2, <1>3, <1>6 DEF VoiceInv, OwnedInv
<1>8. cap # "expired" /\ (stream.stop = 0 /\ stream.stop # Never => tone = "note")
  BY <1>1 DEF CaptureSettled, ToneHolds, VoiceInv, OwnedInv
<1>9. TailInv'
  <2>1. stream'.stop # Never => stream'.stop <= Tail
    BY <1>2, <1>5, <1>6, Times DEF LeftOf, VoiceInv, TailInv
  <2>2. ASSUME stream'.stop # Never, press = "Pressed"
        PROVE  /\ age' + stream'.stop <= Tail \/ (stream'.stop = 0 /\ age' <= NoteTime)
               /\ tone = "note" => age' <= noteAge'
    <3>1. age' <= age + 1 /\ age' \in Nat
      BY <1>1, <1>5, Times DEF Older
    <3>2. tone = "note" => age' <= noteAge' /\ noteAge' <= NoteTime
      <4>1. tone = "note" => age <= noteAge
        BY <1>6, <2>2 DEF VoiceInv, TailInv
      <4>2. CASE tone = "note"
        <5>1. noteAge < NoteTime /\ noteAge' = noteAge + 1
          BY <1>1, <4>2 DEF ToneHolds
        <5>2. age \in Nat /\ noteAge \in Nat /\ age <= noteAge /\ NoteTime \in Nat
          BY <1>5, <4>1, <4>2, Times
        <5> QED
          BY <3>1, <5>1, <5>2
      <4> QED
        BY <4>2
    <3>3. CASE stream.stop = 0
      <4>1. stream'.stop = 0 /\ tone = "note"
        BY <1>2, <1>6, <1>8, <2>2, <3>3 DEF LeftOf
      <4>2. noteAge' \in Nat /\ NoteTime \in Nat
        BY <1>1, <1>5, Times
      <4> QED
        BY <3>1, <3>2, <4>1, <4>2
    <3>4. CASE stream.stop # 0
      <4>1. stream.stop \in 1..Grace /\ stream'.stop = stream.stop - 1 /\ age + stream.stop <= Tail
        BY <1>2, <1>5, <1>6, <2>2, <3>4, Times DEF LeftOf, VoiceInv, TailInv
      <4> QED
        BY <1>5, <3>1, <3>2, <4>1, Times
    <3> QED
      BY <3>3, <3>4
  <2> QED
    BY <1>1, <1>2, <1>6, <1>8, <2>1, <2>2 DEF TailInv, VoiceInv, SessionKeepsMicrophone
<1>10. RouteInv'
  BY <1>1, <1>3, <1>4, Times DEF VoiceInv, RouteInv, LeftOf
<1>11. LossInv'
  <2>1. Available(router.route)' <=> Available(router.route)
    BY <1>1, <1>3, SameAvailable
  <2>2. ASSUME owner = "Session", fresh
        PROVE  dark' <= 1 \/ dark' <= router'.loss
    BY <1>1, <1>3, <1>5, <2>2, Times DEF VoiceInv, LossInv, Older
  <2> QED
    BY <1>1, <2>1, <2>2, Times DEF LossInv
<1>12. AwakeInv'
  <2> SUFFICES ASSUME stream.on, fresh, router.route = "Wifi", owner = "Tail",
                      stream'.stop # 0
               PROVE  AwakeInv'
    BY <1>1, <1>2, <1>3, <1>6 DEF VoiceInv, AwakeInv
  <2>1. stream.stop \in 1..Hold /\ stream'.stop = stream.stop - 1
    BY <1>2, <1>5, Times DEF LeftOf, VoiceInv, AwakeInv
  <2>2. Awake /\ power.release \in stream.stop + 1..RealtimeTail
    BY <2>1, Times DEF VoiceInv, AwakeInv
  <2>3. power'.release = power.release - 1
    BY <1>4, <2>1, <2>2, Times DEF LeftOf
  <2>4. power'.release \in stream'.stop + 1..RealtimeTail
    BY <2>1, <2>2, <2>3, Times
  <2> QED
    BY <1>4, <1>6, <2>1, <2>2, <2>4, Times DEF AwakeInv
<1> QED
  BY <1>7, <1>9, <1>10, <1>11, <1>12 DEF VoiceInv

-----------------------------------------------------------------------------
(* The invariant.                                                          *)
LEMMA WirelessInvariant == Spec => [](VoiceTypes /\ TaskTypes /\ VoiceInv)
<1>1. Init => VoiceTypes /\ TaskTypes /\ VoiceInv
  <2> SUFFICES ASSUME Init PROVE VoiceTypes /\ TaskTypes /\ VoiceInv
    OBVIOUS
  <2>1. VoiceTypes
    BY Records, Bounds DEF Init, VoiceTypes
  <2>2. TaskTypes
    BY Bounds DEF Init, TaskTypes
  <2>3. VoiceInv
    BY DEF Init, VoiceInv, OwnedInv, TailInv, SessionKeepsMicrophone, RouteInv, LossInv, AwakeInv,
           NoRoute, Silent
  <2> QED
    BY <2>1, <2>2, <2>3
<1>2. VoiceTypes /\ TaskTypes /\ VoiceInv /\ [Next]_vars => (VoiceTypes /\ TaskTypes /\ VoiceInv)'
  <2> SUFFICES ASSUME VoiceTypes, TaskTypes, VoiceInv, [Next]_vars PROVE VoiceInv'
    BY TypesKept
  <2>1. CASE UNCHANGED vars
    BY <2>1, SameAvailable
    DEF vars, voiceVars, radioVars, buttonVars, toneVars, VoiceInv, OwnedInv, TailInv,
        SessionKeepsMicrophone, RouteInv, LossInv, AwakeInv, Awake
  <2> QED
    BY <2>1, RadioSettles, LinksSettles, RouteSettles, ButtonSettles, CaptureSettles,
       ToneSettles, TickSettles DEF Next, LoopStep
<1> QED
  BY <1>1, <1>2, PTL DEF Spec

(* The ranges of the flags, counters and deadlines that the loop, the      *)
(* capture task and the tone task share.                                   *)
THEOREM WirelessTypeCorrect == Spec => []WirelessTypeOK
<1>1. VoiceTypes /\ TaskTypes /\ VoiceInv => WirelessTypeOK
  BY TypesSplit
<1> QED
  BY <1>1, WirelessInvariant, PTL

(* A frame that a radio would take belongs to a pre-roll, a session or its *)
(* tail (audio_stream.c:42-83).                                            *)
THEOREM MicrophoneAlwaysOwned == Spec => []MicrophoneIsOwned
<1>1. VoiceTypes /\ TaskTypes /\ VoiceInv => MicrophoneIsOwned
  BY DEF VoiceInv, OwnedInv, MicrophoneIsOwned, Available
<1> QED
  BY <1>1, WirelessInvariant, PTL

(* The tail of a session never ends the capture of the next               *)
(* (audio_stream.c:42-45, 120-127).                                        *)
THEOREM SessionAlwaysKeepsMicrophone == Spec => []SessionKeepsMicrophone
<1>1. VoiceTypes /\ TaskTypes /\ VoiceInv => SessionKeepsMicrophone
  BY DEF VoiceInv, TailInv
<1> QED
  BY <1>1, WirelessInvariant, PTL

(* A session is given up when its route has been away for the grace        *)
(* (wireless_audio_router.c:60-73).                                        *)
THEOREM LostRouteAlwaysEnds == Spec => []LostRouteEnds
<1>1. VoiceTypes /\ TaskTypes /\ VoiceInv => LostRouteEnds
  <2> SUFFICES ASSUME VoiceTypes, VoiceInv, owner = "Session", fresh PROVE dark <= Grace + 1
    BY DEF LostRouteEnds
  <2>1. router.loss \in 0..Grace + 1 /\ dark \in Nat
    BY Fields, Times DEF VoiceTypes
  <2> QED
    BY <2>1, Times DEF VoiceInv, LossInv
<1> QED
  BY <1>1, WirelessInvariant, PTL

(* A capture that goes out over Wi-Fi finds the modem awake until its tail *)
(* is over, unless the driver refused to wake it (app_main.c:67-91,        *)
(* 572-576, wifi_manager.c:267-279).                                       *)
THEOREM AlwaysAwakeForWifi == Spec => []AwakeForWifi
<1>1. VoiceTypes /\ TaskTypes /\ VoiceInv => AwakeForWifi
  <2> SUFFICES ASSUME VoiceTypes, VoiceInv, stream.on, stream.stop # 0, fresh,
                      router.route = "Wifi"
               PROVE  Awake
    BY DEF AwakeForWifi, Awake
  <2>1. owner \in {"PreRoll", "Session"} \/ owner = "Tail"
    BY DEF VoiceInv, OwnedInv, VoiceTypes
  <2> QED
    BY <2>1 DEF VoiceInv, RouteInv, AwakeInv
<1> QED
  BY <1>1, WirelessInvariant, PTL

(* The capture has a route to send to, even when a message drained after   *)
(* its link was lost marks the model connected (app_main.c:261, 678, 705). *)
THEOREM CaptureAlwaysHasRoute == Spec => []CaptureHasRoute
<1>1. VoiceTypes /\ TaskTypes /\ VoiceInv => CaptureHasRoute
  BY DEF VoiceInv, OwnedInv, CaptureHasRoute
<1> QED
  BY <1>1, WirelessInvariant, PTL
-----------------------------------------------------------------------------
(* A note that is heard over a capture began before the capture did, and   *)
(* none follows it.                                                        *)
YieldInv == behind <= 1 /\ (stream.on /\ tone = "note" => behind = 0)

(* Outside the tone task only a new capture changes the count, which it    *)
(* takes back, and nothing else turns the stream on.                       *)
LEMMA CountedAnew ==
  ASSUME VoiceTypes, [Next]_vars, ~ToneLocks, ~ToneNoteEnds
  PROVE  tone' = tone /\ (behind' = 0 \/ (behind' = behind /\ (stream'.on => stream.on)))
<1> USE DEF toneVars
<1>1. \A n \in 0..Hold \cup {Never} : [stream EXCEPT !.stop = n].on = stream.on
  BY DEF VoiceTypes, Streams
<1>2. Silent.on = FALSE
  BY DEF Silent
<1>3. CASE RadioChanges \/ UNCHANGED vars
  BY <1>3 DEF RadioChanges, vars, voiceVars
<1>4. CASE LoopLinks
  BY <1>2, <1>4 DEF LoopLinks, CancelVoice
<1>5. CASE LoopRoute
  BY <1>2, <1>5 DEF LoopRoute, CancelVoice, voiceVars
<1>6. CASE LoopButton
  <2>1. CASE Resting
    BY <1>6, <2>1 DEF LoopButton, Resting, voiceVars
  <2>2. CASE CancelVoice /\ UNCHANGED behind
    BY <1>2, <1>6, <2>2 DEF LoopButton, CancelVoice
  <2>3. CASE Prepare \/ PttDown
    BY <1>6, <2>3 DEF LoopButton, Prepare, PttDown, StreamStart, Resting, voiceVars
  <2>4. CASE PttUp
    <3>1. Tail \in 0..Hold \cup {Never}
      BY Times
    <3> QED
      BY <1>1, <1>6, <2>4, <3>1 DEF LoopButton, PttUp, StreamStop
  <2> QED
    BY <1>6, <2>1, <2>2, <2>3, <2>4 DEF LoopButton, Press, Holds, Release, Submit, NoAction
<1>7. CASE CaptureStep
  BY <1>2, <1>7
  DEF CaptureStep, CaptureExpires, CaptureEnds, CaptureWaits, CaptureReads, CaptureSends,
      CaptureRest
<1>8. CASE Tick
  <2>1. LeftOf(stream.stop) \in 0..Hold \cup {Never}
    BY Times, Fields DEF LeftOf, VoiceTypes
  <2> QED
    BY <1>1, <1>8, <2>1 DEF Tick
<1> QED
  BY <1>3, <1>4, <1>5, <1>6, <1>7, <1>8 DEF Next, LoopStep

(* A session waits for one note at most before it hears its first frame    *)
(* (audio_stream.c:259-265).                                               *)
THEOREM ToneAlwaysYields == Spec => []ToneYields
<1>1. Init => YieldInv
  BY DEF Init, YieldInv
<1>2. VoiceTypes /\ YieldInv /\ [Next]_vars => YieldInv'
  <2> SUFFICES ASSUME VoiceTypes, YieldInv, [Next]_vars PROVE YieldInv'
    OBVIOUS
  <2>1. behind \in 0..2
    BY DEF VoiceTypes
  <2>2. CASE ToneLocks
    BY <2>2 DEF ToneLocks, ToneRest, voiceVars, YieldInv
  <2>3. CASE ToneNoteEnds
    <3>1. /\ tone = "note" /\ stream' = stream /\ (stream.on => tone' = "idle")
          /\ behind' = IF stream.on THEN Older(behind, 2) ELSE behind
      BY <2>3 DEF ToneNoteEnds, ToneRest, voiceVars, MayPlay
    <3> QED
      BY <2>1, <3>1 DEF YieldInv, Older
  <2>4. CASE ~ToneLocks /\ ~ToneNoteEnds
    BY <2>4, CountedAnew DEF YieldInv
  <2> QED
    BY <2>2, <2>3, <2>4
<1>3. VoiceTypes /\ TaskTypes /\ VoiceInv => VoiceTypes
  OBVIOUS
<1>4. YieldInv => ToneYields
  BY DEF YieldInv, ToneYields
<1> QED
  BY <1>1, <1>2, <1>3, <1>4, WirelessInvariant, PTL DEF Spec
=============================================================================
