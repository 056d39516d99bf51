--------------------------- MODULE BootLoopProofs ---------------------------
(***************************************************************************)
(* The safety properties of BootLoop, for every choice of the constants.   *)
(* The inductive invariant is BootInv; each conjunct is there because a    *)
(* later one needs it:                                                     *)
(*   EdgesFresh       bounds the age of a latched edge, for the typing;    *)
(*   HoldsUnspent     ties an open window, or a hold, to the hold history; *)
(*   LevelTracked     says that the debouncer's candidate and the loop's   *)
(*                    previous level are the same reading, and that the    *)
(*                    interaction is armed only while that reading is      *)
(*                    pressed: this is why a release is always disarmed,   *)
(*   ReleaseDropped   and therefore why the gate drops every release.        *)
(* A second invariant, SubmitInv, counts the closures behind a Return; it  *)
(* needs BootInv only for the typing and stands with its lemmas at the end. *)
(***************************************************************************)
EXTENDS BootLoop, TLAPS, FiniteSetTheorems, SequenceTheorems

EdgesFresh ==
  \A i \in DOMAIN edges :
    edges[i].age <= IF pc \in {"sample", "switch"} THEN 0 ELSE stall

HoldsUnspent == ptt \/ submit.pending => unspent

LevelTracked ==
  /\ candidate = IF pc = "switch" THEN down ELSE previous
  /\ ~previous /\ (pc = "idle" \/ ~down) => ~armed

ReleaseDropped == {action, delivered} \cap {"PttUp", "CancelPtt"} = {}

BootInv ==
  /\ BootTypeOK
  /\ EdgesFresh
  /\ VoiceExcludesSubmit
  /\ ListeningOnlyWhileHeld
  /\ HoldsUnspent
  /\ LevelTracked
  /\ ReleaseDropped

USE TimesAssumption, StatesAssumption, QueueAssumption, BounceAssumption, ModeAssumption
    DEF LocalStates

-----------------------------------------------------------------------------
(* The interrupt appends one fresh edge, or drops it when the queue is full. *)
LEMMA LatchKeepsQueue ==
  ASSUME edges \in Seq(Edge), Len(edges) <= EdgeQueueLength,
         NEW now \in BOOLEAN, NEW byFinger \in BOOLEAN, LatchEdge(now, byFinger)
  PROVE  /\ edges' \in Seq(Edge)
         /\ Len(edges') <= EdgeQueueLength
         /\ \A i \in DOMAIN edges' :
              \/ edges'[i].age = 0
              \/ i \in DOMAIN edges /\ edges'[i] = edges[i]
<1> DEFINE e == [down |-> now, age |-> 0, tap |-> byFinger]
<1>1. e \in Edge
  BY DEF Edge
<1>2. CASE Len(edges) < EdgeQueueLength
  <2>1. edges' = Append(edges, e)
    BY <1>2 DEF LatchEdge
  <2>2. edges' \in Seq(Edge) /\ Len(edges') = Len(edges) + 1
    BY <1>1, <2>1
  <2>3. \A i \in 1..Len(edges') : edges'[i] = IF i <= Len(edges) THEN edges[i] ELSE e
    BY <2>1, <2>2
  <2>4. DOMAIN edges' = 1..Len(edges') /\ DOMAIN edges = 1..Len(edges)
    BY <2>2
  <2> HIDE DEF e
  <2>5. e.age = 0
    BY DEF e
  <2> QED
    BY <1>2, <2>2, <2>3, <2>4, <2>5
<1>3. CASE ~(Len(edges) < EdgeQueueLength)
  BY <1>3 DEF LatchEdge
<1> QED
  BY <1>2, <1>3

(* Draining shifts the queue by one; ticking ages every edge by one.       *)
LEMMA TailKeepsQueue ==
  ASSUME edges \in Seq(Edge), Len(edges) <= EdgeQueueLength, edges # << >>,
         edges' = Tail(edges)
  PROVE  /\ edges' \in Seq(Edge)
         /\ Len(edges') <= EdgeQueueLength
         /\ Head(edges) \in Edge
         /\ Head(edges) = edges[1] /\ 1 \in DOMAIN edges
         /\ \A i \in DOMAIN edges' : i + 1 \in DOMAIN edges /\ edges'[i] = edges[i + 1]
<1>1. /\ Head(edges) \in Edge
      /\ Tail(edges) \in Seq(Edge)
      /\ Len(Tail(edges)) = Len(edges) - 1
      /\ \A i \in 1 .. Len(Tail(edges)) : Tail(edges)[i] = edges[i + 1]
  BY HeadTailProperties
<1>2. Len(edges) \in Nat \ {0} /\ DOMAIN edges = 1..Len(edges)
  BY EmptySeq
<1>3. DOMAIN edges' = 1..Len(edges')
  BY <1>1
<1> QED
  BY <1>1, <1>2, <1>3

(* A tick ages the queued edges and keeps each within the stall.           *)
LEMMA TickKeepsQueue ==
  ASSUME edges \in Seq(Edge), Len(edges) <= EdgeQueueLength, stall \in 0..MaxStall,
         stall < MaxStall, \A i \in DOMAIN edges : edges[i].age <= stall,
         edges' = [i \in DOMAIN edges |-> Aged(edges[i])]
  PROVE  /\ edges' \in Seq(Edge)
         /\ Len(edges') <= EdgeQueueLength
         /\ \A i \in DOMAIN edges' : edges'[i].age <= stall + 1
<1>1. DOMAIN edges = 1..Len(edges) /\ Len(edges) \in Nat
  OBVIOUS
<1>2. \A i \in 1..Len(edges) : edges[i] \in Edge
  BY <1>1
<1>3. ASSUME NEW i \in 1..Len(edges)
      PROVE  Aged(edges[i]) \in Edge /\ Aged(edges[i]).age <= stall + 1
  <2>1. edges[i] \in Edge /\ edges[i].age <= stall
    BY <1>1, <1>2
  <2> QED
    BY <2>1 DEF Edge, Aged
<1>4. edges' \in [1..Len(edges) -> Edge]
  BY <1>1, <1>3
<1>5. edges' \in Seq(Edge) /\ Len(edges') = Len(edges)
  BY <1>1, <1>4, SeqDef
<1> QED
  BY <1>1, <1>3, <1>5

(* The count of queued presses, capped, is at most two.                    *)
LEMMA CappedCount ==
  ASSUME edges \in Seq(Edge), NEW b \in BOOLEAN
  PROVE  AtMost2(Cardinality(QueuedPresses(b))) \in 0..2
<1>1. QueuedPresses(b) \subseteq 1..Len(edges) /\ Len(edges) \in Nat
  BY DEF QueuedPresses
<1>2. IsFiniteSet(QueuedPresses(b))
  <2>1. IsFiniteSet(1..Len(edges))
    BY <1>1, FS_Interval
  <2> QED
    BY <1>1, <2>1, FS_Subset
<1>3. Cardinality(QueuedPresses(b)) \in Nat
  BY <1>2, FS_CardinalityType
<1> QED
  BY <1>3 DEF AtMost2
-----------------------------------------------------------------------------
(* What the functions of device_model.c keep, whoever calls them.          *)
DeviceInv == DeviceTypeOK /\ VoiceExcludesSubmit /\ ListeningOnlyWhileHeld

(* The cleared submit state is well typed.                                 *)
LEMMA NoSubmitType == NoSubmit \in Submits
  BY DEF NoSubmit, Submits, NoPress, PressAges

(* A link change keeps the device invariant and never opens a window.      *)
LEMMA SetConnectedInv ==
  ASSUME DeviceInv, NEW c \in BOOLEAN, SetConnected(c)
  PROVE  DeviceInv' /\ (submit'.pending => submit.pending)
<1> USE NoSubmitType DEF DeviceInv, DeviceTypeOK, SetConnected, VisibleStates
<1>1. DeviceTypeOK'
  OBVIOUS
<1>2. VoiceExcludesSubmit'
  BY DEF VoiceExcludesSubmit
<1>3. ListeningOnlyWhileHeld'
  BY DEF ListeningOnlyWhileHeld
<1>4. submit'.pending => submit.pending
  BY DEF NoSubmit
<1> QED
  BY <1>1, <1>2, <1>3, <1>4

(* A remote state never takes the screen from a hold.                      *)
LEMMA SetRemoteStateInv ==
  ASSUME DeviceInv, NEW s \in RemoteStates, SetRemoteState(s)
  PROVE  DeviceInv' /\ submit' = submit
BY DEF DeviceInv, DeviceTypeOK, SetRemoteState, VisibleStates, VoiceExcludesSubmit,
       ListeningOnlyWhileHeld

(* An edge keeps the device invariant; only an open window reacts to it.   *)
LEMMA ButtonEdgeInv ==
  ASSUME DeviceInv, NEW d \in BOOLEAN, NEW age \in 0..MaxStall, ButtonEdge(d, age)
  PROVE  /\ DeviceInv'
         /\ submit'.pending => submit.pending /\ ~EdgeSubmits(d, age)
         /\ EdgeSubmits(d, age) => submit.pending
<1> USE DEF DeviceInv, ButtonEdge
<1>1. CASE EdgeIgnored(d, age)
  <2>1. UNCHANGED deviceVars
    BY <1>1 DEF EdgeIgnored, deviceVars
  <2>2. ~EdgeSubmits(d, age)
    BY <1>1 DEF EdgeIgnored, EdgeSubmits
  <2> QED
    BY <2>1, <2>2 DEF deviceVars, DeviceTypeOK, VoiceExcludesSubmit,
                      ListeningOnlyWhileHeld
<1>2. CASE EdgeArms(d, age)
  <2>1. submit.pending /\ submit \in Submits /\ age \in PressAges
    BY <1>2 DEF EdgeArms, EdgeTaken, DeviceTypeOK, PressAges
  <2>2. ~ptt
    BY <2>1 DEF VoiceExcludesSubmit, NoSubmit
  <2>3. submit' \in Submits /\ submit'.pending
    BY <1>2, <2>1 DEF EdgeArms, Submits
  <2>4. DeviceTypeOK'
    BY <1>2, <2>3 DEF EdgeArms, DeviceTypeOK, VisibleStates, LocalStates
  <2>5. VoiceExcludesSubmit' /\ ListeningOnlyWhileHeld'
    BY <1>2, <2>2 DEF EdgeArms, VoiceExcludesSubmit, ListeningOnlyWhileHeld
  <2> QED
    BY <1>2, <2>1, <2>4, <2>5 DEF EdgeArms
<1>3. CASE EdgeConfirms(d, age)
  <2>1. submit.pending
    BY <1>3 DEF EdgeConfirms, EdgeSubmits, EdgeTaken
  <2>2. submit' = NoSubmit /\ ~submit'.pending /\ visible' = Base
    BY <1>3 DEF EdgeConfirms, NoSubmit
  <2>3. Base \in VisibleStates /\ Base # "Listening"
    BY DEF Base, VisibleStates, DeviceTypeOK
  <2>4. DeviceTypeOK'
    BY <2>2, <2>3, NoSubmitType DEF DeviceTypeOK
  <2> QED
    BY <2>1, <2>2, <2>3, <2>4 DEF VoiceExcludesSubmit, ListeningOnlyWhileHeld
<1> QED
  BY <1>1, <1>2, <1>3

(* The expiry that opens every sample can only close the window.           *)
LEMMA ExpiryInv ==
  ASSUME DeviceInv
  PROVE  /\ SubmitNow \in Submits
         /\ VisibleNow \in VisibleStates
         /\ SubmitNow.pending => submit.pending
         /\ ptt => SubmitNow = NoSubmit
         /\ VisibleNow = "Listening" => ptt
<1> USE DEF DeviceInv, DeviceTypeOK
<1>1. SubmitNow \in Submits /\ (SubmitNow.pending => submit.pending)
  <2>1. CASE WindowExpired
    BY <2>1, NoSubmitType DEF SubmitNow, NoSubmit
  <2>2. CASE ~WindowExpired /\ ConfirmExpired
    <3>1. SubmitNow = [submit EXCEPT !.confirm = FALSE, !.confirmLeft = 0]
      BY <2>2 DEF SubmitNow
    <3>2. submit \in Submits /\ 0 \in -MaxStall..Window
      OBVIOUS
    <3> QED
      BY <3>1, <3>2 DEF Submits
  <2>3. CASE ~WindowExpired /\ ~ConfirmExpired
    BY <2>3 DEF SubmitNow
  <2> QED
    BY <2>1, <2>2, <2>3
<1>2. ptt => ~WindowExpired /\ ~ConfirmExpired
  BY DEF VoiceExcludesSubmit, WindowExpired, ConfirmExpired, NoSubmit
<1>3. ptt => SubmitNow = NoSubmit
  BY <1>2 DEF SubmitNow, VoiceExcludesSubmit
<1>4. VisibleNow \in VisibleStates /\ (VisibleNow = "Listening" => ptt)
  BY DEF VisibleNow, Base, VisibleStates, ListeningOnlyWhileHeld
<1> QED
  BY <1>1, <1>3, <1>4

(* A sample keeps the device invariant, whichever branch it takes.         *)
LEMMA ButtonSampleInv ==
  ASSUME DeviceInv, NEW d \in BOOLEAN, ButtonSample(d)
  PROVE  /\ DeviceInv'
         /\ candidate' = d
         /\ ptt' \/ submit'.pending =>
              ptt \/ submit.pending \/ SampleAction(d) = "PttDown"
         /\ SampleAction(d) \in {"PttUp", "CancelPtt"} => ~d /\ ~candidate
<1> USE ExpiryInv DEF DeviceInv, DeviceTypeOK
<1>1. SampleAction(d) \in {"PttUp", "CancelPtt"} => ~d /\ ~candidate
  BY DEF SampleAction, Debounced, Changes
<1>2. CASE SampleChanges(d) \/ SamplePresses(d) \/ SampleReleases(d) \/ SampleRests(d)
  <2>1. submit' = SubmitNow /\ visible' = VisibleNow /\ ptt' = ptt
    BY <1>2 DEF SampleChanges, SamplePresses, SampleReleases, SampleRests, Expire
  <2>2. candidate' = d
    BY <1>2 DEF SampleChanges, SamplePresses, SampleReleases, SampleRests, Changes,
                Debounced
  <2>3. stable' \in BOOLEAN /\ candidateAge' \in 0..Debounce /\ pressAge' \in 0..Hold
    <3>1. 0 \in 0..Debounce /\ 0 \in 0..Hold
      OBVIOUS
    <3>2. stable' \in BOOLEAN
      BY <1>2 DEF SampleChanges, SamplePresses, SampleReleases, SampleRests
    <3>3. candidateAge' \in {0, candidateAge} /\ pressAge' \in {0, pressAge}
      BY <1>2 DEF SampleChanges, SamplePresses, SampleReleases, SampleRests
    <3> QED
      BY <3>1, <3>2, <3>3
  <2>4. DeviceTypeOK'
    BY <2>1, <2>2, <2>3 DEF ButtonSample
  <2>5. VoiceExcludesSubmit' /\ ListeningOnlyWhileHeld'
    BY <2>1 DEF VoiceExcludesSubmit, ListeningOnlyWhileHeld
  <2> QED
    BY <1>1, <2>1, <2>2, <2>4, <2>5
<1>3. CASE SampleEndsVoice(d)
  <2>1. OpenWindow \in Submits
    BY DEF OpenWindow, Submits, PressAges, NoPress
  <2>2. candidate' = d /\ ptt /\ ~ptt' /\ visible' = "SubmitPending"
    BY <1>3 DEF SampleEndsVoice, Debounced, Changes
  <2>3. DeviceTypeOK'
    BY <1>3, <2>1, <2>2 DEF SampleEndsVoice, ButtonSample, VisibleStates
  <2> QED
    BY <1>1, <2>2, <2>3 DEF VoiceExcludesSubmit, ListeningOnlyWhileHeld
<1>4. CASE SampleStartsVoice(d)
  <2>1. candidate' = d /\ ptt' /\ submit' = NoSubmit /\ visible' = "Listening"
    BY <1>4 DEF SampleStartsVoice, Held, Changes
  <2>2. SampleAction(d) = "PttDown"
    BY <1>4 DEF SampleStartsVoice, Held, SampleAction
  <2>3. DeviceTypeOK'
    BY <1>4, <2>1, NoSubmitType DEF SampleStartsVoice, ButtonSample, VisibleStates
  <2> QED
    BY <1>1, <2>1, <2>2, <2>3 DEF VoiceExcludesSubmit, ListeningOnlyWhileHeld
<1> QED
  BY <1>2, <1>3, <1>4 DEF ButtonSample

(* The clock moves ages and deadlines within their ranges.                 *)
LEMMA DeviceTickInv ==
  ASSUME DeviceInv, DeviceTick
  PROVE  DeviceInv' /\ submit'.pending = submit.pending
<1> USE DEF DeviceInv, DeviceTypeOK, DeviceTick
<1>1. candidateAge' \in 0..Debounce /\ pressAge' \in 0..Hold
  BY DEF Older
<1>2. submit' \in Submits /\ submit'.pending = submit.pending
  <2>1. \A l \in -MaxStall..Window : Less(l) \in -MaxStall..Window
    BY DEF Less
  <2>2. \A a \in PressAges \ {NoPress} : Older(a, Lockout + MaxStall) \in PressAges
    BY DEF PressAges, Older
  <2> QED
    BY <2>1, <2>2 DEF Submits
<1>3. ptt => submit' = submit
  BY DEF VoiceExcludesSubmit, NoSubmit
<1> QED
  BY <1>1, <1>2, <1>3 DEF VoiceExcludesSubmit, ListeningOnlyWhileHeld

-----------------------------------------------------------------------------
(* The loop and its surroundings: one lemma for each group of actions.     *)
LEMMA ContactInv ==
  ASSUME BootInv, FingerMoves \/ ContactBounces
  PROVE  BootInv'
<1>1. PICK now \in BOOLEAN, byFinger \in BOOLEAN : ContactMoves(now, byFinger)
  BY DEF FingerMoves, ContactBounces, BootInv, BootTypeOK
<1> USE DEF BootInv, BootTypeOK, ContactMoves
<1>2. LatchEdge(now, byFinger)
  BY <1>1
<1>3. /\ edges' \in Seq(Edge)
      /\ Len(edges') <= EdgeQueueLength
      /\ \A i \in DOMAIN edges' :
           \/ edges'[i].age = 0
           \/ i \in DOMAIN edges /\ edges'[i] = edges[i]
  BY <1>2, LatchKeepsQueue
<1>4. UNCHANGED deviceVars
  BY <1>1
<1>5. DeviceTypeOK' /\ VoiceExcludesSubmit' /\ ListeningOnlyWhileHeld'
  BY <1>4 DEF deviceVars, DeviceTypeOK, VoiceExcludesSubmit, ListeningOnlyWhileHeld
<1>6. finger' \in BOOLEAN /\ bounce' \in 0..BounceTime
  <2>1. BounceTime \in 0..BounceTime
    OBVIOUS
  <2> QED
    BY <2>1 DEF FingerMoves, ContactBounces
<1>7. closures' \in 0..2 /\ taps' \in 0..2
  BY <1>1 DEF AtMost2
<1>8. EdgesFresh'
  BY <1>1, <1>3 DEF EdgesFresh
<1>9. HoldsUnspent' /\ LevelTracked' /\ ReleaseDropped'
  BY <1>1, <1>4 DEF HoldsUnspent, LevelTracked, ReleaseDropped, deviceVars
<1> QED
  BY <1>1, <1>3, <1>5, <1>6, <1>7, <1>8, <1>9

(* A tick ages the latched edges and the stall together.                   *)
LEMMA TickInv ==
  ASSUME BootInv, Tick
  PROVE  BootInv'
<1> USE DEF BootInv, BootTypeOK, Tick
<1>1. /\ edges' \in Seq(Edge)
      /\ Len(edges') <= EdgeQueueLength
      /\ \A i \in DOMAIN edges' : edges'[i].age <= stall + 1
  BY TickKeepsQueue DEF EdgesFresh
<1>2. DeviceInv' /\ submit'.pending = submit.pending
  BY DeviceTickInv DEF DeviceInv
<1>3. stall' \in 0..MaxStall /\ bounce' \in 0..BounceTime
  OBVIOUS
<1>4. EdgesFresh'
  BY <1>1 DEF EdgesFresh
<1>5. HoldsUnspent' /\ LevelTracked' /\ ReleaseDropped'
  BY <1>2 DEF HoldsUnspent, LevelTracked, ReleaseDropped, DeviceTick, historyVars
<1> QED
  BY <1>1, <1>2, <1>3, <1>4, <1>5 DEF DeviceInv, historyVars

(* A link change leaves the loop's own state alone.                        *)
LEMMA LinkInv ==
  ASSUME BootInv, LinkChanges
  PROVE  BootInv'
<1> USE DEF BootInv, BootTypeOK, LinkChanges
<1>1. DeviceInv' /\ (submit'.pending => submit.pending)
  BY SetConnectedInv DEF DeviceInv, DeviceTypeOK
<1>2. HoldsUnspent' /\ LevelTracked' /\ EdgesFresh' /\ ReleaseDropped'
  BY <1>1 DEF HoldsUnspent, LevelTracked, EdgesFresh, ReleaseDropped, SetConnected, loopVars, historyVars
<1> QED
  BY <1>1, <1>2 DEF DeviceInv, loopVars, historyVars

(* So does a stateUpdate.                                                  *)
LEMMA StateUpdateInv ==
  ASSUME BootInv, NEW s \in RemoteStates, StateUpdate(s)
  PROVE  BootInv'
<1> USE DEF BootInv, BootTypeOK, StateUpdate
<1>1. DeviceInv' /\ submit' = submit
  BY SetRemoteStateInv DEF DeviceInv
<1>2. HoldsUnspent' /\ LevelTracked' /\ EdgesFresh' /\ ReleaseDropped'
  BY <1>1 DEF HoldsUnspent, LevelTracked, EdgesFresh, ReleaseDropped, SetRemoteState, loopVars,
              historyVars
<1> QED
  BY <1>1, <1>2 DEF DeviceInv, loopVars, historyVars

(* The display task only changes what the gate will read.                  *)
LEMMA ForegroundInv ==
  ASSUME BootInv, ForegroundChanges
  PROVE  BootInv'
BY DEF BootInv, BootTypeOK, ForegroundChanges, deviceVars, historyVars, DeviceTypeOK,
       EdgesFresh, VoiceExcludesSubmit, ListeningOnlyWhileHeld, HoldsUnspent, LevelTracked,
       ReleaseDropped

(* Reading the level arms on a press and keeps LevelTracked.               *)
LEMMA ReadButtonInv ==
  ASSUME BootInv, ReadButton
  PROVE  BootInv'
<1> USE DEF BootInv, BootTypeOK, ReadButton
<1>1. DeviceTypeOK' /\ VoiceExcludesSubmit' /\ ListeningOnlyWhileHeld' /\ HoldsUnspent'
  BY DEF deviceVars, historyVars, DeviceTypeOK, VoiceExcludesSubmit,
         ListeningOnlyWhileHeld, HoldsUnspent
<1>2. EdgesFresh'
  BY DEF EdgesFresh
<1>3. LevelTracked' /\ ReleaseDropped'
  BY DEF LevelTracked, ReleaseDropped, deviceVars
<1> QED
  BY <1>1, <1>2, <1>3 DEF Actions, historyVars

(* A drained edge requests Return only against an unspent hold.            *)
LEMMA DrainEdgeInv ==
  ASSUME BootInv, DrainEdge
  PROVE  BootInv' /\ (fromEdge' /\ ~fromEdge => unspent)
<1> USE DEF BootInv, BootTypeOK, DrainEdge
<1>1. /\ edges' \in Seq(Edge)
      /\ Len(edges') <= EdgeQueueLength
      /\ Head(edges) \in Edge
      /\ \A i \in DOMAIN edges' : i + 1 \in DOMAIN edges /\ edges'[i] = edges[i + 1]
  BY TailKeepsQueue
<1> DEFINE e == Head(edges)
<1>2. e.down \in BOOLEAN /\ e.age \in 0..MaxStall
  BY <1>1 DEF Edge
<1>3. /\ DeviceInv'
      /\ submit'.pending => submit.pending /\ ~EdgeSubmits(e.down, e.age)
      /\ EdgeSubmits(e.down, e.age) => submit.pending
  BY <1>2, ButtonEdgeInv DEF DeviceInv
<1>4. EdgesFresh'
  BY <1>1 DEF EdgesFresh
<1>5. HoldsUnspent'
  <2>1. EdgeSubmits(e.down, e.age) => ~ptt
    BY <1>3 DEF VoiceExcludesSubmit, NoSubmit
  <2> QED
    BY <1>3, <2>1 DEF HoldsUnspent, ButtonEdge
<1>6. LevelTracked' /\ ReleaseDropped'
  BY DEF LevelTracked, ReleaseDropped, ButtonEdge
<1>7. fromEdge' /\ ~fromEdge => unspent
  BY <1>3 DEF HoldsUnspent
<1>8. fromEdge' \in BOOLEAN /\ unspent' \in BOOLEAN
  OBVIOUS
<1> QED
  BY <1>1, <1>3, <1>4, <1>5, <1>6, <1>7, <1>8 DEF DeviceInv

(* Acting on a latched submit delivers nothing else.                       *)
LEMMA EdgesDrainedInv ==
  ASSUME BootInv, EdgesDrained
  PROVE  BootInv'
<1> USE DEF BootInv, BootTypeOK, EdgesDrained
<1>1. DeviceTypeOK' /\ VoiceExcludesSubmit' /\ ListeningOnlyWhileHeld' /\ HoldsUnspent'
  BY DEF deviceVars, historyVars, DeviceTypeOK, VoiceExcludesSubmit,
         ListeningOnlyWhileHeld, HoldsUnspent
<1>2. EdgesFresh'
  BY DEF EdgesFresh
<1>3. LevelTracked' /\ ReleaseDropped'
  BY DEF LevelTracked, ReleaseDropped, deviceVars
<1> QED
  BY <1>1, <1>2, <1>3 DEF Actions, historyVars

(* A debounced release needs a candidate that was already up.              *)
LEMMA ReleaseDisarmed == BootInv => DisarmedBeforeRelease
<1> SUFFICES ASSUME BootInv, pc = "sample", SampleAction(down) \in {"PttUp", "CancelPtt"}
             PROVE  ~armed
  BY DEF DisarmedBeforeRelease
<1>1. ~down /\ ~candidate
  BY DEF SampleAction, Debounced, Changes
<1> QED
  BY <1>1 DEF BootInv, LevelTracked

(* The sample and its gate keep the invariant and drop every release.      *)
LEMMA SampleButtonInv ==
  ASSUME BootInv, SampleButton
  PROVE  BootInv'
<1> USE DEF BootInv, BootTypeOK, SampleButton
<1>1. /\ DeviceInv'
      /\ candidate' = down
      /\ ptt' \/ submit'.pending =>
           ptt \/ submit.pending \/ SampleAction(down) = "PttDown"
  BY ButtonSampleInv DEF DeviceInv
<1>2. action' \in Actions /\ delivered' \in Actions
  BY DEF Gate, SampleAction, Actions
<1>3. taps' \in 0..2 /\ closures' \in 0..2
  BY CappedCount
<1>4. EdgesFresh'
  BY DEF EdgesFresh
<1>5. HoldsUnspent'
  BY <1>1 DEF HoldsUnspent
<1>6. LevelTracked'
  BY <1>1 DEF LevelTracked
<1>7. ReleaseDropped'
  BY ReleaseDisarmed DEF ReleaseDropped, DisarmedBeforeRelease, Gate
<1> QED
  BY <1>1, <1>2, <1>3, <1>4, <1>5, <1>6, <1>7 DEF DeviceInv

(* The switch delivers what the gate let through, never a release.         *)
LEMMA SwitchInv ==
  ASSUME BootInv, Switch
  PROVE  BootInv'
<1> USE DEF BootInv, BootTypeOK, Switch
<1>1. visible' \in {visible, "VoiceError"}
  OBVIOUS
<1>2. DeviceTypeOK' /\ VoiceExcludesSubmit' /\ ListeningOnlyWhileHeld' /\ HoldsUnspent'
  BY <1>1 DEF DeviceTypeOK, VisibleStates, VoiceExcludesSubmit, ListeningOnlyWhileHeld,
              HoldsUnspent
<1>3. EdgesFresh'
  BY DEF EdgesFresh
<1>4. LevelTracked' /\ armed' \in BOOLEAN /\ ReleaseDropped'
  BY DEF LevelTracked, Rearm, ReleaseDropped
<1>5. action' \in Actions /\ delivered' \in Actions /\ announced' \in BOOLEAN
      /\ stall' \in 0..MaxStall
  BY DEF Actions
<1> QED
  BY <1>2, <1>3, <1>4, <1>5

-----------------------------------------------------------------------------
(* The invariant holds when app_main enters its loop ...                   *)
LEMMA InitInv == Init => BootInv
<1> SUFFICES ASSUME Init PROVE BootInv
  OBVIOUS
<1> USE DEF Init, DeviceInit
<1>1. DeviceTypeOK
  <2>1. candidateAge \in 0..Debounce /\ pressAge \in 0..Hold
    OBVIOUS
  <2>2. submit \in Submits
    BY NoSubmitType
  <2> QED
    BY <2>1, <2>2 DEF DeviceTypeOK, VisibleStates
<1>2. BootTypeOK
  <2>1. edges \in Seq(Edge) /\ Len(edges) <= EdgeQueueLength
    BY EmptySeq
  <2>2. bounce \in 0..BounceTime /\ stall \in 0..MaxStall
    OBVIOUS
  <2>3. action \in Actions /\ delivered \in Actions
    BY DEF Actions
  <2>4. taps \in 0..2 /\ closures \in 0..2 /\ pc \in {"idle", "edges", "sample", "switch"}
    OBVIOUS
  <2>5. voice \in BOOLEAN /\ unspent \in BOOLEAN /\ announced \in BOOLEAN
    OBVIOUS
  <2>6. finger \in BOOLEAN /\ level \in BOOLEAN /\ moved \in BOOLEAN
    OBVIOUS
  <2>7. down \in BOOLEAN /\ previous \in BOOLEAN /\ armed \in BOOLEAN /\ fromEdge \in BOOLEAN
    OBVIOUS
  <2> HIDE DEF Init, DeviceInit
  <2> QED
    BY <1>1, <2>1, <2>2, <2>3, <2>4, <2>5, <2>6, <2>7 DEF BootTypeOK
<1>3. EdgesFresh
  BY DEF EdgesFresh
<1>4. HoldsUnspent /\ VoiceExcludesSubmit /\ ListeningOnlyWhileHeld
  BY DEF HoldsUnspent, VoiceExcludesSubmit, ListeningOnlyWhileHeld, NoSubmit
<1>5. LevelTracked /\ ReleaseDropped
  BY DEF LevelTracked, ReleaseDropped
<1> QED
  BY <1>2, <1>3, <1>4, <1>5 DEF BootInv

(* ... every step of Next keeps it ...                                     *)
LEMMA StepInv == BootInv /\ [Next]_vars => BootInv'
<1> SUFFICES ASSUME BootInv, [Next]_vars PROVE BootInv'
  OBVIOUS
<1>1. CASE FingerMoves \/ ContactBounces
  BY <1>1, ContactInv
<1>2. CASE ForegroundChanges
  BY <1>2, ForegroundInv
<1>3. CASE Tick
  BY <1>3, TickInv
<1>4. CASE LinkChanges
  BY <1>4, LinkInv
<1>5. CASE \E s \in RemoteStates : StateUpdate(s)
  BY <1>5, StateUpdateInv
<1>6. CASE ReadButton
  BY <1>6, ReadButtonInv
<1>7. CASE DrainEdge
  BY <1>7, DrainEdgeInv
<1>8. CASE EdgesDrained
  BY <1>8, EdgesDrainedInv
<1>9. CASE SampleButton
  BY <1>9, SampleButtonInv
<1>10. CASE Switch
  BY <1>10, SwitchInv
<1>11. CASE UNCHANGED vars
  BY <1>11 DEF BootInv, BootTypeOK, vars, deviceVars, loopVars, historyVars,
               DeviceTypeOK, EdgesFresh, VoiceExcludesSubmit, ListeningOnlyWhileHeld,
               HoldsUnspent, LevelTracked, ReleaseDropped
<1> QED
  BY <1>1, <1>2, <1>3, <1>4, <1>5, <1>6, <1>7, <1>8, <1>9, <1>10, <1>11 DEF Next

(* ... so it always holds.                                                 *)
LEMMA Invariant == Spec => []BootInv
  BY InitInv, StepInv, PTL DEF Spec

-----------------------------------------------------------------------------
(* Every variable of the loop keeps its type; in particular no deadline    *)
(* runs below -MaxStall and no latched edge is older than the longest      *)
(* iteration, so the ages of DeviceModel lose nothing.                     *)
THEOREM TypeCorrect == Spec => []BootTypeOK
<1>1. BootInv => BootTypeOK
  BY DEF BootInv
<1> QED
  BY <1>1, Invariant, PTL

(* No submit window is open while a hold records.                          *)
THEOREM VoiceExcludesSubmitHolds == Spec => []VoiceExcludesSubmit
<1>1. BootInv => VoiceExcludesSubmit
  BY DEF BootInv
<1> QED
  BY <1>1, Invariant, PTL

(* The screen shows LISTENING only during a hold.                          *)
THEOREM ListeningHolds == Spec => []ListeningOnlyWhileHeld
<1>1. BootInv => ListeningOnlyWhileHeld
  BY DEF BootInv
<1> QED
  BY <1>1, Invariant, PTL

(* Whatever the debounce time, the hold time and the stalls of the loop,   *)
(* a release the debouncer reports meets a disarmed gate.                  *)
THEOREM DisarmedHolds == Spec => []DisarmedBeforeRelease
  BY Invariant, ReleaseDisarmed, PTL

(* The consequence: app_main never carries out PTT_UP or CANCEL_PTT, for   *)
(* any value of the constants.  ReleaseIsAnnounced fails for this reason.  *)
THEOREM ReleaseNeverDelivered == Spec => [](delivered \notin {"PttUp", "CancelPtt"})
<1>1. BootInv => delivered \notin {"PttUp", "CancelPtt"}
  BY DEF BootInv, ReleaseDropped
<1> QED
  BY <1>1, Invariant, PTL

(* A Return is only ever taken from a voice hold that has not had its own. *)
THEOREM SubmitSpendsHoldHolds == Spec => SubmitSpendsHold
<1>1. BootInv /\ [Next]_vars => [fromEdge' /\ ~fromEdge => unspent]_vars
  <2> SUFFICES ASSUME BootInv, [Next]_vars, fromEdge', ~fromEdge PROVE unspent
    OBVIOUS
  <2>1. CASE DrainEdge
    BY <2>1, DrainEdgeInv
  <2>2. CASE ReadButton
    BY <2>2 DEF ReadButton
  <2>3. CASE ~DrainEdge /\ ~ReadButton
    <3>1. fromEdge' = fromEdge
      BY <2>3 DEF Next, FingerMoves, ContactBounces, ContactMoves, ForegroundChanges,
                  Tick, LinkChanges, StateUpdate, EdgesDrained, SampleButton, Switch,
                  vars, loopVars
    <3> QED
      BY <3>1
  <2> QED
    BY <2>1, <2>2, <2>3
<1> QED
  BY <1>1, Invariant, PTL DEF Spec, SubmitSpendsHold
-----------------------------------------------------------------------------
(* Why a Return needs two closures.  `closures' never falls below the      *)
(* presses that are still to be judged: those in the queue, and the one    *)
(* that armed the confirmation.  It counts up to two, so it is enough to   *)
(* tell one such press from two.                                           *)
PressesCounted ==
  /\ \A i \in DOMAIN edges : edges[i].down => closures >= 1
  /\ \A i, j \in DOMAIN edges : edges[i].down /\ edges[j].down /\ i # j => closures = 2

ConfirmCounted ==
  submit.confirm =>
    closures >= 1 /\ \A i \in DOMAIN edges : edges[i].down => closures = 2

(* The loop forgets fromEdge only in its next iteration, so it says        *)
(* something of the present hold only while the edges are being drained.   *)
SubmitCounted ==
  /\ pc = "edges" /\ fromEdge => closures = 2
  /\ delivered = "Submit" => pc = "sample" /\ closures = 2
  /\ action # "Submit"

SubmitInv == PressesCounted /\ ConfirmCounted /\ SubmitCounted

(* A closure counts, whether its edge finds room in the queue or not.      *)
LEMMA LatchedIsCounted ==
  ASSUME BootTypeOK, SubmitInv, NEW now \in BOOLEAN, NEW byFinger \in BOOLEAN,
         ContactMoves(now, byFinger)
  PROVE  SubmitInv'
<1> USE DEF BootTypeOK, SubmitInv
<1>1. /\ closures' = IF now THEN AtMost2(closures + 1) ELSE closures
      /\ UNCHANGED <<submit, pc, fromEdge, delivered, action>>
      /\ LatchEdge(now, byFinger)
  BY DEF ContactMoves, deviceVars
<1>2. closures \in 0..2 /\ closures' \in 0..2 /\ closures' >= closures
      /\ (now => closures' >= 1 /\ (closures >= 1 => closures' = 2))
  BY <1>1 DEF AtMost2
<1>3. /\ DOMAIN edges = 1..Len(edges) /\ Len(edges) \in Nat
      /\ DOMAIN edges' = 1..Len(edges')
      /\ Len(edges') \in {Len(edges), Len(edges) + 1}
      /\ \A i \in DOMAIN edges : i \in DOMAIN edges' /\ edges'[i] = edges[i]
      /\ \A i \in DOMAIN edges' : i \notin DOMAIN edges =>
           i = Len(edges) + 1 /\ (edges'[i].down => now)
  <2> DEFINE e == [down |-> now, age |-> 0, tap |-> byFinger]
  <2>1. CASE edges' = Append(edges, e)
    <3>1. e \in Edge /\ e.down = now
      BY DEF Edge
    <3> HIDE DEF e
    <3>2. edges' \in Seq(Edge) /\ Len(edges') = Len(edges) + 1
      BY <2>1, <3>1
    <3>3. \A i \in 1..Len(edges') : edges'[i] = IF i <= Len(edges) THEN edges[i] ELSE e
      BY <2>1, <3>1, <3>2
    <3>4. DOMAIN edges = 1..Len(edges) /\ Len(edges) \in Nat /\ DOMAIN edges' = 1..Len(edges')
      BY <3>2
    <3> QED
      BY <3>1, <3>2, <3>3, <3>4
  <2>2. CASE edges' = edges
    BY <2>2
  <2> QED
    BY <1>1, <2>1, <2>2 DEF LatchEdge
<1>4. PressesCounted'
  <2>0. /\ \A i \in DOMAIN edges : edges[i].down => closures >= 1
        /\ \A i, j \in DOMAIN edges : edges[i].down /\ edges[j].down /\ i # j => closures = 2
    BY DEF PressesCounted
  <2>1. ASSUME NEW i \in DOMAIN edges', edges'[i].down
        PROVE  closures' >= 1
    <3>1. CASE i \in DOMAIN edges
      <4>1. edges[i].down
        BY <1>3, <2>1, <3>1
      <4>2. closures >= 1
        BY <2>0, <3>1, <4>1
      <4> QED
        BY <1>2, <4>2
    <3>2. CASE i \notin DOMAIN edges
      BY <1>2, <1>3, <2>1, <3>2
    <3> QED
      BY <3>1, <3>2
  <2>2. ASSUME NEW i \in DOMAIN edges', NEW j \in DOMAIN edges',
               edges'[i].down, edges'[j].down, i # j
        PROVE  closures' = 2
    <3>1. CASE i \in DOMAIN edges /\ j \in DOMAIN edges
      <4>1. edges[i].down /\ edges[j].down
        BY <1>3, <2>2, <3>1
      <4>2. closures = 2
        BY <2>0, <2>2, <3>1, <4>1
      <4> QED
        BY <1>2, <4>2
    <3>2. CASE i \notin DOMAIN edges
      <4>1. now /\ j \in DOMAIN edges /\ edges[j].down
        BY <1>3, <2>2, <3>2
      <4> QED
        BY <1>2, <4>1 DEF PressesCounted
    <3>3. CASE j \notin DOMAIN edges
      <4>1. now /\ i \in DOMAIN edges /\ edges[i].down
        BY <1>3, <2>2, <3>3
      <4> QED
        BY <1>2, <4>1 DEF PressesCounted
    <3> QED
      BY <3>1, <3>2, <3>3
  <2> QED
    BY <2>1, <2>2 DEF PressesCounted
<1>5. ConfirmCounted'
  BY <1>1, <1>2, <1>3 DEF ConfirmCounted
<1>6. SubmitCounted'
  BY <1>1, <1>2 DEF SubmitCounted
<1> QED
  BY <1>4, <1>5, <1>6

(* A tick moves no edge and confirms nothing.                              *)
LEMMA TickedIsCounted ==
  ASSUME BootTypeOK, SubmitInv, Tick
  PROVE  SubmitInv'
<1> USE DEF BootTypeOK, SubmitInv
<1>1. /\ UNCHANGED <<closures, pc, fromEdge, delivered, action>>
      /\ DOMAIN edges' = DOMAIN edges
      /\ \A i \in DOMAIN edges : edges'[i].down = edges[i].down
  BY DEF Tick, historyVars, Aged
<1>2. submit'.confirm = submit.confirm
  BY DEF Tick, DeviceTick, DeviceTypeOK, Submits
<1> QED
  BY <1>1, <1>2 DEF PressesCounted, ConfirmCounted, SubmitCounted

(* The press at the head arms, and is then counted by the confirmation, or *)
(* it confirms, and then it was the second.                                *)
LEMMA DrainedIsCounted ==
  ASSUME BootTypeOK, SubmitInv, DrainEdge
  PROVE  SubmitInv'
<1> USE DEF BootTypeOK, SubmitInv
<1> DEFINE e == Head(edges)
<1>1. /\ e = edges[1] /\ 1 \in DOMAIN edges /\ e \in Edge
      /\ edges' \in Seq(Edge)
      /\ \A i \in DOMAIN edges' : i + 1 \in DOMAIN edges /\ edges'[i] = edges[i + 1]
  BY TailKeepsQueue DEF DrainEdge
<1>2. /\ UNCHANGED <<closures, pc, delivered, action>> /\ pc = "edges"
      /\ fromEdge' => fromEdge \/ EdgeSubmits(e.down, e.age)
      /\ ButtonEdge(e.down, e.age)
  BY DEF DrainEdge
<1> HIDE DEF e
<1>3. \A i \in DOMAIN edges' : i \in Nat \ {0}
  <2>1. DOMAIN edges' = 1..Len(edges')
    BY <1>1
  <2> QED
    BY <2>1
<1>4. \A i \in DOMAIN edges' : e.down /\ edges'[i].down => closures = 2
  BY <1>1, <1>3 DEF PressesCounted
<1>5. PressesCounted'
  <2>1. \A i \in DOMAIN edges' : edges'[i].down => closures >= 1
    BY <1>1 DEF PressesCounted
  <2>2. ASSUME NEW i \in DOMAIN edges', NEW j \in DOMAIN edges',
               edges'[i].down, edges'[j].down, i # j
        PROVE  closures = 2
    <3>1. i + 1 # j + 1
      BY <1>3, <2>2
    <3> QED
      BY <1>1, <2>2, <3>1 DEF PressesCounted
  <2> QED
    BY <1>2, <2>1, <2>2 DEF PressesCounted
<1>6. ConfirmCounted'
  <2>1. CASE EdgeArms(e.down, e.age)
    <3>1. e.down
      BY <2>1 DEF EdgeArms, EdgeTaken
    <3>2. closures >= 1
      BY <1>1, <3>1 DEF PressesCounted
    <3> QED
      BY <1>2, <1>4, <3>1, <3>2 DEF ConfirmCounted
  <2>2. CASE ~EdgeArms(e.down, e.age)
    <3>1. submit'.confirm => submit.confirm
      BY <1>2, <2>2 DEF ButtonEdge, EdgeIgnored, EdgeConfirms, NoSubmit
    <3> QED
      BY <1>1, <1>2, <3>1 DEF ConfirmCounted
  <2> QED
    BY <2>1, <2>2
<1>7. SubmitCounted'
  <2>1. EdgeSubmits(e.down, e.age) => closures = 2
    BY <1>1 DEF EdgeSubmits, EdgeTaken, ConfirmCounted
  <2> QED
    BY <1>2, <2>1 DEF SubmitCounted
<1> QED
  BY <1>5, <1>6, <1>7

(* When a hold ends, the presses already in the queue are counted anew.    *)
LEMMA QueuedAreCounted ==
  ASSUME edges \in Seq(Edge),
         NEW i \in DOMAIN edges, edges[i].down
  PROVE  /\ AtMost2(Cardinality(QueuedPresses(FALSE))) \in {1, 2}
         /\ \A j \in DOMAIN edges : edges[j].down /\ i # j =>
              AtMost2(Cardinality(QueuedPresses(FALSE))) = 2
<1> DEFINE P == QueuedPresses(FALSE)
<1>1. P = {k \in DOMAIN edges : edges[k].down}
  BY DEF QueuedPresses
<1>2. IsFiniteSet(P)
  <2>0. DOMAIN edges = 1..Len(edges) /\ Len(edges) \in Nat
    OBVIOUS
  <2>1. P \subseteq 1..Len(edges)
    BY <1>1, <2>0
  <2>2. IsFiniteSet(1..Len(edges))
    BY <2>0, FS_Interval
  <2> QED
    BY <2>1, <2>2, FS_Subset
<1>3. i \in P
  BY <1>1
<1> SUFFICES /\ AtMost2(Cardinality(P)) \in {1, 2}
             /\ \A j \in P : i # j => AtMost2(Cardinality(P)) = 2
  BY <1>1
<1> HIDE DEF P
<1>4. Cardinality(P) \in Nat
  BY <1>2, FS_CardinalityType
<1>5. \A c \in Nat : (c >= 1 => AtMost2(c) \in {1, 2}) /\ (c >= 2 => AtMost2(c) = 2)
  BY DEF AtMost2
<1>6. IsFiniteSet(P \ {i}) /\ Cardinality(P \ {i}) = Cardinality(P) - 1
  BY <1>2, <1>3, FS_RemoveElement
<1>7. Cardinality(P \ {i}) \in Nat
  BY <1>6, FS_CardinalityType
<1>8. ASSUME NEW j \in P, i # j
      PROVE  Cardinality(P \ {i}) # 0
  <2>1. P \ {i} # {}
    BY <1>8
  <2> QED
    BY <1>6, <2>1, FS_EmptySet
<1>9. Cardinality(P) >= 1 /\ (Cardinality(P \ {i}) # 0 => Cardinality(P) >= 2)
  <2>1. \A c, d \in Nat : d = c - 1 => c >= 1 /\ (d # 0 => c >= 2)
    OBVIOUS
  <2> QED
    BY <1>4, <1>6, <1>7, <2>1, Zenon
<1> QED
  BY <1>4, <1>5, <1>8, <1>9, Zenon

(* A sample confirms nothing, and the end of a hold opens its window       *)
(* unconfirmed.                                                            *)
LEMMA SampledIsCounted ==
  ASSUME BootTypeOK, SubmitInv, SampleButton
  PROVE  SubmitInv'
<1> USE DEF BootTypeOK, SubmitInv
<1>1. /\ UNCHANGED edges /\ delivered' = "None" /\ pc' = "switch"
      /\ action' = Gate(SampleAction(down))
      /\ ButtonSample(down)
  BY DEF SampleButton
<1>2. SubmitCounted'
  BY <1>1 DEF SubmitCounted, Gate, SampleAction
<1>3. CASE SampleAction(down) = "PttUp"
  <2>1. closures' = AtMost2(Cardinality(QueuedPresses(FALSE)))
    BY <1>3 DEF SampleButton
  <2>2. PressesCounted'
    <3>1. ASSUME NEW i \in DOMAIN edges, edges[i].down
          PROVE  /\ closures' \in {1, 2}
                 /\ \A j \in DOMAIN edges : edges[j].down /\ i # j => closures' = 2
      BY <2>1, <3>1, QueuedAreCounted
    <3>2. ASSUME NEW i \in DOMAIN edges, edges[i].down
          PROVE  closures' >= 1
      BY <3>1, <3>2
    <3> QED
      BY <1>1, <3>1, <3>2 DEF PressesCounted
  <2>3. Debounced(down) /\ ~down /\ ptt
    BY <1>3 DEF SampleAction
  <2>4. submit' = OpenWindow
    BY <1>1, <2>3 DEF ButtonSample, SampleChanges, SamplePresses, SampleEndsVoice,
                      SampleReleases, SampleStartsVoice, SampleRests, Debounced, Held
  <2>5. ConfirmCounted'
    BY <2>4 DEF ConfirmCounted, OpenWindow
  <2> QED
    BY <1>2, <2>2, <2>5
<1>4. CASE SampleAction(down) # "PttUp"
  <2>1. UNCHANGED closures
    BY <1>4 DEF SampleButton
  <2>2. ~SampleEndsVoice(down)
    BY <1>4 DEF SampleEndsVoice, SampleAction
  <2>3. submit' \in {SubmitNow, NoSubmit}
    BY <1>1, <2>2 DEF ButtonSample, SampleChanges, SamplePresses, SampleReleases,
                      SampleStartsVoice, SampleRests, Expire
  <2>4. SubmitNow.confirm => submit.confirm
    BY DEF SubmitNow, NoSubmit, DeviceTypeOK, Submits
  <2>5. submit'.confirm => submit.confirm
    BY <2>3, <2>4 DEF NoSubmit
  <2> QED
    BY <1>1, <1>2, <2>1, <2>5 DEF PressesCounted, ConfirmCounted
<1> QED
  BY <1>3, <1>4

(* The other steps of the loop only pass the request on.                   *)
LEMMA PassedOnIsCounted ==
  ASSUME BootTypeOK, SubmitInv, ReadButton \/ EdgesDrained \/ Switch
  PROVE  SubmitInv'
<1> USE DEF BootTypeOK, SubmitInv
<1>1. UNCHANGED <<edges, closures, submit>>
  BY DEF ReadButton, EdgesDrained, Switch, deviceVars, historyVars
<1>2. PressesCounted' /\ ConfirmCounted'
  BY <1>1 DEF PressesCounted, ConfirmCounted
<1>3. SubmitCounted'
  BY <1>1 DEF SubmitCounted, ReadButton, EdgesDrained, Switch
<1> QED
  BY <1>2, <1>3

(* What the link and the display do can only close the window.             *)
LEMMA ElsewhereIsCounted ==
  ASSUME SubmitInv,
         \/ ForegroundChanges \/ LinkChanges \/ UNCHANGED vars
         \/ \E s \in RemoteStates : StateUpdate(s)
  PROVE  SubmitInv'
<1>1. /\ UNCHANGED <<edges, closures, pc, fromEdge, delivered, action>>
      /\ submit' \in {submit, NoSubmit}
  BY DEF ForegroundChanges, LinkChanges, StateUpdate, SetConnected, SetRemoteState,
         vars, deviceVars, loopVars, historyVars
<1>2. submit'.confirm => submit.confirm
  BY <1>1 DEF NoSubmit
<1> QED
  BY <1>1, <1>2 DEF SubmitInv, PressesCounted, ConfirmCounted, SubmitCounted

(* The count holds from the start on, in every state.                      *)
LEMMA SubmitInvariant == Spec => []SubmitInv
<1>1. Init => SubmitInv
  BY DEF Init, DeviceInit, NoSubmit, SubmitInv, PressesCounted, ConfirmCounted,
         SubmitCounted
<1>2. BootInv /\ SubmitInv /\ [Next]_vars => SubmitInv'
  <2> SUFFICES ASSUME BootInv, SubmitInv, [Next]_vars PROVE SubmitInv'
    OBVIOUS
  <2>1. BootTypeOK
    BY DEF BootInv
  <2>2. CASE FingerMoves \/ ContactBounces
    <3>1. \E now, byFinger \in BOOLEAN : ContactMoves(now, byFinger)
      BY <2>1, <2>2 DEF FingerMoves, ContactBounces, BootTypeOK
    <3> QED
      BY <2>1, <3>1, LatchedIsCounted
  <2>3. CASE ForegroundChanges \/ LinkChanges \/ UNCHANGED vars
             \/ \E s \in RemoteStates : StateUpdate(s)
    BY <2>3, ElsewhereIsCounted
  <2>4. CASE ReadButton \/ EdgesDrained \/ Switch
    BY <2>1, <2>4, PassedOnIsCounted
  <2> QED
    BY <2>1, <2>2, <2>3, <2>4, TickedIsCounted, DrainedIsCounted, SampledIsCounted DEF Next
<1> QED
  BY <1>1, <1>2, Invariant, PTL DEF Spec

(* Return needs two closures of the contact since the voice hold ended,    *)
(* for any length of the queue, any lockout and any stall of the loop: no  *)
(* edge is judged twice, and none survives from before the hold.           *)
THEOREM SubmitNeedsTwoClosuresHolds == Spec => []SubmitNeedsTwoClosures
<1>1. SubmitInv => SubmitNeedsTwoClosures
  BY DEF SubmitInv, SubmitCounted, SubmitNeedsTwoClosures
<1> QED
  BY <1>1, SubmitInvariant, PTL
=============================================================================
