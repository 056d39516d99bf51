-------------------------- MODULE WiFiAudioGateway --------------------------
(***************************************************************************)
(* WiFiAudioGateway.swift: frames of the device come in over UDP, lost,    *)
(* repeated or out of order; a replay window admits each once; what races  *)
(* ahead of a press waits in a prebuffer; a jitter buffer feeds the        *)
(* playout timer.  Every handler runs on the queue of the gateway, so each *)
(* is one action.                                                          *)
(*                                                                         *)
(* A frame is its number, from 1 on (wifi_transport.c numbers it once per  *)
(* session).  Frames of another address, session or key change nothing     *)
(* but a counter and are left out, as the other diagnostics are.  Instants *)
(* are kept as ages, up to the value no comparison looks beyond.           *)
(***************************************************************************)
EXTENDS Naturals, FiniteSets

CONSTANTS
  Window,          \* packets the replay window remembers: 64
  FrameLimit,      \* frames in the jitter buffer: 64
  PrebufferLimit,  \* frames in the prebuffer: 5
  StartCount,      \* frames that start the playout: 3
  Jitter,          \* jitterBufferDuration: 60 ms
  Prebuffer,       \* prebufferDuration: 100 ms
  Stall,           \* stallDiagnosticDuration: 500 ms
  PostRoll,        \* postRollMs of endPTT: 200 ms
  MaxFrame         \* bound: frames in a session

ASSUME LimitsAssumption ==
  /\ Window \in Nat \ {0} /\ MaxFrame \in Nat \ {0}
  /\ FrameLimit \in Nat /\ PrebufferLimit \in 1..FrameLimit
  /\ StartCount \in 1..FrameLimit
ASSUME DurationsAssumption ==
  /\ Jitter \in Nat \ {0} /\ Prebuffer \in Nat \ {0}
  /\ Stall \in Nat \ {0} /\ PostRoll \in Nat \ {0}

Frames == 1..MaxFrame
Old == Prebuffer + 1     \* age of a frame that is not, or no longer, kept
Unset == Jitter + 1      \* firstBufferedAt is nil

VARIABLES
  session,   \* a session is configured
  high,      \* highestSequence of the replay window, 0 for nil
  mask,      \* the distances below high whose bit is set
  ptt,       \* pttState
  drain,     \* draining: what is left until the deadline
  early,     \* the prebuffer: per frame, how long ago it arrived
  frames,    \* the jitter buffer
  expected,  \* expectedSequence, 0 for nil
  first,     \* how long ago firstBufferedAt was
  playing,   \* playoutStarted
  silence,   \* time since lastValidArrival ?? pttStartedAt
  stalled,   \* stallReported
  last,      \* history: number last given to the sink in this press
  silent,    \* history: it was concealed
  heard      \* history: frames of this session given to the sink

windowVars == <<high, mask>>
bufferVars == <<frames, expected, first, playing>>
stallVars == <<silence, stalled>>
vars == <<session, windowVars, ptt, drain, early, bufferVars, stallVars, last, silent, heard>>

GatewayTypeOK ==
  /\ session \in BOOLEAN
  /\ high \in 0..MaxFrame /\ mask \subseteq 0..(Window - 1)
  /\ ptt \in {"Idle", "Active", "Draining"} /\ drain \in 0..PostRoll
  /\ early \in [Frames -> 0..Old]
  /\ frames \subseteq Frames
  /\ expected \in 0..(MaxFrame + 1) /\ first \in 0..Unset /\ playing \in BOOLEAN
  /\ silence \in 0..Stall /\ stalled \in BOOLEAN
  /\ last \in 0..MaxFrame /\ silent \in BOOLEAN /\ heard \subseteq Frames

AtMost(age, limit) == IF age < limit THEN age ELSE limit
Kept(ages) == {n \in Frames : ages[n] <= Prebuffer}
NoneKept == [n \in Frames |-> Old]

Init ==
  /\ session = FALSE /\ high = 0 /\ mask = {}
  /\ ptt = "Idle" /\ drain = 0 /\ early = NoneKept
  /\ frames = {} /\ expected = 0 /\ first = Unset /\ playing = FALSE
  /\ silence = 0 /\ stalled = FALSE
  /\ last = 0 /\ silent = FALSE /\ heard = {}

-----------------------------------------------------------------------------
(* WiFiReplayWindow: a new high number moves the window; an earlier one is *)
(* accepted if its bit is still there and not set.                         *)
WindowNeverChecks(n) == TRUE
Accepts(n) ==
  \/ high = 0 \/ n > high
  \/ high - n < Window /\ (high - n) \notin mask

Shifted(n) ==
  {0} \cup {d \in 0..(Window - 1) : d >= n - high /\ d - (n - high) \in mask}
Admit(n) ==
  IF high = 0 THEN high' = n /\ mask' = {0}
  ELSE IF n > high THEN high' = n /\ mask' = Shifted(n)
       ELSE high' = high /\ mask' = mask \cup {high - n}

-----------------------------------------------------------------------------
(* resetPTTState without what becomes of the state and the prebuffer.      *)
ResetBuffers ==
  /\ frames' = {} /\ expected' = 0 /\ first' = Unset /\ playing' = FALSE
  /\ silence' = 0 /\ stalled' = FALSE
  /\ drain' = 0
  /\ last' = 0 /\ silent' = FALSE
ResetPTTState ==
  /\ ptt' = "Idle"
  /\ early' = NoneKept
  /\ ResetBuffers

(* configure(session:), from the network queue of the control server.      *)
Configure(new) ==
  /\ session' = new
  /\ high' = 0 /\ mask' = {}
  /\ ResetPTTState
  /\ heard' = {}

CancelPTT ==
  /\ ResetPTTState
  /\ UNCHANGED <<session, windowVars, heard>>

(* beginPTT: the frames that raced ahead, if they are recent, come first.  *)
BeginPTT ==
  LET recent == Kept(early) IN
  /\ ptt' = "Active"
  /\ frames' = recent
  /\ \/ recent = {} /\ first' = Unset /\ silence' = 0
     \/ \E oldest, youngest \in recent :
          /\ \A n \in recent : early[n] \in early[youngest]..early[oldest]
          /\ first' = AtMost(early[oldest], Jitter)
          /\ silence' = AtMost(early[youngest], Stall)
  /\ early' = NoneKept
  /\ expected' = 0 /\ playing' = FALSE /\ stalled' = FALSE /\ drain' = 0
  /\ last' = 0 /\ silent' = FALSE
  /\ UNCHANGED <<session, windowVars, heard>>

EndPTT ==
  /\ ptt = "Active"
  /\ ptt' = "Draining" /\ drain' = PostRoll
  /\ UNCHANGED <<session, windowVars, early, bufferVars, stallVars, last, silent, heard>>

-----------------------------------------------------------------------------
(* ingest, once the frame is authentic.                                    *)

(* In idle: keep it, forget what is too old, and keep no more than the     *)
(* limit by removing an oldest frame.                                      *)
Prebuffers(n) ==
  LET with == [early EXCEPT ![n] = 0] IN
  IF Cardinality(Kept(with)) <= PrebufferLimit THEN early' = with
  ELSE \E oldest \in Kept(with) :
         /\ \A m \in Kept(with) : with[m] <= with[oldest]
         /\ early' = [with EXCEPT ![oldest] = Old]

(* In a press: drop it if the playout is past it or the buffer is full.    *)
Enqueue(n) ==
  IF (expected # 0 /\ n < expected) \/ Cardinality(frames) >= FrameLimit
  THEN UNCHANGED <<frames, first>>
  ELSE /\ frames' = frames \cup {n}
       /\ first' = IF first = Unset THEN 0 ELSE first

Receive(n) ==
  /\ session /\ Accepts(n)
  /\ Admit(n)
  /\ silence' = 0 /\ stalled' = FALSE
  /\ IF ptt = "Idle" THEN Prebuffers(n) /\ UNCHANGED <<frames, first>>
     ELSE Enqueue(n) /\ UNCHANGED early
  /\ UNCHANGED <<session, ptt, drain, expected, playing, last, silent, heard>>

-----------------------------------------------------------------------------
(* playoutTick, every 20 ms.                                               *)
NeverOver == FALSE
DrainOver == ptt = "Draining" /\ drain = 0

TickEnds ==
  /\ DrainOver
  /\ ResetPTTState
  /\ UNCHANGED <<session, windowVars, heard>>

Ticking == ptt # "Idle" /\ ~DrainOver
ReportStall == stalled' = (stalled \/ silence >= Stall) /\ UNCHANGED silence

(* The frame that is due: the first one when the playout starts.           *)
MayStart ==
  /\ first # Unset /\ frames # {}
  /\ Cardinality(frames) >= StartCount \/ first >= Jitter
Due(n) ==
  IF playing THEN n = expected
  ELSE MayStart /\ n \in frames /\ \A m \in frames : n <= m

TickWaits ==
  /\ Ticking
  /\ ~playing /\ ~MayStart
  /\ ReportStall
  /\ UNCHANGED <<session, windowVars, ptt, drain, early, bufferVars, last, silent, heard>>

Advance(n, concealed) ==
  /\ expected' = n + 1
  /\ playing' = TRUE
  /\ last' = n /\ silent' = concealed
  /\ ReportStall
  /\ UNCHANGED <<session, windowVars, ptt, drain, early, first>>
TickPlays ==
  /\ Ticking
  /\ \E n \in frames : Due(n) /\ frames' = frames \ {n} /\ heard' = heard \cup {n}
                       /\ Advance(n, FALSE)

(* A later frame proves that this one is lost: one frame of silence.       *)
TickConceals ==
  /\ Ticking
  /\ playing /\ expected \notin frames
  /\ \E later \in frames : later > expected
  /\ Advance(expected, TRUE)
  /\ UNCHANGED <<frames, heard>>

(* Nothing later is here: hold the place and fill the buffer again.        *)
TickRebuffers ==
  /\ Ticking
  /\ playing /\ \A n \in frames : n < expected
  /\ playing' = FALSE /\ first' = Unset
  /\ ReportStall
  /\ UNCHANGED <<session, windowVars, ptt, drain, early, frames, expected, last, silent,
                 heard>>

(* The sink refuses the samples: the press is over, and the service is     *)
(* told (SinkFails of VoiceSession).                                       *)
TickFails ==
  /\ Ticking
  /\ \/ \E n \in frames : Due(n)
     \/ playing /\ \E later \in frames : later > expected
  /\ ResetPTTState
  /\ UNCHANGED <<session, windowVars, heard>>

PlayoutTick ==
  TickEnds \/ TickWaits \/ TickPlays \/ TickConceals \/ TickRebuffers \/ TickFails

Elapse ==
  /\ drain' = IF drain > 0 THEN drain - 1 ELSE 0
  /\ early' = [n \in Frames |-> AtMost(early[n] + 1, Old)]
  /\ first' = IF first = Unset THEN Unset ELSE AtMost(first + 1, Jitter)
  /\ silence' = IF ptt = "Idle" THEN silence ELSE AtMost(silence + 1, Stall)
  /\ UNCHANGED <<session, windowVars, ptt, frames, expected, playing, stalled, last,
                 silent, heard>>

Next ==
  \/ \E new \in BOOLEAN : Configure(new)
  \/ BeginPTT \/ EndPTT \/ CancelPTT
  \/ \E n \in Frames : Receive(n)
  \/ PlayoutTick
  \/ Elapse

(* The timer of the gateway fires and time passes.                         *)
Fairness == WF_vars(PlayoutTick) /\ WF_vars(Elapse)
Spec == Init /\ [][Next]_vars /\ Fairness
-----------------------------------------------------------------------------
(* The gateway plays as InOrderPlayout says: in a press only, every frame  *)
(* at most once in a session, and never backwards within a press.          *)
Playout == INSTANCE InOrderPlayout WITH open <- ptt # "Idle"
PlaysInOrder == Playout!Spec

(* A frame that was heard, or waits to be, is not admitted again, also     *)
(* after the window has moved and through the end of a press.              *)
NeverAdmittedAgain == \A n \in heard \cup frames \cup Kept(early) : ~Accepts(n)

(* What waits is still to come: the playout is not past it; and until the  *)
(* playout starts, the time it has waited is known.                        *)
BufferAhead ==
  /\ expected # 0 => \A n \in frames : n >= expected
  /\ ~playing /\ frames # {} => first # Unset

(* While the playout runs it keeps the timeline: the next place of the     *)
(* stream is played or concealed, none is skipped.                         *)
TimelineKept == [][playing /\ last' > last => last' = last + 1]_vars

(* A frame does not stay in the jitter buffer for ever, however jitter and *)
(* rebuffering fall.                                                       *)
FramesLeave == \A n \in Frames : n \in frames ~> n \notin frames

(* A released press is played out and closed; silence does not hold it.    *)
DrainsOut == ptt = "Draining" ~> ptt # "Draining"
=============================================================================
