---------------------------- MODULE AudioProofs ----------------------------
(***************************************************************************)
(* The audio on the Mac, for every limit, buffer size and bound.           *)
(*                                                                         *)
(* First: the virtual microphone keeps the samples of a session in order    *)
(* and gives each to CoreAudio once.  Socket, batch and ring are one queue  *)
(* (Past, RingInv), and between a sample and what is older than its session *)
(* there is a clear, or nothing older is left (StaysParted).                *)
(*                                                                         *)
(* Then: the gateway plays as InOrderPlayout says, admits a frame once, and *)
(* keeps the timeline.  Whatever is heard or waits to be has its bit in the *)
(* replay window, or has fallen behind it (Admitted), so a frame that is    *)
(* accepted is new; and what waits in a press lies ahead of the place that  *)
(* was played last (PlaceInv).                                             *)
(***************************************************************************)
EXTENDS WiFiAudioGateway, MicDriver, WellFoundedInduction, NaturalsInduction, TLAPS

(* The virtual microphone.                                                 *)
MicMessages == [kind : {"CLER", "CMIC", "EOF"}, first : Nat, count : Nat, since : Nat]

MicTypes ==
  /\ MicTypeOK
  /\ stream \in Seq(MicMessages)
  /\ batch \in [first : Nat, accepted : Nat, since : Nat]

(* What is there while a process is not, and what a session that waits for  *)
(* the driver finds.                                                       *)
Plumbing ==
  /\ agent.descriptor = "open" => server # "none"
  /\ server # "write" => batch = NoBatch
  /\ reader.read + reader.copied <= ring.w
  /\ server = "none" => /\ stream = <<>> /\ ring.w = ring.r
                        /\ reader = NotReading /\ ~clients /\ ~raced
  /\ agent.pending => /\ agent.descriptor = "closed" /\ stream = <<>> /\ server # "write"
                      /\ ring.w = ring.r /\ ~raced

(* Samples come in the order of their numbers, through socket, server and   *)
(* ring; what was stored or heard lies before all that is on its way.      *)
Below(n) ==
  /\ \A i \in 0..Capacity - 1 : ring.slots[i] < n
  /\ given.from < n /\ given.to < n /\ ring.w < n
Ahead(n) == Below(n) /\ (server = "write" => batch.first + batch.accepted <= n)

InOrder(q, n, s) ==
  \A i \in 1..Len(q) :
    /\ Ahead(q[i].first) /\ q[i].first + q[i].count <= n + 1
    /\ q[i].since < q[i].first /\ q[i].since <= s
    /\ \A j \in 1..i - 1 :
         q[j].first + q[j].count <= q[i].first /\ q[j].since <= q[i].since

Past ==
  /\ Ahead(next + 1) /\ since <= next
  /\ server = "write" => Below(batch.first) /\ batch.since < batch.first
  /\ InOrder(stream, next, since)

(* Between a sample and what is older than its session there is a clear, or *)
(* nothing older is left.                                                  *)
Unread == ring.r..ring.w - 1
At(i) == ring.slots[i % Capacity]

Fresher(q, s, n) ==
  /\ \A i \in Unread : At(i) > s
  /\ server = "write" => batch.first > s
  /\ \A i \in 1..n - 1 : q[i].kind = "CMIC" => q[i].first > s
Parted(q, s, n) ==
  \/ \E j \in 1..n - 1 : q[j].kind = "CLER" /\ q[j].since = s
  \/ Fresher(q, s, n)
StaysParted(q, s) ==
  /\ \A n \in 1..Len(q) : q[n].kind = "CMIC" => Parted(q, q[n].since, n)
  /\ Parted(q, s, Len(q) + 1)

RingInv ==
  /\ ring.w - ring.r + batch.accepted <= Capacity
  /\ reader.step # "idle" => reader.read = ring.r
  /\ reader.step # "copied" => reader.copied = 0
  /\ \A i, j \in Unread : i < j => At(i) < At(j)
  /\ \A i \in Unread : At(i) > floor
  /\ \A i \in Unread : i >= ring.r + reader.copied => At(i) > given.to
  /\ server = "write" => \A i \in Unread : At(i) > batch.since

MicInv == MicTypes /\ Plumbing /\ Past /\ (raced \/ (RingInv /\ StaysParted(stream, since)))

-----------------------------------------------------------------------------
(* Division with remainder.                                                *)
LEMMA Divided ==
  ASSUME NEW C \in Nat \ {0}, NEW x \in Nat
  PROVE  x \div C \in Nat /\ x % C \in 0..C - 1 /\ x = C * (x \div C) + (x % C)
  OBVIOUS

(* Below the divisor nothing is taken away.                                *)
LEMMA Small == ASSUME NEW C \in Nat \ {0}, NEW x \in Nat, x < C PROVE x % C = x
  OBVIOUS

(* A multiple is zero or not less.                                         *)
LEMMA Multiple == ASSUME NEW C \in Nat \ {0}, NEW k \in Nat \ {0} PROVE C * k >= C
  OBVIOUS

(* Places of the ring: indices less than a round apart do not meet.        *)
LEMMA PlacesDiffer ==
  ASSUME NEW C \in Nat \ {0}, NEW a \in Nat, NEW b \in Nat, a < b, b - a < C
  PROVE  a % C # b % C
<1> DEFINE p == a \div C
<1> DEFINE q == b \div C
<1>1. a = C * p + (a % C) /\ p \in Nat /\ b = C * q + (b % C) /\ q \in Nat
  BY Divided
<1>2. SUFFICES ASSUME a % C = b % C PROVE FALSE
  OBVIOUS
<1>3. a % C \in Int /\ C * p \in Int /\ C * q \in Int
  BY <1>1
<1> HIDE DEF p, q
<1>4. b - a = C * q - C * p
  BY <1>1, <1>2, <1>3
<1>5. C * (q - p) = C * q - C * p
  BY <1>1
<1>6. q - p \in Nat \ {0}
  <2>1. CASE q <= p
    <3>1. p - q \in Nat /\ C * (p - q) \in Nat
      BY <1>1, <2>1
    <3>2. C * (p - q) = C * p - C * q
      BY <1>1
    <3> QED BY <3>1, <3>2, <1>3, <1>4
  <2> QED BY <2>1, <1>1
<1>7. C * (q - p) >= C
  BY <1>6, Multiple
<1> QED BY <1>4, <1>5, <1>7, <1>3

(* A set of numbers with an upper bound has a greatest member.             *)
LEMMA Greatest ==
  ASSUME NEW n \in Nat, NEW S \in SUBSET (0..n), S # {}
  PROVE  \E k \in S : \A l \in S : l <= k
<1> DEFINE T == {m \in Nat : n - m \in S}
<1>1. PICK x \in S : TRUE
  OBVIOUS
<1>2. n - x \in T
  BY <1>1
<1>3. \E m \in T : \A l \in T : <<l, m>> \notin OpToRel(<, Nat)
  <2>1. IsWellFoundedOn(OpToRel(<, Nat), Nat)
    BY NatLessThanWellFounded
  <2>2. T \subseteq Nat
    OBVIOUS
  <2> HIDE DEF T
  <2> QED BY <2>1, <2>2, <1>2, WFMin, Zenon
<1>4. PICK m \in T : \A l \in T : <<l, m>> \notin OpToRel(<, Nat)
  BY <1>3
<1>5. \A l \in T : ~(l < m)
  BY <1>4 DEF OpToRel
<1>6. n - m \in S
  OBVIOUS
<1>7. ASSUME NEW l \in S PROVE l <= n - m
  <2>1. l \in 0..n /\ m \in Nat
    OBVIOUS
  <2>2. n - (n - l) = l /\ n - l \in Nat
    BY <2>1
  <2>3. n - l \in T
    BY <2>2
  <2>4. ~(n - l < m)
    BY <2>3, <1>5
  <2> QED BY <2>1, <2>4
<1> QED BY <1>6, <1>7

-----------------------------------------------------------------------------
(* Constants, and what the service puts into the socket.                   *)
LEMMA Sizes ==
  /\ Capacity \in Nat \ {0} /\ ReadSize \in Nat \ {0} /\ MaxBatch \in Nat \ {0}
  /\ MaxStream \in Nat \ {0} /\ MaxSamples \in Nat /\ MaxRestarts \in Nat /\ Word \in Nat \ {0}
  /\ Word > MaxSamples + Capacity
  BY MicAssumption

(* A message behind the others keeps the order.                            *)
LEMMA JoinsInOrder ==
  ASSUME NEW q \in Seq(MicMessages), NEW n \in Nat, NEW s \in Nat, NEW m \in MicMessages,
         InOrder(q, n, s), Ahead(n + 1),
         m.first = n + 1, s <= m.since, m.since <= n
  PROVE  Append(q, m) \in Seq(MicMessages) /\ InOrder(Append(q, m), n + m.count, m.since)
<1> DEFINE p == Append(q, m)
<1>1. /\ p \in Seq(MicMessages) /\ Len(p) = Len(q) + 1 /\ Len(q) \in Nat
      /\ \A i \in 1..Len(q) : p[i] = q[i] /\ p[i] \in MicMessages
      /\ p[Len(q) + 1] = m
  OBVIOUS
<1>2. /\ m.first \in Nat /\ m.count \in Nat /\ m.since \in Nat
      /\ \A i \in 1..Len(q) : p[i].first \in Nat /\ p[i].count \in Nat /\ p[i].since \in Nat
  BY <1>1 DEF MicMessages
<1> HIDE DEF p
<1>3. ASSUME NEW i \in 1..Len(p)
      PROVE  /\ Ahead(p[i].first) /\ p[i].first + p[i].count <= n + m.count + 1
             /\ p[i].since < p[i].first /\ p[i].since <= m.since
             /\ \A j \in 1..i - 1 :
                  p[j].first + p[j].count <= p[i].first /\ p[j].since <= p[i].since
  <2>0. /\ \A j \in 1..Len(q) : p[j].first + p[j].count <= n + 1 /\ p[j].since <= s
        /\ \A k \in 1..Len(q) :
             /\ Ahead(p[k].first) /\ p[k].since < p[k].first
             /\ \A j \in 1..k - 1 :
                  p[j].first + p[j].count <= p[k].first /\ p[j].since <= p[k].since
    <3>1. \A k \in 1..Len(q) : \A j \in 1..k - 1 : p[j] = q[j]
      BY <1>1
    <3> QED BY <3>1, <1>1 DEF InOrder
  <2>1. CASE i = Len(q) + 1
    <3>1. p[i] = m /\ Ahead(m.first)
      BY <2>1, <1>1
    <3>2. \A j \in 1..i - 1 : p[j].first + p[j].count <= m.first /\ p[j].since <= m.since
      <4> SUFFICES ASSUME NEW j \in 1..i - 1
                   PROVE  p[j].first + p[j].count <= m.first /\ p[j].since <= m.since
        OBVIOUS
      <4>1. j \in 1..Len(q)
        BY <2>1, <1>1
      <4> QED BY <4>1, <2>0, <1>2
    <3>3. m.first + m.count <= n + m.count + 1 /\ m.since < m.first /\ m.since <= m.since
      BY <1>2
    <3> QED BY <3>1, <3>2, <3>3
  <2>2. CASE i \in 1..Len(q)
    <3>0. p[i].first + p[i].count <= n + 1 /\ p[i].since <= s
      BY <2>0, <2>2
    <3>1. /\ p[i].first \in Nat /\ p[i].count \in Nat /\ p[i].since \in Nat
          /\ m.count \in Nat /\ m.since \in Nat
      BY <1>2, <2>2
    <3>2. p[i].first + p[i].count <= n + m.count + 1
      <4>1. \A a, b, c, d \in Nat : a + b <= c + 1 => a + b <= c + d + 1
        OBVIOUS
      <4> QED BY <3>0, <3>1, <4>1
    <3>3. p[i].since <= m.since
      <4>1. \A a, b, c \in Nat : a <= b /\ b <= c => a <= c
        OBVIOUS
      <4> QED BY <3>0, <3>1, <4>1
    <3> QED BY <3>2, <3>3, <2>0, <2>2
  <2> QED BY <2>1, <2>2, <1>1
<1>4. InOrder(p, n + m.count, m.since)
  BY <1>3 DEF InOrder
<1> QED BY <1>4, <1>1 DEF p

(* A clear behind the others, or a sample of the same session, is parted    *)
(* from what is older.                                                     *)
LEMMA JoinsParted ==
  ASSUME NEW q \in Seq(MicMessages), NEW s \in Nat, NEW m \in MicMessages,
         StaysParted(q, s), m.kind = "CLER" \/ m.since = s, m.since < m.first
  PROVE  StaysParted(Append(q, m), m.since)
<1> DEFINE p == Append(q, m)
<1>1. /\ p \in Seq(MicMessages) /\ Len(p) = Len(q) + 1 /\ Len(q) \in Nat
      /\ \A i \in 1..Len(q) : p[i] = q[i]
      /\ p[Len(q) + 1] = m
  OBVIOUS
<1> HIDE DEF p
<1>2. ASSUME NEW n \in 1..Len(q) + 1, NEW t, Parted(q, t, n)
      PROVE  Parted(p, t, n)
  <2>1. \A i \in 1..n - 1 : p[i] = q[i]
    BY <1>1
  <2> QED BY <2>1, <1>2 DEF Parted, Fresher
<1>3. ASSUME NEW n \in 1..Len(p), p[n].kind = "CMIC"
      PROVE  Parted(p, p[n].since, n)
  <2>1. CASE n = Len(q) + 1
    <3>1. Parted(p, s, n)
      BY <1>2, <2>1, <1>1 DEF StaysParted
    <3> QED BY <3>1, <2>1, <1>3, <1>1
  <2>2. CASE n \in 1..Len(q)
    <3>1. Parted(q, q[n].since, n)
      BY <2>2, <1>1, <1>3 DEF StaysParted
    <3> QED BY <3>1, <2>2, <1>1, <1>2
  <2> QED BY <2>1, <2>2, <1>1
<1>4. Parted(p, m.since, Len(p) + 1)
  <2>1. CASE m.kind = "CLER"
    <3>1. Len(q) + 1 \in 1..(Len(p) + 1) - 1
      BY <1>1
    <3> QED BY <3>1, <2>1, <1>1 DEF Parted
  <2>2. CASE m.since = s
    <3>1. Parted(q, s, Len(q) + 1)
      BY DEF StaysParted
    <3>2. CASE Fresher(q, s, Len(q) + 1)
      <4>1. \A i \in 1..(Len(p) + 1) - 1 : i = Len(q) + 1 \/ i \in 1..(Len(q) + 1) - 1
        BY <1>1
      <4>2. \A i \in 1..(Len(p) + 1) - 1 : p[i].kind = "CMIC" => p[i].first > s
        <5> SUFFICES ASSUME NEW i \in 1..(Len(p) + 1) - 1, p[i].kind = "CMIC"
                     PROVE  p[i].first > s
          OBVIOUS
        <5>1. CASE i = Len(q) + 1
          BY <5>1, <1>1, <2>2 DEF MicMessages
        <5>2. CASE i \in 1..(Len(q) + 1) - 1
          BY <5>2, <1>1, <3>2 DEF Fresher
        <5> QED BY <5>1, <5>2, <4>1
      <4> QED BY <4>2, <3>2, <2>2 DEF Parted, Fresher
    <3>3. CASE \E j \in 1..(Len(q) + 1) - 1 : q[j].kind = "CLER" /\ q[j].since = s
      BY <3>3, <1>1, <2>2 DEF Parted
    <3> QED BY <3>1, <3>2, <3>3 DEF Parted
  <2> QED BY <2>1, <2>2
<1> QED BY <1>3, <1>4 DEF StaysParted, p

-----------------------------------------------------------------------------
(* The service.                                                            *)
Agents == [descriptor : {"closed", "open", "broken"}, pending : BOOLEAN,
           wait : {"none", "waiting", "late"}]

(* What a message of the service is.                                       *)
LEMMA MessageIs ==
  ASSUME next \in Nat, since' \in Nat, NEW kind \in {"CLER", "CMIC", "EOF"}, NEW n \in Nat
  PROVE  /\ Message(kind, n) \in MicMessages
         /\ Message(kind, n).kind = kind /\ Message(kind, n).first = next + 1
         /\ Message(kind, n).count = n /\ Message(kind, n).since = since'
  BY DEF Message, MicMessages

(* The pending clear goes first, or there is none and the session is the    *)
(* old one.                                                                *)
LEMMA ClearGoesFirst ==
  ASSUME MicInv, NEW a \in Agents, since' \in Nat, since <= since', since' <= next,
         a.pending \/ since' = since
  PROVE  /\ stream \o Clear(a) \in Seq(MicMessages)
         /\ InOrder(stream \o Clear(a), next, since')
         /\ (raced \/ StaysParted(stream \o Clear(a), since'))
<1>1. /\ stream \in Seq(MicMessages) /\ next \in Nat /\ since \in Nat
      /\ InOrder(stream, next, since) /\ Ahead(next + 1)
      /\ (raced \/ StaysParted(stream, since))
  <2>1. next \in 0..MaxSamples /\ since \in 0..MaxSamples
    BY DEF MicInv, MicTypes, MicTypeOK
  <2> QED BY <2>1 DEF MicInv, MicTypes, Past
<1>2. CASE a.pending
  <2> DEFINE m == Message("CLER", 0)
  <2>1. /\ m \in MicMessages /\ m.kind = "CLER" /\ m.first = next + 1
        /\ m.count = 0 /\ m.since = since'
    BY <1>1, MessageIs
  <2>2. stream \o Clear(a) = Append(stream, m)
    <3>1. stream \o <<m>> = Append(stream, m)
      BY <1>1, <2>1
    <3> QED BY <3>1, <1>2 DEF Clear
  <2> HIDE DEF m
  <2>3. next + m.count = next /\ m.since < m.first
    BY <2>1, <1>1
  <2>4. Append(stream, m) \in Seq(MicMessages) /\ InOrder(Append(stream, m), next, since')
    BY <2>1, <2>3, <1>1, JoinsInOrder
  <2>5. (raced \/ StaysParted(Append(stream, m), since'))
    BY <2>1, <2>3, <1>1, JoinsParted
  <2> QED BY <2>2, <2>4, <2>5
<1>3. CASE ~a.pending
  <2>1. stream \o Clear(a) = stream
    BY <1>1, <1>3 DEF Clear
  <2> QED BY <2>1, <1>1, <1>3
<1> QED BY <1>2, <1>3

(* A step of the service keeps the invariant if what it leaves in the       *)
(* socket does.                                                            *)
LEMMA ServiceKeeps ==
  ASSUME MicInv,
         UNCHANGED <<server, batch, ring, reader, given, raced, clients, floor>>,
         next' \in 0..MaxSamples, next <= next', since' \in 0..MaxSamples, since' <= next',
         stream' \in Seq(MicMessages), Len(stream') <= MaxStream,
         InOrder(stream', next', since'), (raced \/ StaysParted(stream', since')),
         agent' \in Agents, restarts' \in 0..MaxRestarts, talking' \in BOOLEAN,
         agent'.descriptor = "open" => server # "none",
         server = "none" => stream' = <<>>,
         agent'.pending => /\ agent'.descriptor = "closed" /\ stream' = <<>>
                           /\ server # "write" /\ ring.w = ring.r /\ ~raced
  PROVE  MicInv'
<1>1. MicTypes'
  BY DEF MicInv, MicTypes, MicTypeOK, Agents
<1>2. Plumbing'
  BY DEF MicInv, Plumbing
<1>3. Past'
  <2>1. Ahead(next' + 1)
    <3>1. /\ ring.slots \in [0..Capacity - 1 -> 0..MaxSamples] /\ ring.w \in 0..MaxSamples
          /\ given.from \in 0..MaxSamples /\ given.to \in 0..MaxSamples
          /\ next \in 0..MaxSamples /\ batch.first \in Nat /\ batch.accepted \in Nat
      BY DEF MicInv, MicTypes, MicTypeOK
    <3>2. \A i \in 0..Capacity - 1 : ring.slots[i] \in 0..MaxSamples
      BY <3>1
    <3>3. Ahead(next + 1)
      BY DEF MicInv, Past
    <3>4. \A x \in Int : x < next + 1 => x < next' + 1
      BY <3>1
    <3>5. Below(next' + 1)
      <4>1. /\ \A i \in 0..Capacity - 1 : ring.slots[i] < next + 1 /\ ring.slots[i] \in Int
            /\ given.from < next + 1 /\ given.to < next + 1 /\ ring.w < next + 1
            /\ given.from \in Int /\ given.to \in Int /\ ring.w \in Int
        BY <3>1, <3>2, <3>3 DEF Ahead, Below
      <4> QED BY <4>1, <3>4 DEF Below
    <3>6. server = "write" => batch.first + batch.accepted <= next' + 1
      <4>1. server = "write" => batch.first + batch.accepted <= next + 1
        BY <3>3 DEF Ahead
      <4>2. \A a, b, c, d \in Nat : a + b <= c + 1 /\ c <= d => a + b <= d + 1
        OBVIOUS
      <4>3. next \in Nat /\ next' \in Nat /\ batch.first \in Nat /\ batch.accepted \in Nat
        BY <3>1
      <4> QED BY <4>1, <4>2, <4>3
    <3> QED BY <3>5, <3>6 DEF Ahead
  <2> QED BY <2>1 DEF MicInv, Past, InOrder, Ahead, Below
<1>4. (raced \/ (RingInv /\ StaysParted(stream, since)))'
  <2>1. RingInv => RingInv'
    BY DEF RingInv, Unread, At
  <2>2. StaysParted(stream', since') => StaysParted(stream, since)'
    BY DEF StaysParted, Parted, Fresher, Unread, At
  <2> QED BY <2>1, <2>2 DEF MicInv
<1> QED BY <1>1, <1>2, <1>3, <1>4 DEF MicInv

(* What the steps of the service use of the invariant.                     *)
LEMMA ServiceFacts ==
  ASSUME MicInv
  PROVE  /\ agent \in Agents /\ next \in 0..MaxSamples /\ since \in 0..MaxSamples
         /\ since <= next /\ talking \in BOOLEAN /\ restarts \in 0..MaxRestarts
         /\ stream \in Seq(MicMessages) /\ Len(stream) <= MaxStream
         /\ InOrder(stream, next, since) /\ Ahead(next + 1)
         /\ (raced \/ StaysParted(stream, since))
         /\ agent.descriptor = "open" => server # "none"
         /\ server = "none" => stream = <<>> /\ ring.w = ring.r /\ ~raced
         /\ agent.pending => /\ agent.descriptor = "closed" /\ stream = <<>>
                             /\ server # "write" /\ ring.w = ring.r /\ ~raced
         /\ server # "write" => batch = NoBatch
  BY DEF MicInv, MicTypes, MicTypeOK, Past, Plumbing, Agents

(* beginSession: the clear is sent at once or, before the driver is there,  *)
(* kept.                                                                   *)
LEMMA SessionBeginKeeps == MicInv /\ Begin => MicInv'
<1> SUFFICES ASSUME MicInv, Begin PROVE MicInv'
  OBVIOUS
<1> DEFINE a == Begun(agent)
<1>1. a \in Agents /\ a.pending = TRUE /\ a.descriptor = agent.descriptor
  BY ServiceFacts DEF Begun, Agents
<1>2. /\ since' = next /\ next' = next /\ talking' = TRUE /\ next \in Nat
      /\ UNCHANGED <<server, batch, ring, reader, given, raced, clients, floor, restarts>>
  BY ServiceFacts DEF Begin, AgentRest, ringVars
<1> HIDE DEF a
<1>3. CASE Reachable
  <2>1. /\ stream' = stream \o Clear(a) \o <<>> /\ Len(stream \o Clear(a) \o <<>>) <= MaxStream
        /\ agent' = [descriptor |-> "open", pending |-> FALSE, wait |-> "none"]
    BY <1>3 DEF Begin, Sends, Connected, a
  <2>2. /\ stream \o Clear(a) \in Seq(MicMessages)
        /\ InOrder(stream \o Clear(a), next, since')
        /\ (raced \/ StaysParted(stream \o Clear(a), since'))
    BY <1>1, <1>2, ServiceFacts, ClearGoesFirst
  <2>3. stream \o Clear(a) \o <<>> = stream \o Clear(a)
    BY <2>2
  <2>4. stream' = stream \o Clear(a) /\ Len(stream') <= MaxStream
    BY <2>1, <2>3
  <2>5. agent' \in Agents /\ agent'.descriptor = "open" /\ ~agent'.pending
    BY <2>1 DEF Agents
  <2>6. server # "none"
    BY <1>3, ServiceFacts DEF Reachable
  <2>7. /\ stream' \in Seq(MicMessages) /\ InOrder(stream', next', since')
        /\ (raced \/ StaysParted(stream', since'))
    BY <2>2, <2>4, <1>2
  <2> QED BY <1>2, <2>4, <2>5, <2>6, <2>7, ServiceFacts, ServiceKeeps
<1>4. CASE ~Reachable
  <2>1. agent' = a /\ stream' = stream /\ agent.descriptor = "closed" /\ server = "none"
    BY <1>4, ServiceFacts DEF Begin, Reachable, Agents, a
  <2>2. stream = <<>> /\ ring.w = ring.r /\ ~raced
    BY <2>1, ServiceFacts
  <2>3. InOrder(stream', next', since')
    BY <2>1, <2>2 DEF InOrder
  <2>4. StaysParted(stream', since')
    <3>1. Unread = {}
      BY <2>2, ServiceFacts DEF Unread, MicInv, MicTypes, MicTypeOK
    <3> QED BY <2>1, <2>2, <3>1 DEF StaysParted, Parted, Fresher
  <2> QED BY <1>1, <1>2, <2>1, <2>2, <2>3, <2>4, ServiceFacts, ServiceKeeps
<1> QED BY <1>3, <1>4

(* write.                                                                  *)
LEMMA WriteKeeps == MicInv /\ Write => MicInv'
<1> SUFFICES ASSUME MicInv, Write PROVE MicInv'
  OBVIOUS
<1>1. PICK n \in 1..MaxBatch :
        /\ next + n <= MaxSamples /\ next' = next + n
        /\ Sends(agent, <<Message("CMIC", n)>>)
  BY DEF Write
<1>2. /\ since' = since /\ talking' = talking /\ Reachable
      /\ UNCHANGED <<server, batch, ring, reader, given, raced, clients, floor, restarts>>
  BY DEF Write, AgentRest, ringVars
<1>3. /\ next \in Nat /\ since \in Nat /\ since' <= next /\ n \in Nat /\ MaxSamples \in Nat
      /\ next' \in 0..MaxSamples /\ next <= next'
  BY <1>1, <1>2, ServiceFacts, Sizes
<1> DEFINE q == stream \o Clear(agent)
<1> DEFINE m == Message("CMIC", n)
<1>4. /\ q \in Seq(MicMessages) /\ InOrder(q, next, since) /\ (raced \/ StaysParted(q, since))
  BY <1>2, <1>3, ServiceFacts, ClearGoesFirst
<1>5. /\ m \in MicMessages /\ m.kind = "CMIC" /\ m.first = next + 1
      /\ m.count = n /\ m.since = since
  BY <1>2, <1>3, MessageIs
<1>6. /\ stream' = q \o <<m>> /\ Len(q \o <<m>>) <= MaxStream
      /\ agent' = [descriptor |-> "open", pending |-> FALSE, wait |-> "none"]
  BY <1>1 DEF Sends, Connected
<1> HIDE DEF q, m
<1>7. q \o <<m>> = Append(q, m)
  BY <1>4, <1>5
<1>8. Append(q, m) \in Seq(MicMessages) /\ InOrder(Append(q, m), next', since)
  <2>1. Ahead(next + 1)
    BY ServiceFacts
  <2>2. InOrder(Append(q, m), next + m.count, m.since) /\ Append(q, m) \in Seq(MicMessages)
    <3>1. since <= m.since /\ m.since <= next /\ InOrder(q, next, since)
      BY <1>2, <1>3, <1>4, <1>5
    <3> QED BY <3>1, <2>1, <1>3, <1>4, <1>5, JoinsInOrder
  <2> QED BY <2>2, <1>1, <1>5
<1>9. (raced \/ StaysParted(Append(q, m), since))
  <2>1. m.since < m.first
    BY <1>3, <1>5, <1>2
  <2>2. StaysParted(q, since) => StaysParted(Append(q, m), m.since)
    BY <2>1, <1>3, <1>4, <1>5, JoinsParted
  <2> QED BY <2>2, <1>4, <1>5
<1>10. agent' \in Agents /\ agent'.descriptor = "open" /\ ~agent'.pending
  BY <1>6 DEF Agents
<1>11. server # "none"
  BY <1>2, ServiceFacts DEF Reachable
<1>12. /\ stream' = Append(q, m) /\ Len(stream') <= MaxStream
  BY <1>6, <1>7
<1>13. /\ stream' \in Seq(MicMessages) /\ InOrder(stream', next', since')
       /\ (raced \/ StaysParted(stream', since'))
  BY <1>12, <1>8, <1>9, <1>2
<1>14. since' <= next' /\ since' \in 0..MaxSamples
  BY <1>2, <1>3, ServiceFacts
<1> QED BY <1>2, <1>3, <1>10, <1>11, <1>12, <1>13, <1>14, ServiceFacts, ServiceKeeps

(* A failed write, the end of the wait and the end of a session leave the   *)
(* socket alone.                                                           *)
LEMMA WaitingKeeps == MicInv /\ (WriteThrows \/ DeadlinePasses \/ EndSession) => MicInv'
<1> SUFFICES ASSUME MicInv, WriteThrows \/ DeadlinePasses \/ EndSession PROVE MicInv'
  OBVIOUS
<1>1. /\ UNCHANGED <<server, batch, ring, reader, given, raced, clients, floor, restarts>>
      /\ UNCHANGED <<next, since, stream>> /\ talking' \in BOOLEAN
  BY ServiceFacts DEF WriteThrows, DeadlinePasses, EndSession, AgentRest, ringVars
<1>2. /\ agent' \in Agents /\ agent'.descriptor = agent.descriptor
      /\ agent'.pending = agent.pending
  BY ServiceFacts DEF WriteThrows, DeadlinePasses, EndSession, Agents
<1>3. /\ InOrder(stream', next', since') /\ (raced \/ StaysParted(stream', since'))
  BY <1>1, ServiceFacts
<1>4. next' \in 0..MaxSamples /\ next <= next' /\ since' \in 0..MaxSamples /\ since' <= next'
  BY <1>1, ServiceFacts, Sizes
<1> QED BY <1>1, <1>2, <1>3, <1>4, ServiceFacts, ServiceKeeps

(* The end of the process.                                                 *)
LEMMA AgentEndKeeps == MicInv /\ (AgentEnds \/ BrokenPipe) => MicInv'
<1> SUFFICES ASSUME MicInv, AgentEnds \/ BrokenPipe PROVE MicInv'
  OBVIOUS
<1>1. /\ UNCHANGED <<server, batch, ring, reader, given, raced, clients, floor>>
      /\ UNCHANGED <<next, since>> /\ talking' = FALSE /\ agent' = FreshAgent
      /\ stream' = HangUp /\ Len(stream') <= MaxStream
  BY DEF AgentEnds, BrokenPipe, AgentGone, ringVars
<1>2. restarts' \in 0..MaxRestarts
  BY ServiceFacts, Sizes DEF AgentEnds, BrokenPipe
<1>3. /\ agent' \in Agents /\ agent'.descriptor = "closed" /\ ~agent'.pending
  BY <1>1 DEF FreshAgent, Agents
<1>4. next' \in 0..MaxSamples /\ next <= next' /\ since' \in 0..MaxSamples /\ since' <= next'
  BY <1>1, ServiceFacts, Sizes
<1>5. CASE agent.descriptor = "open"
  <2> DEFINE m == Message("EOF", 0)
  <2>1. /\ m \in MicMessages /\ m.first = next + 1 /\ m.count = 0 /\ m.since = since
    BY <1>1, ServiceFacts, MessageIs
  <2>2. stream' = Append(stream, m) /\ server # "none"
    BY <1>1, <1>5, ServiceFacts DEF HangUp
  <2> HIDE DEF m
  <2>3. m.since < m.first /\ next + m.count = next /\ next \in Nat /\ since \in Nat
    BY <2>1, ServiceFacts
  <2>4. Append(stream, m) \in Seq(MicMessages) /\ InOrder(Append(stream, m), next, since)
    BY <2>1, <2>3, ServiceFacts, JoinsInOrder
  <2>5. (raced \/ StaysParted(Append(stream, m), since))
    BY <2>1, <2>3, ServiceFacts, JoinsParted
  <2>6. /\ stream' \in Seq(MicMessages) /\ InOrder(stream', next', since')
        /\ (raced \/ StaysParted(stream', since'))
    BY <2>2, <2>4, <2>5, <1>1
  <2> QED BY <2>2, <2>6, <1>1, <1>2, <1>3, <1>4, ServiceKeeps
<1>6. CASE agent.descriptor # "open"
  <2>1. stream' = stream
    BY <1>1, <1>6 DEF HangUp
  <2>2. /\ InOrder(stream', next', since') /\ (raced \/ StaysParted(stream', since'))
    BY <1>1, <2>1, ServiceFacts
  <2> QED BY <2>1, <2>2, <1>1, <1>2, <1>3, <1>4, ServiceFacts, ServiceKeeps
<1> QED BY <1>5, <1>6

-----------------------------------------------------------------------------
(* The server thread.                                                      *)
(* Ranges, read out of the type invariant.                                 *)
LEMMA RingFacts ==
  ASSUME MicInv
  PROVE  /\ ring \in [slots : [0..Capacity - 1 -> 0..MaxSamples],
                      w : 0..MaxSamples, r : 0..MaxSamples]
         /\ ring.r <= ring.w /\ ring.w \in Nat /\ ring.r \in Nat
         /\ \A i \in 0..Capacity - 1 : ring.slots[i] \in 0..MaxSamples
         /\ given \in [from : 0..MaxSamples, to : 0..MaxSamples]
         /\ batch \in [first : Nat, accepted : Nat, since : Nat]
         /\ reader \in [step : {"idle", "loaded", "copied"}, read : 0..MaxSamples,
                        copied : 0..ReadSize]
         /\ floor \in 0..MaxSamples /\ server \in {"none", "accept", "client", "write"}
         /\ clients \in BOOLEAN /\ raced \in BOOLEAN
         /\ reader.read + reader.copied <= ring.w
<1>1. /\ ring \in [slots : [0..Capacity - 1 -> 0..MaxSamples],
                   w : 0..MaxSamples, r : 0..MaxSamples]
      /\ given \in [from : 0..MaxSamples, to : 0..MaxSamples]
      /\ batch \in [first : Nat, accepted : Nat, since : Nat]
      /\ reader \in [step : {"idle", "loaded", "copied"}, read : 0..MaxSamples,
                     copied : 0..ReadSize]
      /\ floor \in 0..MaxSamples /\ server \in {"none", "accept", "client", "write"}
      /\ clients \in BOOLEAN /\ raced \in BOOLEAN /\ ring.r <= ring.w
      /\ reader.read + reader.copied <= ring.w
  BY DEF MicInv, MicTypes, MicTypeOK, Plumbing
<1>2. ring.w \in Nat /\ ring.r \in Nat
  <2>1. ring.w \in 0..MaxSamples /\ ring.r \in 0..MaxSamples
    BY <1>1
  <2> QED BY <2>1
<1>3. \A i \in 0..Capacity - 1 : ring.slots[i] \in 0..MaxSamples
  BY <1>1
<1> QED BY <1>1, <1>2, <1>3

(* The others of a queue, and its head.                                    *)
LEMMA Dequeued ==
  ASSUME NEW q \in Seq(MicMessages), q # <<>>
  PROVE  /\ Len(q) \in Nat \ {0} /\ Head(q) = q[1] /\ q[1] \in MicMessages
         /\ Tail(q) \in Seq(MicMessages) /\ Len(Tail(q)) = Len(q) - 1
         /\ \A i \in 1..Len(q) - 1 : Tail(q)[i] = q[i + 1]
         /\ \A i \in 1..Len(q) : q[i] \in MicMessages
  OBVIOUS

(* A message that is taken leaves the others in order.                     *)
LEMMA OrderPasses ==
  ASSUME MicInv, stream # <<>>, stream' = Tail(stream), UNCHANGED <<next, since, given>>,
         ring'.slots = ring.slots, ring'.w = ring.w,
         server' = "write" =>
           \A i \in 2..Len(stream) : batch'.first + batch'.accepted <= stream[i].first
  PROVE  InOrder(stream, next, since)'
<1>1. /\ stream \in Seq(MicMessages) /\ InOrder(stream, next, since)
  BY ServiceFacts
<1>2. /\ Len(stream) \in Nat \ {0} /\ Len(stream') = Len(stream) - 1
      /\ \A i \in 1..Len(stream) - 1 : stream'[i] = stream[i + 1]
  BY <1>1, Dequeued
<1>3. ASSUME NEW i \in 1..Len(stream')
      PROVE  /\ Ahead(stream[i].first)' /\ stream'[i].first + stream'[i].count <= next' + 1
             /\ stream'[i].since < stream'[i].first /\ stream'[i].since <= since'
             /\ \A j \in 1..i - 1 :
                  /\ stream'[j].first + stream'[j].count <= stream'[i].first
                  /\ stream'[j].since <= stream'[i].since
  <2>1. i + 1 \in 2..Len(stream) /\ i + 1 \in 1..Len(stream) /\ stream'[i] = stream[i + 1]
        /\ \A j \in 1..i - 1 : j + 1 \in 1..(i + 1) - 1 /\ stream'[j] = stream[j + 1]
    BY <1>2
  <2>2. /\ Ahead(stream[i + 1].first)
        /\ stream[i + 1].first + stream[i + 1].count <= next + 1
        /\ stream[i + 1].since < stream[i + 1].first /\ stream[i + 1].since <= since
        /\ \A j \in 1..(i + 1) - 1 :
             /\ stream[j].first + stream[j].count <= stream[i + 1].first
             /\ stream[j].since <= stream[i + 1].since
    BY <1>1, <2>1 DEF InOrder
  <2>3. Ahead(stream[i].first)'
    <3>1. Below(stream[i].first)'
      BY <2>1, <2>2 DEF Ahead, Below
    <3>2. server' = "write" => batch'.first + batch'.accepted <= stream'[i].first
      BY <2>1
    <3> QED BY <3>1, <3>2 DEF Ahead
  <2> QED BY <2>1, <2>2, <2>3
<1> QED BY <1>3 DEF InOrder

(* What is parted stays parted when the message in front is taken: a sample *)
(* goes into the batch, a clear empties the ring.                          *)
LEMMA PartedPasses ==
  ASSUME MicInv, stream # <<>>, stream' = Tail(stream), server = "client",
         NEW s \in Nat, NEW n \in 1..Len(stream), Parted(stream, s, n + 1),
         \/ /\ Head(stream).kind # "CLER" /\ ring' = ring
            /\ server' = "write" => /\ Head(stream).kind = "CMIC"
                                    /\ batch'.first = Head(stream).first
         \/ /\ ring'.r = ring.w /\ ring'.w = ring.w /\ server' # "write"
  PROVE  Parted(stream, s, n)'
<1>1. /\ stream \in Seq(MicMessages) /\ InOrder(stream, next, since)
  BY ServiceFacts
<1>2. /\ Len(stream) \in Nat \ {0} /\ Len(stream') = Len(stream) - 1
      /\ \A i \in 1..Len(stream) - 1 : stream'[i] = stream[i + 1]
      /\ \A i \in 1..Len(stream) : stream[i] \in MicMessages
      /\ Head(stream) = stream[1]
  BY <1>1, Dequeued
<1>3. \A i \in 1..n - 1 : i + 1 \in 1..(n + 1) - 1 /\ stream'[i] = stream[i + 1]
  BY <1>2
<1>4. CASE Fresher(stream, s, n + 1)
  <2>1. \A i \in 1..n - 1 : stream'[i].kind = "CMIC" => stream'[i].first > s
    BY <1>3, <1>4 DEF Fresher
  <2>2. \A i \in Unread' : At(i)' > s
    <3>1. CASE ring' = ring
      BY <3>1, <1>4 DEF Fresher, Unread, At
    <3>2. CASE ring'.r = ring.w /\ ring'.w = ring.w
      <4>1. Unread' = {}
        BY <3>2, RingFacts DEF Unread
      <4> QED BY <4>1
    <3> QED BY <3>1, <3>2
  <2>3. server' = "write" => batch'.first > s
    <3>1. 1 \in 1..(n + 1) - 1
      OBVIOUS
    <3>2. stream[1].kind = "CMIC" => stream[1].first > s
      BY <3>1, <1>4 DEF Fresher
    <3> QED BY <3>2, <1>2
  <2> QED BY <2>1, <2>2, <2>3 DEF Parted, Fresher
<1>5. CASE \E j \in 1..(n + 1) - 1 : stream[j].kind = "CLER" /\ stream[j].since = s
  <2>1. PICK j \in 1..n : stream[j].kind = "CLER" /\ stream[j].since = s
    BY <1>5
  <2>2. CASE j # 1
    <3>1. j - 1 \in 1..n - 1 /\ stream'[j - 1] = stream[j]
      BY <2>2, <1>2
    <3> QED BY <3>1, <2>1 DEF Parted
  <2>3. CASE j = 1
    <3>1. ring'.r = ring.w /\ ring'.w = ring.w /\ server' # "write"
      BY <2>1, <2>3, <1>2
    <3>2. Unread' = {}
      BY <3>1, RingFacts DEF Unread
    <3>3. ASSUME NEW i \in 1..n - 1 PROVE stream'[i].first > s
      <4>1. i + 1 \in 1..Len(stream) /\ 1 \in 1..(i + 1) - 1 /\ stream'[i] = stream[i + 1]
        BY <1>2
      <4>2. /\ stream[i + 1].since < stream[i + 1].first
            /\ stream[1].since <= stream[i + 1].since
        BY <4>1, <1>1 DEF InOrder
      <4>3. stream[i + 1].since \in Nat /\ stream[i + 1].first \in Nat
        BY <4>1, <1>2 DEF MicMessages
      <4> QED BY <4>1, <4>2, <4>3, <2>1, <2>3
    <3> QED BY <3>1, <3>2, <3>3 DEF Parted, Fresher
  <2> QED BY <2>2, <2>3
<1> QED BY <1>4, <1>5 DEF Parted

(* The same for the whole socket.                                          *)
LEMMA SocketPasses ==
  ASSUME MicInv, stream # <<>>, stream' = Tail(stream), server = "client",
         UNCHANGED since, StaysParted(stream, since),
         \/ /\ Head(stream).kind # "CLER" /\ ring' = ring
            /\ server' = "write" => /\ Head(stream).kind = "CMIC"
                                    /\ batch'.first = Head(stream).first
         \/ /\ ring'.r = ring.w /\ ring'.w = ring.w /\ server' # "write"
  PROVE  StaysParted(stream, since)'
<1>1. /\ stream \in Seq(MicMessages) /\ since \in Nat
  BY ServiceFacts
<1>2. /\ Len(stream) \in Nat \ {0} /\ Len(stream') = Len(stream) - 1
      /\ \A i \in 1..Len(stream) - 1 : stream'[i] = stream[i + 1]
      /\ \A i \in 1..Len(stream) : stream[i] \in MicMessages
  BY <1>1, Dequeued
<1>3. ASSUME NEW s \in Nat, NEW n \in 1..Len(stream), Parted(stream, s, n + 1)
      PROVE  Parted(stream, s, n)'
  BY <1>3, PartedPasses
<1>4. ASSUME NEW n \in 1..Len(stream'), stream'[n].kind = "CMIC"
      PROVE  Parted(stream, stream[n].since, n)'
  <2>1. n \in 1..Len(stream) /\ n + 1 \in 1..Len(stream) /\ stream'[n] = stream[n + 1]
    BY <1>2
  <2>2. stream[n + 1].since \in Nat /\ Parted(stream, stream[n + 1].since, n + 1)
    BY <2>1, <1>2, <1>4 DEF StaysParted, MicMessages
  <2> QED BY <2>1, <2>2, <1>3 DEF Parted, Fresher
<1>5. Parted(stream, since, Len(stream) + 1)'
  <2>1. Len(stream) \in 1..Len(stream) /\ Len(stream') + 1 = Len(stream)
    BY <1>2
  <2>2. Parted(stream, since, Len(stream) + 1)
    BY DEF StaysParted
  <2> QED BY <2>1, <2>2, <1>1, <1>3 DEF Parted, Fresher
<1> QED BY <1>4, <1>5 DEF StaysParted

(* A step that leaves socket, ring and batch alone keeps what is said of    *)
(* their contents.                                                         *)
LEMMA ContentsKeep ==
  ASSUME MicInv, UNCHANGED <<next, since, stream, ring, batch, given>>,
         server' = "write" <=> server = "write"
  PROVE  Past' /\ (StaysParted(stream, since) => StaysParted(stream, since)')
<1>1. Past'
  BY DEF MicInv, Past, InOrder, Ahead, Below
<1>2. ASSUME StaysParted(stream, since) PROVE StaysParted(stream, since)'
  BY <1>2 DEF StaysParted, Parted, Fresher, Unread, At
<1> QED BY <1>1, <1>2

(* Types, when the service does nothing.                                   *)
LEMMA TypesKeep ==
  ASSUME MicInv, UNCHANGED <<agent, talking, next, since>>,
         restarts' \in 0..MaxRestarts,
         stream' \in Seq(MicMessages) /\ Len(stream') <= Len(stream),
         server' \in {"none", "accept", "client", "write"},
         batch' \in [first : Nat, accepted : Nat, since : Nat],
         ring' \in [slots : [0..Capacity - 1 -> 0..MaxSamples],
                    w : 0..MaxSamples, r : 0..MaxSamples],
         ring'.r <= ring'.w,
         reader' \in [step : {"idle", "loaded", "copied"}, read : 0..MaxSamples,
                      copied : 0..ReadSize],
         given' \in [from : 0..MaxSamples, to : 0..MaxSamples],
         clients' \in BOOLEAN, raced' \in BOOLEAN, floor' \in 0..MaxSamples
  PROVE  MicTypes'
<1>1. Len(stream') <= MaxStream
  <2>1. Len(stream') \in Nat /\ Len(stream) \in Nat /\ Len(stream) <= MaxStream
    BY ServiceFacts
  <2> QED BY <2>1, Sizes
<1> QED BY <1>1 DEF MicInv, MicTypes, MicTypeOK

(* A connection, the first client and the last, a loaded index, a driver    *)
(* that starts.                                                            *)
LEMMA QuietKeeps ==
  MicInv /\ (Accept \/ StartIO \/ StopIO \/ ReadLoads \/ Initialize) => MicInv'
<1> SUFFICES ASSUME MicInv, Accept \/ StartIO \/ StopIO \/ ReadLoads \/ Initialize
             PROVE  MicInv'
  OBVIOUS
<1>1. /\ UNCHANGED <<agent, talking, next, since, stream, batch, ring, given, raced, floor,
                     restarts>>
      /\ server' = "write" <=> server = "write"
      /\ server' \in {"none", "accept", "client", "write"} /\ clients' \in BOOLEAN
      /\ \/ reader' = reader
         \/ reader' = [step |-> "loaded", read |-> ring.r, copied |-> 0] /\ server' = server
      /\ server' = "none" => server = "none"
  BY RingFacts DEF Accept, StartIO, StopIO, ReadLoads, Initialize, agentVars, ringVars, ReadRest
<1>2. reader' \in [step : {"idle", "loaded", "copied"}, read : 0..MaxSamples,
                   copied : 0..ReadSize]
  BY <1>1, RingFacts, Sizes
<1>3. MicTypes'
  BY <1>1, <1>2, RingFacts, ServiceFacts, TypesKeep
<1>4. Plumbing'
  <2>1. reader'.read + reader'.copied <= ring.w
    BY <1>1, RingFacts
  <2>2. server' = "none" => reader' = NotReading /\ ~clients'
    BY DEF MicInv, Plumbing, Accept, StartIO, StopIO, ReadLoads, Initialize, ReadRest
  <2> QED BY <1>1, <2>1, <2>2 DEF MicInv, Plumbing
<1>5. Past' /\ (StaysParted(stream, since) => StaysParted(stream, since)')
  BY <1>1, ContentsKeep
<1>6. RingInv => RingInv'
  <2> SUFFICES ASSUME RingInv PROVE RingInv'
    OBVIOUS
  <2>1. /\ reader'.step # "idle" => reader'.read = ring.r
        /\ reader'.step # "copied" => reader'.copied = 0
        /\ reader'.copied = reader.copied
    BY <1>1 DEF RingInv, ReadLoads, Accept, StartIO, StopIO, Initialize, ringVars
  <2> QED BY <1>1, <2>1 DEF RingInv, Unread, At
<1> QED BY <1>1, <1>3, <1>4, <1>5, <1>6 DEF MicInv

(* The end of a connection.                                                *)
LEMMA HangsUpKeeps == MicInv /\ HangsUp => MicInv'
<1> SUFFICES ASSUME MicInv, HangsUp PROVE MicInv'
  OBVIOUS
<1>1. /\ UNCHANGED <<agent, talking, next, since, batch, ring, reader, given, raced, clients,
                     floor, restarts>>
      /\ server = "client" /\ server' = "accept" /\ stream # <<>>
      /\ stream' = Tail(stream) /\ Head(stream).kind = "EOF"
  BY DEF HangsUp, Handles, agentVars, ringVars
<1>2. stream' \in Seq(MicMessages) /\ Len(stream') <= Len(stream)
  BY <1>1, ServiceFacts, Dequeued
<1>3. MicTypes'
  BY <1>1, <1>2, RingFacts, ServiceFacts, TypesKeep
<1>4. Plumbing'
  BY <1>1 DEF MicInv, Plumbing
<1>5. Past'
  <2>1. InOrder(stream, next, since)'
    BY <1>1, OrderPasses
  <2> QED BY <2>1, <1>1 DEF MicInv, Past, Ahead, Below
<1>6. RingInv => RingInv'
  BY <1>1 DEF RingInv, Unread, At
<1>7. StaysParted(stream, since) => StaysParted(stream, since)'
  BY <1>1, SocketPasses
<1> QED BY <1>1, <1>3, <1>4, <1>5, <1>6, <1>7 DEF MicInv

(* A clear.                                                                *)
LEMMA ClearKeeps == MicInv /\ ClearRing => MicInv'
<1> SUFFICES ASSUME MicInv, ClearRing PROVE MicInv'
  OBVIOUS
<1>1. /\ UNCHANGED <<agent, talking, next, since, server, batch, reader, given, clients,
                     restarts>>
      /\ server = "client" /\ stream # <<>>
      /\ stream' = Tail(stream) /\ Head(stream).kind = "CLER"
      /\ ring' = [ring EXCEPT !.r = ring.w] /\ floor' = Head(stream).since
      /\ raced' = (raced \/ reader.step # "idle")
  BY DEF ClearRing, Handles, agentVars
<1>2. /\ stream' \in Seq(MicMessages) /\ Len(stream') <= Len(stream)
      /\ Head(stream) = stream[1] /\ stream[1] \in MicMessages /\ 1 \in 1..Len(stream)
  BY <1>1, ServiceFacts, Dequeued
<1>3. /\ ring' \in [slots : [0..Capacity - 1 -> 0..MaxSamples],
                    w : 0..MaxSamples, r : 0..MaxSamples]
      /\ ring'.slots = ring.slots /\ ring'.w = ring.w /\ ring'.r = ring.w /\ ring.w \in Nat
  BY <1>1, RingFacts
<1>4. floor' \in 0..MaxSamples
  <2>1. stream[1].since <= since /\ stream[1].since \in Nat
    BY <1>2, ServiceFacts DEF InOrder, MicMessages
  <2>2. floor' = stream[1].since
    BY <1>1, <1>2
  <2>3. since \in 0..MaxSamples
    BY ServiceFacts
  <2> QED BY <2>1, <2>2, <2>3, Sizes
<1>5. MicTypes'
  <2>1. ring'.r <= ring'.w /\ raced' \in BOOLEAN
    BY <1>1, <1>3, RingFacts
  <2> QED BY <2>1, <1>1, <1>2, <1>3, <1>4, RingFacts, ServiceFacts, TypesKeep
<1>6. Plumbing'
  BY <1>1, <1>3 DEF MicInv, Plumbing
<1>7. Past'
  <2>1. InOrder(stream, next, since)'
    BY <1>1, <1>3, OrderPasses
  <2>2. Ahead(next + 1)'
    BY <1>1, <1>3 DEF MicInv, Past, Ahead, Below
  <2> QED BY <2>1, <2>2, <1>1 DEF MicInv, Past
<1>8. RingInv /\ ~raced' => RingInv'
  <2> SUFFICES ASSUME RingInv, ~raced' PROVE RingInv'
    OBVIOUS
  <2>0. Unread' = {}
    BY <1>3 DEF Unread
  <2>1. reader'.step = "idle" /\ reader'.copied = 0 /\ batch'.accepted = 0
    <3>1. batch' = NoBatch /\ reader' = reader /\ reader.step = "idle"
      BY <1>1, ServiceFacts
    <3> QED BY <3>1 DEF RingInv, NoBatch
  <2>2. ring'.w - ring'.r + batch'.accepted <= Capacity
    BY <2>1, <1>3, Sizes
  <2> QED BY <1>1, <2>0, <2>1, <2>2 DEF RingInv
<1>9. StaysParted(stream, since) => StaysParted(stream, since)'
  BY <1>1, <1>3, SocketPasses
<1> QED BY <1>1, <1>5, <1>6, <1>7, <1>8, <1>9 DEF MicInv

(* What fits in the ring is taken, and while no clear fell into a read that *)
(* is what is free.                                                        *)
LEMMA Fitting ==
  ASSUME MicInv, NEW c \in Nat
  PROVE  /\ Lesser(c, Free) \in Nat /\ Lesser(c, Free) <= c
         /\ RingInv /\ server = "client" => ring.w - ring.r + Lesser(c, Free) <= Capacity
<1> DEFINE x == Capacity - (ring.w - ring.r)
<1>1. /\ ring.w \in Nat /\ ring.r \in Nat /\ Capacity \in Nat /\ Word \in Nat \ {0}
      /\ ring.r <= ring.w /\ x \in Int /\ ring.w \in 0..MaxSamples /\ MaxSamples \in Nat
      /\ Word > MaxSamples + Capacity
  BY RingFacts, Sizes
<1>2. Free \in Nat
  BY <1>1 DEF Free
<1>3. ASSUME RingInv, server = "client"
      PROVE  Free = x /\ x \in Nat
  <2>1. batch.accepted = 0
    BY <1>3, ServiceFacts DEF NoBatch
  <2>2. x \in Nat /\ x < Word
    BY <1>1, <1>3, <2>1 DEF RingInv
  <2>3. x % Word = x
    BY <2>2, <1>1, Small
  <2> QED BY <2>2, <2>3 DEF Free
<1> HIDE DEF x
<1>4. Lesser(c, Free) \in Nat /\ Lesser(c, Free) <= c /\ Lesser(c, Free) <= Free
  BY <1>2 DEF Lesser
<1> QED BY <1>1, <1>3, <1>4 DEF x

(* The head of the socket becomes the batch.                               *)
LEMMA WriteLoadsKeeps == MicInv /\ WriteLoads => MicInv'
<1> SUFFICES ASSUME MicInv, WriteLoads PROVE MicInv'
  OBVIOUS
<1> DEFINE m == stream[1]
<1>1. /\ UNCHANGED <<agent, talking, next, since, ring, reader, given, raced, clients, floor,
                     restarts>>
      /\ server = "client" /\ server' = "write" /\ stream # <<>>
      /\ stream' = Tail(stream) /\ Head(stream).kind = "CMIC"
      /\ batch' = [first |-> Head(stream).first, since |-> Head(stream).since,
                   accepted |-> Lesser(Head(stream).count, Free)]
  BY DEF WriteLoads, Handles, agentVars, ringVars
<1>2. /\ stream' \in Seq(MicMessages) /\ Len(stream') <= Len(stream)
      /\ Head(stream) = m /\ m \in MicMessages /\ 1 \in 1..Len(stream)
      /\ Len(stream) \in Nat \ {0} /\ \A i \in 1..Len(stream) : stream[i] \in MicMessages
  BY <1>1, ServiceFacts, Dequeued
<1>3. m.first \in Nat /\ m.count \in Nat /\ m.since \in Nat /\ m.kind = "CMIC"
  BY <1>1, <1>2 DEF MicMessages
<1>4. /\ Ahead(m.first) /\ m.first + m.count <= next + 1 /\ m.since < m.first
      /\ \A i \in 2..Len(stream) : m.first + m.count <= stream[i].first
  <2>1. \A i \in 2..Len(stream) : i \in 1..Len(stream) /\ 1 \in 1..i - 1
    BY <1>2
  <2> QED BY <2>1, <1>2, ServiceFacts DEF InOrder
<1> HIDE DEF m
<1>5. /\ batch'.first = m.first /\ batch'.since = m.since
      /\ batch'.accepted = Lesser(m.count, Free)
      /\ batch'.accepted \in Nat /\ batch'.accepted <= m.count
      /\ batch' \in [first : Nat, accepted : Nat, since : Nat]
  <2>1. Lesser(m.count, Free) \in Nat /\ Lesser(m.count, Free) <= m.count
    BY <1>3, Fitting
  <2> QED BY <2>1, <1>1, <1>2, <1>3
<1>6. MicTypes'
  BY <1>1, <1>2, <1>5, RingFacts, ServiceFacts, TypesKeep
<1>7. Plumbing'
  <2>1. ~agent.pending
    BY <1>1, ServiceFacts
  <2> QED BY <1>1, <2>1 DEF MicInv, Plumbing
<1>8. Past'
  <2>1. ASSUME NEW n \in Nat, m.first + m.count <= n
        PROVE  batch'.first + batch'.accepted <= n
    BY <2>1, <1>3, <1>5
  <2>2. \A i \in 2..Len(stream) : stream[i].first \in Nat
    BY <1>2 DEF MicMessages
  <2>3. InOrder(stream, next, since)'
    BY <1>1, <1>4, <2>1, <2>2, OrderPasses
  <2>4. Below(next + 1)' /\ Below(batch.first)' /\ next + 1 \in Nat
    BY <1>1, <1>4, <1>5, ServiceFacts DEF Ahead, Below
  <2>5. batch'.first + batch'.accepted <= next + 1
    BY <2>1, <2>4, <1>4
  <2> QED BY <2>3, <2>4, <2>5, <1>1, <1>4, <1>5, ServiceFacts DEF Past, Ahead
<1>9. RingInv /\ StaysParted(stream, since) => RingInv'
  <2> SUFFICES ASSUME RingInv, StaysParted(stream, since) PROVE RingInv'
    OBVIOUS
  <2>1. ring.w - ring.r + batch'.accepted <= Capacity
    BY <1>1, <1>3, <1>5, Fitting
  <2>2. \A i \in Unread : At(i) > m.since
    <3>1. Parted(stream, m.since, 1)
      BY <1>2, <1>3 DEF StaysParted, m
    <3> QED BY <3>1 DEF Parted, Fresher
  <2> QED BY <2>1, <2>2, <1>1, <1>5 DEF RingInv, Unread, At
<1>10. StaysParted(stream, since) => StaysParted(stream, since)'
  BY <1>1, <1>2, <1>5, SocketPasses
<1> QED BY <1>1, <1>6, <1>7, <1>8, <1>9, <1>10 DEF MicInv

-----------------------------------------------------------------------------
(* A slot holds what it held or a sample of the batch.                     *)
LEMMA StoredIs ==
  ASSUME MicInv, NEW i \in 0..Capacity - 1
  PROVE  Stored(i) = ring.slots[i] \/ \E k \in 0..batch.accepted - 1 : Stored(i) = batch.first + k
<1> DEFINE new == {k \in 0..batch.accepted - 1 : (ring.w + k) % Capacity = i}
<1>1. CASE new = {}
  BY <1>1 DEF Stored
<1>2. CASE new # {}
  <2>1. batch.accepted \in Nat
    BY RingFacts
  <2>2. batch.accepted - 1 \in Nat /\ new \in SUBSET (0..batch.accepted - 1)
    BY <2>1, <1>2
  <2>3. \E k \in new : \A l \in new : l <= k
    <3> HIDE DEF new
    <3> QED BY <2>2, <1>2, Greatest
  <2>4. (CHOOSE k \in new : \A l \in new : l <= k) \in new
    BY <2>3
  <2>5. Stored(i) = batch.first + CHOOSE k \in new : \A l \in new : l <= k
    BY <1>2 DEF Stored
  <2> QED BY <2>2, <2>4, <2>5
<1> QED BY <1>1, <1>2

(* While the batch fits, no slot that is unread is written, and each sample *)
(* of the batch has one of its own.                                        *)
LEMMA StoredWhere ==
  ASSUME MicInv, RingInv
  PROVE  /\ \A i \in Unread : Stored(i % Capacity) = At(i)
         /\ \A k \in 0..batch.accepted - 1 :
              Stored((ring.w + k) % Capacity) = batch.first + k
<1>1. /\ ring.w \in Nat /\ ring.r \in Nat /\ Capacity \in Nat \ {0} /\ batch.accepted \in Nat
      /\ ring.r <= ring.w /\ ring.w - ring.r + batch.accepted <= Capacity
  BY RingFacts, Sizes DEF RingInv
<1>2. ASSUME NEW i \in Unread PROVE Stored(i % Capacity) = At(i)
  <2>1. ASSUME NEW k \in 0..batch.accepted - 1
        PROVE  (ring.w + k) % Capacity # i % Capacity
    <3>1. i \in Nat /\ ring.w + k \in Nat /\ i < ring.w + k /\ (ring.w + k) - i < Capacity
      BY <1>1 DEF Unread
    <3> QED BY <3>1, <1>1, PlacesDiffer
  <2>2. {k \in 0..batch.accepted - 1 : (ring.w + k) % Capacity = i % Capacity} = {}
    BY <2>1
  <2> QED BY <2>2 DEF Stored, At
<1>3. ASSUME NEW k \in 0..batch.accepted - 1
      PROVE  Stored((ring.w + k) % Capacity) = batch.first + k
  <2> DEFINE new == {l \in 0..batch.accepted - 1 :
                       (ring.w + l) % Capacity = (ring.w + k) % Capacity}
  <2>1. ASSUME NEW l \in 0..batch.accepted - 1, l # k
        PROVE  (ring.w + l) % Capacity # (ring.w + k) % Capacity
    <3>1. CASE l < k
      <4>1. /\ ring.w + l \in Nat /\ ring.w + k \in Nat /\ ring.w + l < ring.w + k
            /\ (ring.w + k) - (ring.w + l) < Capacity
        BY <1>1, <3>1
      <4> QED BY <4>1, <1>1, PlacesDiffer
    <3>2. CASE k < l
      <4>1. /\ ring.w + l \in Nat /\ ring.w + k \in Nat /\ ring.w + k < ring.w + l
            /\ (ring.w + l) - (ring.w + k) < Capacity
        BY <1>1, <3>2
      <4>2. (ring.w + k) % Capacity # (ring.w + l) % Capacity
        BY <4>1, <1>1, PlacesDiffer
      <4> QED BY <4>2
    <3> QED BY <3>1, <3>2, <2>1
  <2>2. new = {k}
    BY <2>1
  <2>3. (CHOOSE l \in new : \A j \in new : j <= l) = k
    BY <2>2
  <2>4. Stored((ring.w + k) % Capacity)
          = batch.first + CHOOSE l \in new : \A j \in new : j <= l
    BY <2>2 DEF Stored
  <2> QED BY <2>3, <2>4
<1> QED BY <1>2, <1>3

(* The batch becomes readable.                                             *)
LEMMA WritePublishesKeeps == MicInv /\ WritePublishes => MicInv'
<1> SUFFICES ASSUME MicInv, WritePublishes PROVE MicInv'
  OBVIOUS
<1> DEFINE b == batch.first
<1> DEFINE c == batch.accepted
<1>1. /\ UNCHANGED <<agent, talking, next, since, stream, reader, given, raced, clients,
                     restarts>>
      /\ server = "write" /\ server' = "client" /\ batch' = NoBatch
      /\ ring' = [ring EXCEPT !.slots = [i \in 0..Capacity - 1 |-> Stored(i)],
                              !.w = @ + batch.accepted]
      /\ floor' = batch.since
  BY DEF WritePublishes, agentVars
<1>2. /\ b \in Nat /\ c \in Nat /\ batch.since \in Nat /\ ring.w \in Nat /\ ring.r \in Nat
      /\ ring.r <= ring.w /\ next \in Nat /\ MaxSamples \in Nat /\ next <= MaxSamples
  BY RingFacts, ServiceFacts, Sizes
<1>3. ring'.slots = [i \in 0..Capacity - 1 |-> Stored(i)] /\ ring'.w = ring.w + c
      /\ ring'.r = ring.r
  BY <1>1, RingFacts
<1>4. b + c <= next + 1 /\ Below(b) /\ batch.since < b
  BY <1>1 DEF MicInv, Past, Ahead
<1>5. ASSUME NEW i \in 0..Capacity - 1
      PROVE  Stored(i) \in Nat /\ Stored(i) < b + c
  <2>1. ring.slots[i] \in Nat /\ ring.slots[i] < b
    <3>1. ring.slots[i] \in 0..MaxSamples
      BY RingFacts
    <3> QED BY <3>1, <1>4, Sizes DEF Below
  <2>2. CASE Stored(i) = ring.slots[i]
    BY <2>1, <2>2, <1>2
  <2>3. CASE \E k \in 0..batch.accepted - 1 : Stored(i) = batch.first + k
    BY <2>3, <1>2
  <2> QED BY <2>2, <2>3, StoredIs
<1> HIDE DEF b, c
<1>6. ASSUME NEW n \in Nat, b + c <= n
      PROVE  Below(n)'
  <2>1. \A i \in 0..Capacity - 1 : ring'.slots[i] < n
    BY <1>2, <1>3, <1>5, <1>6
  <2>2. given.from < n /\ given.to < n /\ ring.w + c < n
    <3>1. given.from \in Nat /\ given.to \in Nat
      BY RingFacts, Sizes
    <3> QED BY <3>1, <1>2, <1>4, <1>6 DEF Below
  <2> QED BY <2>1, <2>2, <1>1, <1>3 DEF Below
<1>7. MicTypes'
  <2>1. \A i \in 0..Capacity - 1 : Stored(i) \in 0..MaxSamples
    BY <1>2, <1>4, <1>5
  <2>2. ring.w + c \in 0..MaxSamples /\ ring.w <= ring.w + c
    BY <1>2, <1>4 DEF Below
  <2>3. ring' \in [slots : [0..Capacity - 1 -> 0..MaxSamples], w : 0..MaxSamples,
                   r : 0..MaxSamples]
    <3>1. ring'.slots \in [0..Capacity - 1 -> 0..MaxSamples] /\ ring'.w \in 0..MaxSamples
      BY <2>1, <2>2, <1>3
    <3>2. ring' = [slots |-> ring'.slots, w |-> ring'.w, r |-> ring.r]
      BY <1>1, RingFacts
    <3> QED BY <3>1, <3>2, RingFacts
  <2>4. NoBatch \in [first : Nat, accepted : Nat, since : Nat]
    BY DEF NoBatch
  <2>5. ring'.r <= ring'.w
    BY <1>2, <1>3
  <2>6. batch.since \in 0..MaxSamples
    BY <1>2, <1>4
  <2>7. /\ stream' \in Seq(MicMessages) /\ Len(stream') <= Len(stream)
        /\ restarts' \in 0..MaxRestarts
    BY <1>1, ServiceFacts
  <2>8. /\ server' \in {"none", "accept", "client", "write"}
        /\ batch' \in [first : Nat, accepted : Nat, since : Nat] /\ floor' \in 0..MaxSamples
    BY <1>1, <2>4, <2>6
  <2>9. /\ reader' \in [step : {"idle", "loaded", "copied"}, read : 0..MaxSamples,
                       copied : 0..ReadSize]
        /\ given' \in [from : 0..MaxSamples, to : 0..MaxSamples]
        /\ clients' \in BOOLEAN /\ raced' \in BOOLEAN
    BY <1>1, RingFacts
  <2> QED BY <2>3, <2>5, <2>7, <2>8, <2>9, <1>1, TypesKeep
<1>8. Plumbing'
  <2>1. ~agent.pending
    BY <1>1, ServiceFacts
  <2>2. reader.read + reader.copied <= ring.w + c
    <3>1. reader.read \in Nat /\ reader.copied \in Nat
      BY RingFacts, Sizes
    <3> QED BY <3>1, <1>2, RingFacts
  <2> QED BY <1>1, <1>3, <2>1, <2>2 DEF MicInv, Plumbing
<1>9. Past'
  <2>1. Ahead(next + 1)'
    BY <1>1, <1>2, <1>4, <1>6 DEF Ahead
  <2>2. InOrder(stream, next, since)'
    <3>1. ASSUME NEW i \in 1..Len(stream)
          PROVE  Ahead(stream[i].first)'
      <4>1. stream[i].first \in Nat /\ b + c <= stream[i].first
        <5>1. stream[i] \in MicMessages /\ Ahead(stream[i].first)
          BY ServiceFacts DEF InOrder
        <5> QED BY <5>1, <1>1 DEF Ahead, MicMessages, b, c
      <4>2. Below(stream[i].first)'
        BY <4>1, <1>6, <1>1 DEF Below
      <4> QED BY <4>2, <1>1 DEF Ahead
    <3>2. InOrder(stream, next, since)
      BY ServiceFacts
    <3> QED BY <3>1, <3>2, <1>1 DEF InOrder
  <2> QED BY <2>1, <2>2, <1>1, ServiceFacts DEF Past
<1>10. ASSUME RingInv, NEW i \in Unread'
       PROVE  \/ i \in Unread /\ At(i)' = At(i)
              \/ i \in ring.w..ring.w + c - 1 /\ At(i)' = b + (i - ring.w)
  <2>1. i \in Nat /\ i \in ring.r..ring.w + c - 1
    BY <1>2, <1>3 DEF Unread
  <2>2. At(i)' = Stored(i % Capacity)
    BY <2>1, <1>3, Divided, Sizes DEF At
  <2>3. CASE i < ring.w
    BY <2>1, <2>2, <2>3, <1>2, <1>10, StoredWhere DEF Unread
  <2>4. CASE i >= ring.w
    <3>1. i - ring.w \in 0..batch.accepted - 1 /\ ring.w + (i - ring.w) = i
      BY <2>1, <2>4, <1>2 DEF c
    <3>2. Stored(i % Capacity) = batch.first + (i - ring.w)
      BY <3>1, <1>10, StoredWhere
    <3> QED BY <3>2, <2>1, <2>2, <2>4, <1>2 DEF b
  <2> QED BY <2>1, <2>3, <2>4, <1>2
<1>11. ASSUME RingInv PROVE RingInv'
  <2>0. /\ \A i \in Unread : At(i) \in Nat /\ At(i) < b /\ At(i) > batch.since
        /\ \A i, j \in Unread : i < j => At(i) < At(j)
        /\ \A i \in Unread : i >= ring.r + reader.copied => At(i) > given.to
        /\ Unread \subseteq Nat /\ \A i \in Unread : i < ring.w
    <3>1. \A i \in Unread : i \in Nat /\ i % Capacity \in 0..Capacity - 1 /\ i < ring.w
      BY <1>2, Divided, Sizes DEF Unread
    <3>2. \A i \in Unread : At(i) \in 0..MaxSamples /\ At(i) < b
      BY <3>1, <1>4, RingFacts DEF At, Below
    <3>3. \A i \in Unread : At(i) \in Nat
      BY <3>2, Sizes
    <3> QED BY <3>1, <3>2, <3>3, <1>1, <1>11 DEF RingInv
  <2>1. \A i, j \in Unread' : i < j => At(i)' < At(j)'
    <3> SUFFICES ASSUME NEW i \in Unread', NEW j \in Unread', i < j
                 PROVE  At(i)' < At(j)'
      OBVIOUS
    <3>1. \/ i \in Unread /\ At(i)' = At(i)
          \/ i \in ring.w..ring.w + c - 1 /\ At(i)' = b + (i - ring.w)
      BY <1>10, <1>11
    <3>2. \/ j \in Unread /\ At(j)' = At(j)
          \/ j \in ring.w..ring.w + c - 1 /\ At(j)' = b + (j - ring.w)
      BY <1>10, <1>11
    <3>3. CASE i \in Unread /\ At(i)' = At(i) /\ j \in Unread /\ At(j)' = At(j)
      BY <3>3, <2>0
    <3>4. CASE /\ i \in Unread /\ At(i)' = At(i)
               /\ j \in ring.w..ring.w + c - 1 /\ At(j)' = b + (j - ring.w)
      <4>1. At(i) \in Nat /\ At(i) < b /\ j - ring.w \in Nat
        BY <3>4, <2>0, <1>2
      <4> QED BY <4>1, <3>4, <1>2
    <3>5. CASE /\ i \in ring.w..ring.w + c - 1 /\ At(i)' = b + (i - ring.w)
               /\ j \in ring.w..ring.w + c - 1 /\ At(j)' = b + (j - ring.w)
      BY <3>5, <1>2
    <3>6. CASE i \in ring.w..ring.w + c - 1 /\ j \in Unread
      BY <3>6, <2>0, <1>2
    <3> QED BY <3>1, <3>2, <3>3, <3>4, <3>5, <3>6
  <2>2. ASSUME NEW i \in Unread'
        PROVE  /\ At(i)' > batch.since
               /\ i >= ring.r + reader.copied => At(i)' > given.to
    <3>1. CASE i \in Unread /\ At(i)' = At(i)
      BY <3>1, <2>0
    <3>2. CASE i \in ring.w..ring.w + c - 1 /\ At(i)' = b + (i - ring.w)
      <4>1. given.to < b /\ given.to \in Nat
        BY <1>4, RingFacts, Sizes DEF Below
      <4> QED BY <4>1, <3>2, <1>2, <1>4
    <3> QED BY <3>1, <3>2, <1>10, <1>11
  <2>3. ring'.w - ring'.r + NoBatch.accepted <= Capacity
    BY <1>2, <1>3, <1>11, Sizes DEF RingInv, NoBatch, c
  <2>4. /\ reader.step # "idle" => reader.read = ring.r
        /\ reader.step # "copied" => reader.copied = 0
    BY <1>11 DEF RingInv
  <2> QED BY <2>1, <2>2, <2>3, <2>4, <1>1, <1>3 DEF RingInv
<1>12. ASSUME RingInv, StaysParted(stream, since) PROVE StaysParted(stream, since)'
  <2>1. ASSUME NEW s \in Nat, \A i \in Unread : At(i) > s, b > s, NEW i \in Unread'
        PROVE  At(i)' > s
    BY <2>1, <1>2, <1>10, <1>12
  <2>2. ASSUME NEW s \in Nat, NEW n, Parted(stream, s, n)
        PROVE  Parted(stream, s, n)'
    BY <2>1, <2>2, <1>1 DEF Parted, Fresher, b
  <2>3. since \in Nat /\ \A n \in 1..Len(stream) : stream[n] \in MicMessages
    BY ServiceFacts
  <2>4. ASSUME NEW n \in 1..Len(stream), stream[n].kind = "CMIC"
        PROVE  Parted(stream, stream[n].since, n)'
    <3>1. stream[n].since \in Nat /\ Parted(stream, stream[n].since, n)
      BY <2>3, <2>4, <1>12 DEF StaysParted, MicMessages
    <3> QED BY <3>1, <2>2, <1>1 DEF Parted, Fresher
  <2>5. Parted(stream, since, Len(stream) + 1)'
    <3>1. Parted(stream, since, Len(stream) + 1)
      BY <1>12 DEF StaysParted
    <3> QED BY <3>1, <2>2, <2>3, <1>1 DEF Parted, Fresher
  <2> QED BY <2>4, <2>5, <1>1 DEF StaysParted
<1> QED BY <1>1, <1>7, <1>8, <1>9, <1>11, <1>12 DEF MicInv

-----------------------------------------------------------------------------
(* CoreAudio and the process that hosts the driver.                        *)
(* What a copy gets, and from where.                                       *)
LEMMA Copied ==
  ASSUME MicInv, ReadCopies
  PROVE  /\ UNCHANGED <<agent, talking, next, since, stream, server, batch, ring, raced, clients,
                        floor, restarts>>
         /\ reader.step = "loaded" /\ reader'.step = "copied" /\ reader'.read = reader.read
         /\ reader' \in [step : {"idle", "loaded", "copied"}, read : 0..MaxSamples,
                         copied : 0..ReadSize]
         /\ reader'.read + reader'.copied <= ring.w
         /\ given' \in [from : 0..MaxSamples, to : 0..MaxSamples]
         /\ \/ given' = given /\ reader'.copied = 0
            \/ /\ reader'.copied \in Nat \ {0}
               /\ given'.from = At(reader.read)
               /\ given'.to = At(reader.read + reader'.copied - 1)
               /\ \E i, j \in 0..Capacity - 1 :
                    given' = [from |-> ring.slots[i], to |-> ring.slots[j]]
<1> DEFINE n == Lesser(ReadSize, ring.w - reader.read)
<1>1. /\ UNCHANGED <<agent, talking, next, since, stream, server, batch, ring, raced, clients,
                     floor, restarts>>
      /\ reader.step = "loaded"
      /\ reader' = [reader EXCEPT !.step = "copied", !.copied = n]
      /\ given' = IF n = 0 THEN given
                  ELSE [from |-> ring.slots[reader.read % Capacity],
                        to |-> ring.slots[(reader.read + n - 1) % Capacity]]
  BY DEF ReadCopies, ReadRest, agentVars
<1>2. reader.read \in Nat /\ reader.copied \in Nat /\ ring.w \in Nat /\ ReadSize \in Nat
  BY RingFacts, Sizes
<1>3. reader.read <= ring.w
  BY <1>2, RingFacts
<1>4. n \in 0..ReadSize /\ n \in Nat /\ reader.read + n <= ring.w
  BY <1>2, <1>3 DEF Lesser
<1> HIDE DEF n
<1>5. /\ reader'.step = "copied" /\ reader'.read = reader.read /\ reader'.copied = n
      /\ reader' \in [step : {"idle", "loaded", "copied"}, read : 0..MaxSamples,
                      copied : 0..ReadSize]
  <2>1. reader \in [step : {"idle", "loaded", "copied"}, read : 0..MaxSamples,
                    copied : 0..ReadSize]
    BY RingFacts
  <2> QED BY <2>1, <1>1, <1>4
<1>6. CASE n = 0
  BY <1>1, <1>4, <1>5, <1>6, RingFacts
<1>7. CASE n # 0
  <2>1. reader.read + n - 1 \in Nat
    BY <1>2, <1>4, <1>7
  <2>2. /\ reader.read % Capacity \in 0..Capacity - 1
        /\ (reader.read + n - 1) % Capacity \in 0..Capacity - 1
    BY <2>1, <1>2, Divided, Sizes
  <2>3. given' = [from |-> At(reader.read), to |-> At(reader.read + n - 1)]
    BY <1>1, <1>7 DEF At
  <2>4. At(reader.read) \in 0..MaxSamples /\ At(reader.read + n - 1) \in 0..MaxSamples
    BY <2>2, RingFacts DEF At
  <2>5. \E i, j \in 0..Capacity - 1 : given' = [from |-> ring.slots[i], to |-> ring.slots[j]]
    BY <2>2, <2>3 DEF At
  <2>6. n \in Nat \ {0}
    BY <1>4, <1>7
  <2>7. given'.from = At(reader.read) /\ given'.to = At(reader.read + n - 1)
    BY <2>3
  <2>8. given' \in [from : 0..MaxSamples, to : 0..MaxSamples]
    BY <2>3, <2>4
  <2> QED BY <2>5, <2>6, <2>7, <2>8, <1>1, <1>4, <1>5
<1> QED BY <1>6, <1>7

(* The copy of a read.                                                     *)
LEMMA ReadCopiesKeeps == MicInv /\ ReadCopies => MicInv'
<1> SUFFICES ASSUME MicInv, ReadCopies PROVE MicInv'
  OBVIOUS
<1>1. MicTypes'
  <2>1. Len(stream') <= Len(stream)
    BY Copied, ServiceFacts
  <2> QED BY <2>1, Copied, RingFacts, ServiceFacts, TypesKeep
<1>2. Plumbing'
  BY Copied DEF MicInv, Plumbing, NotReading
<1>3. Past'
  <2>1. ASSUME NEW n, Below(n) PROVE Below(n)'
    BY <2>1, Copied DEF Below
  <2>2. ASSUME NEW n, Ahead(n) PROVE Ahead(n)'
    BY <2>1, <2>2, Copied DEF Ahead
  <2>3. (next + 1)' = next + 1 /\ batch' = batch /\ UNCHANGED <<stream, next, since, server>>
    BY Copied
  <2>4. Ahead(next + 1)'
    BY <2>2, <2>3, ServiceFacts DEF Ahead, Below
  <2>5. server = "write" => Below(batch.first)' /\ batch.since < batch.first
    BY <2>1, <2>3 DEF MicInv, Past, Below
  <2>6. InOrder(stream, next, since)'
    <3>1. ASSUME NEW i \in 1..Len(stream) PROVE Ahead(stream[i].first)'
      <4>1. Ahead(stream[i].first)
        BY ServiceFacts DEF InOrder
      <4> QED BY <4>1, <2>2, <2>3 DEF Ahead, Below
    <3> QED BY <3>1, <2>3, ServiceFacts DEF InOrder
  <2> QED BY <2>3, <2>4, <2>5, <2>6, ServiceFacts DEF Past
<1>4. ASSUME RingInv PROVE RingInv'
  <2>1. reader.copied = 0 /\ reader.read = ring.r /\ ring.r \in Nat
    BY <1>4, Copied, RingFacts DEF RingInv
  <2>2. ASSUME NEW i \in Unread, i >= ring.r + reader'.copied
        PROVE  At(i) > given'.to
    <3>1. CASE given' = given /\ reader'.copied = 0
      BY <3>1, <2>1, <2>2, <1>4 DEF RingInv
    <3>2. CASE /\ reader'.copied \in Nat \ {0}
               /\ given'.to = At(reader.read + reader'.copied - 1)
      <4>1. /\ ring.r + reader'.copied - 1 \in Unread
            /\ ring.r + reader'.copied - 1 < i
        <5>1. reader'.read = ring.r /\ reader'.read + reader'.copied <= ring.w /\ ring.w \in Nat
          BY <2>1, Copied, RingFacts
        <5> QED BY <5>1, <3>2, <2>1, <2>2 DEF Unread
      <4>2. At(ring.r + reader'.copied - 1) < At(i)
        BY <4>1, <1>4 DEF RingInv
      <4>3. At(ring.r + reader'.copied - 1) \in Nat /\ At(i) \in Nat
        <5>1. ASSUME NEW k \in Unread PROVE At(k) \in Nat
          <6>1. k \in Nat
            BY <2>1, RingFacts DEF Unread
          <6>2. At(k) \in 0..MaxSamples
            BY <6>1, RingFacts, Divided, Sizes DEF At
          <6> QED BY <6>2, Sizes
        <5> QED BY <5>1, <4>1
      <4> QED BY <4>2, <4>3, <3>2, <2>1
    <3> QED BY <3>1, <3>2, Copied
  <2> QED BY <2>1, <2>2, <1>4, Copied DEF RingInv, Unread, At
<1>5. ASSUME StaysParted(stream, since) PROVE StaysParted(stream, since)'
  <2>1. UNCHANGED <<stream, since, ring, server, batch>>
    BY Copied
  <2> QED BY <2>1, <1>5 DEF StaysParted, Parted, Fresher, Unread, At
<1> QED BY <1>1, <1>2, <1>3, <1>4, <1>5, Copied DEF MicInv

(* The end of a read.                                                      *)
LEMMA ReadPublishesKeeps == MicInv /\ ReadPublishes => MicInv'
<1> SUFFICES ASSUME MicInv, ReadPublishes PROVE MicInv'
  OBVIOUS
<1>1. /\ UNCHANGED <<agent, talking, next, since, stream, server, batch, given, raced, clients,
                     floor, restarts>>
      /\ reader.step = "copied" /\ reader' = NotReading
      /\ ring' = [ring EXCEPT !.r = reader.read + reader.copied]
  BY DEF ReadPublishes, ReadRest, agentVars
<1>2. /\ ring'.slots = ring.slots /\ ring'.w = ring.w
      /\ ring'.r = reader.read + reader.copied
      /\ ring' = [slots |-> ring.slots, w |-> ring.w, r |-> reader.read + reader.copied]
  BY <1>1, RingFacts
<1>3. /\ reader.read \in Nat /\ reader.copied \in Nat /\ ring.w \in Nat /\ ring.r \in Nat
      /\ ring.w \in 0..MaxSamples /\ MaxSamples \in Nat
      /\ reader.read + reader.copied <= ring.w /\ batch.accepted \in Nat
  BY RingFacts, Sizes
<1>4. MicTypes'
  <2>1. reader.read + reader.copied \in 0..MaxSamples
    BY <1>3
  <2>2. ring' \in [slots : [0..Capacity - 1 -> 0..MaxSamples], w : 0..MaxSamples,
                   r : 0..MaxSamples]
    BY <2>1, <1>2, RingFacts
  <2>3. ring'.r <= ring'.w
    BY <1>2, <1>3
  <2>4. reader' \in [step : {"idle", "loaded", "copied"}, read : 0..MaxSamples,
                     copied : 0..ReadSize]
    BY <1>1, Sizes DEF NotReading
  <2>5. stream' \in Seq(MicMessages) /\ Len(stream') <= Len(stream)
    BY <1>1, ServiceFacts
  <2> QED BY <2>2, <2>3, <2>4, <2>5, <1>1, RingFacts, ServiceFacts, TypesKeep
<1>5. ASSUME RingInv
      PROVE  reader.read = ring.r /\ Unread' \subseteq Unread
  <2>1. reader.read = ring.r
    BY <1>1, <1>5 DEF RingInv
  <2> QED BY <2>1, <1>2, <1>3 DEF Unread
<1>6. Plumbing'
  <2>1. server # "none"
    BY <1>1 DEF MicInv, Plumbing, NotReading
  <2>2. agent.pending => ring'.r = ring.r
    <3>1. agent.pending => RingInv /\ ring.w = ring.r
      BY DEF MicInv, Plumbing
    <3> QED BY <3>1, <1>2, <1>3, <1>5
  <2>3. reader'.read + reader'.copied <= ring'.w
    BY <1>1, <1>2, <1>3 DEF NotReading
  <2> QED BY <1>1, <1>2, <2>1, <2>2, <2>3 DEF MicInv, Plumbing
<1>7. Past'
  BY <1>1, <1>2 DEF MicInv, Past, InOrder, Ahead, Below
<1>8. ASSUME RingInv PROVE RingInv'
  <2>1. ring'.w - ring'.r + batch.accepted <= Capacity
    BY <1>2, <1>3, <1>5, <1>8, Sizes DEF RingInv
  <2>2. \A i \in Unread' : i \in Unread /\ At(i)' = At(i) /\ i >= ring.r + reader.copied
    BY <1>2, <1>3, <1>5, <1>8 DEF Unread, At
  <2>3. reader'.step = "idle" /\ reader'.copied = 0
    BY <1>1 DEF NotReading
  <2> QED BY <2>1, <2>2, <2>3, <1>1, <1>8 DEF RingInv
<1>9. ASSUME RingInv, StaysParted(stream, since) PROVE StaysParted(stream, since)'
  <2>1. \A i \in Unread' : i \in Unread /\ At(i)' = At(i)
    BY <1>2, <1>5, <1>9 DEF At
  <2> QED BY <2>1, <1>1, <1>9 DEF StaysParted, Parted, Fresher
<1> QED BY <1>1, <1>4, <1>6, <1>7, <1>8, <1>9 DEF MicInv

(* The end of the driver: nothing is left of what it held.                 *)
LEMMA DriverEndKeeps == MicInv /\ DriverEnds => MicInv'
<1> SUFFICES ASSUME MicInv, DriverEnds PROVE MicInv'
  OBVIOUS
<1>1. /\ UNCHANGED <<talking, next, since, floor, given>>
      /\ server' = "none" /\ restarts > 0 /\ restarts' = restarts - 1
      /\ stream' = <<>> /\ batch' = NoBatch /\ ring' = FreshRing /\ reader' = NotReading
      /\ clients' = FALSE /\ raced' = FALSE /\ server # "none"
      /\ agent' = [agent EXCEPT !.descriptor = IF @ = "open" THEN "broken" ELSE @]
  BY DEF DriverEnds
<1>2. agent' \in Agents /\ agent'.descriptor # "open" /\ agent'.pending = agent.pending
      /\ (agent.descriptor = "closed" => agent'.descriptor = "closed")
  BY <1>1, ServiceFacts DEF Agents
<1>3. /\ ring' \in [slots : [0..Capacity - 1 -> 0..MaxSamples], w : 0..MaxSamples,
                    r : 0..MaxSamples]
      /\ ring'.w = 0 /\ ring'.r = 0 /\ \A i \in 0..Capacity - 1 : ring'.slots[i] = 0
  BY <1>1, Sizes DEF FreshRing
<1>4. MicTypes'
  <2>1. restarts' \in 0..MaxRestarts
    BY <1>1, ServiceFacts, Sizes
  <2>2. reader' \in [step : {"idle", "loaded", "copied"}, read : 0..MaxSamples,
                     copied : 0..ReadSize]
        /\ batch' \in [first : Nat, accepted : Nat, since : Nat]
    BY <1>1, Sizes DEF NotReading, NoBatch
  <2>3. stream' \in Seq(MicMessages) /\ Len(stream') <= MaxStream
    BY <1>1, Sizes
  <2>4. ring'.r <= ring'.w
    BY <1>3
  <2> QED BY <1>1, <1>2, <1>3, <2>1, <2>2, <2>3, <2>4, RingFacts, ServiceFacts
          DEF MicTypes, MicTypeOK, Agents
<1>5. Plumbing'
  <2>1. ring'.w = ring'.r /\ reader'.read + reader'.copied <= ring'.w
    BY <1>1, <1>3 DEF NotReading
  <2>2. agent'.pending => agent'.descriptor = "closed"
    BY <1>2, ServiceFacts
  <2> QED BY <1>1, <1>2, <2>1, <2>2 DEF Plumbing
<1>6. Past'
  <2>1. Ahead(next + 1)'
    <3>1. given.from < next + 1 /\ given.to < next + 1 /\ 0 < next + 1
      BY ServiceFacts DEF Ahead, Below
    <3> QED BY <3>1, <1>1, <1>3 DEF Ahead, Below
  <2> QED BY <2>1, <1>1, ServiceFacts DEF Past, InOrder
<1>7. RingInv' /\ StaysParted(stream, since)'
  <2>1. Unread' = {}
    BY <1>3 DEF Unread
  <2>2. ring'.w - ring'.r + batch'.accepted <= Capacity
    BY <1>1, <1>3, Sizes DEF NoBatch
  <2>3. reader'.step = "idle" /\ reader'.copied = 0
    BY <1>1 DEF NotReading
  <2> QED BY <2>1, <2>2, <2>3, <1>1 DEF RingInv, StaysParted, Parted, Fresher
<1> QED BY <1>4, <1>5, <1>6, <1>7 DEF MicInv

-----------------------------------------------------------------------------
(* At the start.                                                           *)
LEMMA InitMic == MicInit => MicInv
<1> SUFFICES ASSUME MicInit PROVE MicInv
  OBVIOUS
<1>1. /\ ring \in [slots : [0..Capacity - 1 -> 0..MaxSamples], w : 0..MaxSamples,
                   r : 0..MaxSamples]
      /\ ring.w = 0 /\ ring.r = 0 /\ \A i \in 0..Capacity - 1 : ring.slots[i] = 0
  BY Sizes DEF MicInit, FreshRing
<1>2. /\ given = [from |-> 0, to |-> 0] /\ stream = <<>> /\ server = "none" /\ raced = FALSE
      /\ reader = [step |-> "idle", read |-> 0, copied |-> 0]
      /\ batch = [first |-> 1, accepted |-> 0, since |-> 0] /\ batch = NoBatch
      /\ agent = [descriptor |-> "closed", pending |-> FALSE, wait |-> "none"]
      /\ reader = NotReading /\ clients = FALSE /\ talking = FALSE
      /\ next = 0 /\ since = 0 /\ floor = 0 /\ restarts = MaxRestarts
  BY DEF MicInit, Silence, NotReading, NoBatch, FreshAgent
<1>3. MicTypes
  <2>1. /\ reader \in [step : {"idle", "loaded", "copied"}, read : 0..MaxSamples,
                      copied : 0..ReadSize]
        /\ given \in [from : 0..MaxSamples, to : 0..MaxSamples]
        /\ batch \in [first : Nat, accepted : Nat, since : Nat]
    BY <1>2, Sizes
  <2>2. /\ agent \in [descriptor : {"closed", "open", "broken"}, pending : BOOLEAN,
                     wait : {"none", "waiting", "late"}]
        /\ stream \in Seq(MicMessages) /\ Len(stream) <= MaxStream
    BY <1>2, Sizes
  <2>3. 0 \in 0..MaxSamples /\ MaxRestarts \in 0..MaxRestarts
    BY Sizes
  <2>4. /\ talking \in BOOLEAN /\ {next, since} \subseteq 0..MaxSamples
        /\ server \in {"none", "accept", "client", "write"} /\ ring.r <= ring.w
        /\ clients \in BOOLEAN /\ raced \in BOOLEAN
        /\ floor \in 0..MaxSamples /\ restarts \in 0..MaxRestarts
    <3>1. talking \in BOOLEAN /\ clients \in BOOLEAN /\ raced \in BOOLEAN
      BY <1>2
    <3>2. {next, since} \subseteq 0..MaxSamples
      BY <1>2, <2>3
    <3>3. floor \in 0..MaxSamples /\ restarts \in 0..MaxRestarts
      BY <1>2, <2>3
    <3> QED BY <3>1, <3>2, <3>3, <1>1, <1>2
  <2>5. MicTypeOK
    BY <1>1, <2>1, <2>2, <2>4 DEF MicTypeOK
  <2> QED BY <2>1, <2>2, <2>5 DEF MicTypes
<1>4. Plumbing
  BY <1>1, <1>2 DEF Plumbing
<1>5. Past
  BY <1>1, <1>2 DEF Past, InOrder, Ahead, Below
<1>6. RingInv /\ StaysParted(stream, since)
  <2>1. Unread = {}
    BY <1>1 DEF Unread
  <2>2. ring.w - ring.r + batch.accepted <= Capacity
    BY <1>1, <1>2, Sizes
  <2> QED BY <2>1, <2>2, <1>2 DEF RingInv, StaysParted, Parted, Fresher
<1> QED BY <1>3, <1>4, <1>5, <1>6 DEF MicInv

(* A step in which nothing happens.                                        *)
LEMMA StutterMic == MicInv /\ UNCHANGED micVars => MicInv'
<1> SUFFICES ASSUME MicInv, UNCHANGED micVars PROVE MicInv'
  OBVIOUS
<1>1. UNCHANGED <<agent, talking, next, since, stream, server, batch, ring, reader, given, raced,
                  clients, floor, restarts>>
  BY DEF micVars, agentVars, ringVars
<1>2. MicTypes' /\ Plumbing'
  BY <1>1 DEF MicInv, MicTypes, MicTypeOK, Plumbing
<1>3. Past' /\ (StaysParted(stream, since) => StaysParted(stream, since)')
  BY <1>1, ContentsKeep
<1>4. RingInv => RingInv'
  BY <1>1 DEF RingInv, Unread, At
<1> QED BY <1>1, <1>2, <1>3, <1>4 DEF MicInv

(* Each step.                                                              *)
LEMMA StepMic == MicInv /\ [MicNext]_micVars => MicInv'
<1> SUFFICES ASSUME MicInv, [MicNext]_micVars PROVE MicInv'
  OBVIOUS
<1>1. CASE Begin \/ Write
  BY <1>1, SessionBeginKeeps, WriteKeeps
<1>2. CASE WriteThrows \/ DeadlinePasses \/ EndSession
  BY <1>2, WaitingKeeps
<1>3. CASE AgentEnds \/ BrokenPipe
  BY <1>3, AgentEndKeeps
<1>4. CASE Server
  BY <1>4, QuietKeeps, HangsUpKeeps, ClearKeeps, WriteLoadsKeeps, WritePublishesKeeps DEF Server
<1>5. CASE StartIO \/ StopIO \/ ReadLoads \/ Initialize
  BY <1>5, QuietKeeps
<1>6. CASE ReadCopies \/ ReadPublishes
  BY <1>6, ReadCopiesKeeps, ReadPublishesKeeps
<1>7. CASE DriverEnds
  BY <1>7, DriverEndKeeps
<1>8. CASE UNCHANGED micVars
  BY <1>8, StutterMic
<1> QED BY <1>1, <1>2, <1>3, <1>4, <1>5, <1>6, <1>7, <1>8 DEF MicNext

(* The inductive invariant of the virtual microphone.                      *)
LEMMA MicInvariant == MicSpec => []MicInv
  BY InitMic, StepMic, PTL DEF MicSpec

(* Everything keeps its type (MicTypeOK), the indices in particular.       *)
THEOREM MicTypeCorrect == MicSpec => []MicTypeOK
<1>1. MicInv => MicTypeOK
  BY DEF MicInv, MicTypes
<1> QED BY <1>1, MicInvariant, PTL

(* Unless a clear falls into a read, the ring holds no more than fits, in   *)
(* the order it was said, and nothing from before the session that was      *)
(* cleared for.                                                            *)
THEOREM RingAlwaysHoldsSession == MicSpec => []RingHoldsSession
<1>1. ASSUME MicInv PROVE RingHoldsSession
  <2>1. SUFFICES ASSUME RingInv PROVE RingHoldsSession
    BY <1>1 DEF MicInv, RingHoldsSession
  <2>2. ring.w \in Nat /\ ring.r \in Nat /\ batch.accepted \in Nat
    BY <1>1, RingFacts
  <2>3. ring.w - ring.r <= Capacity
    BY <2>1, <2>2, Sizes DEF RingInv
  <2>4. ASSUME NEW i \in ring.r..ring.w - 1
        PROVE  /\ ring.slots[i % Capacity] > floor
               /\ i > ring.r => ring.slots[i % Capacity] > ring.slots[(i - 1) % Capacity]
    <3>1. i \in Unread /\ (i > ring.r => i - 1 \in Unread /\ i - 1 < i)
      BY <2>2 DEF Unread
    <3>2. At(i) > floor /\ (i > ring.r => At(i - 1) < At(i))
      BY <3>1, <2>1 DEF RingInv
    <3>3. i > ring.r => At(i) > At(i - 1)
      BY <3>2
    <3> QED BY <3>2, <3>3 DEF At
  <2> QED BY <2>3, <2>4 DEF RingHoldsSession
<1> QED BY <1>1, MicInvariant, PTL

(* CoreAudio gets no sample twice and none after a later one, over restarts *)
(* of either side.                                                         *)
THEOREM AlwaysHeardOnce == MicSpec => HeardOnce
<1>1. MicInv /\ [MicNext]_micVars
        => [given' # given => raced \/ given'.from > given.to]_micVars
  <2> SUFFICES ASSUME MicInv, [MicNext]_micVars, given' # given, ~raced
               PROVE  given'.from > given.to
    OBVIOUS
  <2>1. ReadCopies
    BY DEF MicNext, Begin, Write, WriteThrows, DeadlinePasses, EndSession, AgentEnds, BrokenPipe,
           AgentGone, Server, Accept, HangsUp, ClearRing, WriteLoads, WritePublishes, StartIO,
           StopIO, ReadLoads, ReadPublishes, Initialize, DriverEnds, AgentRest, ReadRest,
           micVars, ringVars
  <2>2. /\ RingInv /\ reader.step = "loaded" /\ reader'.copied \in Nat \ {0}
        /\ given'.from = At(reader.read) /\ reader'.read = reader.read
        /\ reader'.read + reader'.copied <= ring.w
    BY <2>1, Copied DEF MicInv
  <2>3. reader.read = ring.r /\ reader.copied = 0 /\ ring.r \in Nat /\ ring.w \in Nat
    BY <2>2, RingFacts DEF RingInv
  <2>4. ring.r \in Unread /\ ring.r >= ring.r + reader.copied
    BY <2>2, <2>3 DEF Unread
  <2>5. At(ring.r) > given.to
    BY <2>2, <2>4 DEF RingInv
  <2> QED BY <2>2, <2>3, <2>5
<1> QED BY <1>1, MicInvariant, PTL DEF MicSpec, HeardOnce

-----------------------------------------------------------------------------
(* The gateway.                                                            *)
USE LimitsAssumption, DurationsAssumption DEF Frames, Old, Unset

Claimed == heard \cup frames \cup Kept(early)

Admitted ==
  \A n \in Claimed : n <= high /\ (high - n < Window => high - n \in mask)

(* A frame is in one place, and each buffer is used in its own phase.      *)
Phases ==
  /\ frames \cap heard = {} /\ Kept(early) \cap heard = {}
  /\ ptt = "Idle" => frames = {} /\ expected = 0 /\ playing = FALSE /\ last = 0
  /\ ptt # "Idle" => Kept(early) = {}

PlaceInv ==
  /\ expected = IF last = 0 THEN 0 ELSE last + 1
  /\ playing => expected # 0
  /\ BufferAhead

GatewayInv == GatewayTypeOK /\ Admitted /\ Phases /\ PlaceInv

-----------------------------------------------------------------------------
(* The ends of the ranges.                                                 *)
LEMMA Ends ==
  /\ 0 \in 0..MaxFrame /\ 0 \in 0..(MaxFrame + 1) /\ 0 \in 0..PostRoll /\ 0 \in 0..Stall
  /\ 0 \in 0..Unset /\ Unset \in 0..Unset /\ {} \subseteq 0..(Window - 1)
  /\ TRUE \in BOOLEAN /\ FALSE \in BOOLEAN
  OBVIOUS

(* Nothing is kept in the empty prebuffer.                                 *)
LEMMA NoneIsKept == NoneKept \in [Frames -> 0..Old] /\ Kept(NoneKept) = {}
  BY DEF NoneKept, Kept

(* An admitted frame is not admitted again.                                *)
LEMMA AdmittedOnce ==
  ASSUME GatewayInv, NEW n \in Frames, Accepts(n)
  PROVE  n \notin Claimed
  BY DEF GatewayInv, GatewayTypeOK, Admitted, Accepts

(* Admitting a frame sets its bit and keeps the bits of the others, as far *)
(* as the window reaches.                                                  *)
LEMMA AdmitKeeps ==
  ASSUME GatewayInv, NEW n \in Frames, Accepts(n), Admit(n)
  PROVE  /\ high' \in 0..MaxFrame /\ mask' \subseteq 0..(Window - 1)
         /\ \A m \in Claimed \cup {n} :
              m <= high' /\ (high' - m < Window => high' - m \in mask')
<1>0. /\ high \in 0..MaxFrame /\ mask \subseteq 0..(Window - 1)
      /\ Claimed \subseteq Frames
      /\ \A m \in Claimed : m <= high /\ (high - m < Window => high - m \in mask)
  BY DEF GatewayInv, GatewayTypeOK, Admitted, Claimed, Kept
<1>1. CASE high = 0
  BY <1>0, <1>1 DEF Admit
<1>2. CASE high # 0 /\ n > high
  <2>1. high' = n /\ mask' = Shifted(n)
    BY <1>2 DEF Admit
  <2>2. Shifted(n) \subseteq 0..(Window - 1) /\ 0 \in Shifted(n)
    BY DEF Shifted
  <2>3. ASSUME NEW m \in Claimed, n - m < Window
        PROVE  n - m \in Shifted(n)
    <3>1. m \in Frames /\ m <= high /\ (n - m) - (n - high) = high - m
      BY <1>0, <2>3
    <3>2. high - m \in mask /\ n - m \in 0..(Window - 1) /\ n - m >= n - high
      BY <1>0, <1>2, <2>3, <3>1
    <3> QED
      BY <3>1, <3>2 DEF Shifted
  <2> QED
    BY <1>0, <1>2, <2>1, <2>2, <2>3
<1>3. CASE high # 0 /\ ~(n > high)
  <2>1. high' = high /\ mask' = mask \cup {high - n}
    BY <1>3 DEF Admit
  <2>2. high - n \in 0..(Window - 1)
    BY <1>0, <1>3 DEF Accepts
  <2> QED
    BY <1>0, <1>3, <2>1, <2>2
<1> QED
  BY <1>1, <1>2, <1>3

-----------------------------------------------------------------------------
(* A reset of the press keeps the invariant: nothing is left to disagree.  *)
LEMMA ResetKeeps ==
  ASSUME GatewayInv, ResetPTTState, session' \in BOOLEAN,
         UNCHANGED <<high, mask, heard>> \/ (high' = 0 /\ mask' = {} /\ heard' = {})
  PROVE  GatewayInv'
<1>1. /\ ptt' = "Idle" /\ early' = NoneKept /\ frames' = {} /\ expected' = 0
      /\ first' = Unset /\ playing' = FALSE /\ silence' = 0 /\ stalled' = FALSE
      /\ drain' = 0 /\ last' = 0 /\ silent' = FALSE
  BY DEF ResetPTTState, ResetBuffers
<1>2. Kept(early') = {} /\ early' \in [Frames -> 0..Old]
  BY <1>1, NoneIsKept
<1>3. GatewayTypeOK'
  BY <1>1, <1>2, Ends, Zenon DEF GatewayInv, GatewayTypeOK
<1>4. Admitted'
  BY <1>1, <1>2 DEF GatewayInv, Admitted, Claimed, Kept
<1> QED
  BY <1>1, <1>2, <1>3, <1>4 DEF GatewayInv, Phases, PlaceInv, BufferAhead, Kept

(* A press begins with the frames that were waiting for it.                *)
LEMMA BeginKeeps ==
  ASSUME GatewayInv, BeginPTT
  PROVE  GatewayInv'
<1>1. /\ ptt' = "Active" /\ early' = NoneKept /\ frames' = Kept(early) /\ expected' = 0
      /\ playing' = FALSE /\ stalled' = FALSE /\ drain' = 0 /\ last' = 0
      /\ silent' = FALSE /\ UNCHANGED <<session, high, mask, heard>>
  BY DEF BeginPTT, windowVars
<1>2. Kept(early') = {} /\ early' \in [Frames -> 0..Old]
  BY <1>1, NoneIsKept
<1>3. /\ first' \in 0..Unset /\ silence' \in 0..Stall
      /\ frames' # {} => first' # Unset
  <2>1. CASE Kept(early) = {} /\ first' = Unset /\ silence' = 0
    BY <1>1, <2>1
  <2>2. ASSUME NEW oldest \in Kept(early), NEW youngest \in Kept(early),
               first' = AtMost(early[oldest], Jitter),
               silence' = AtMost(early[youngest], Stall)
        PROVE  first' \in 0..Jitter /\ silence' \in 0..Stall
    BY <2>2 DEF AtMost, Kept, GatewayInv, GatewayTypeOK
  <2> QED
    BY <2>1, <2>2 DEF BeginPTT
<1>4. GatewayTypeOK'
  <2>1. Kept(early) \subseteq Frames
    BY DEF Kept
  <2> QED
    BY <1>1, <1>2, <1>3, <2>1, Ends, Zenon DEF GatewayInv, GatewayTypeOK
<1>5. Admitted'
  BY <1>1, <1>2 DEF GatewayInv, Admitted, Claimed, Kept
<1> QED
  BY <1>1, <1>2, <1>3, <1>4, <1>5
     DEF GatewayInv, GatewayTypeOK, Phases, PlaceInv, BufferAhead, Kept

(* A frame comes in.                                                       *)
LEMMA ReceiveKeeps ==
  ASSUME GatewayInv, NEW n \in Frames, Receive(n)
  PROVE  GatewayInv'
<1>1. /\ Accepts(n) /\ Admit(n) /\ silence' = 0 /\ stalled' = FALSE
      /\ UNCHANGED <<session, ptt, drain, expected, playing, last, silent, heard>>
  BY DEF Receive
<1>2. n \notin Claimed
  BY <1>1, AdmittedOnce
<1>3. /\ high' \in 0..MaxFrame /\ mask' \subseteq 0..(Window - 1)
      /\ \A m \in Claimed \cup {n} :
           m <= high' /\ (high' - m < Window => high' - m \in mask')
  BY <1>1, AdmitKeeps
<1>4. CASE ptt = "Idle"
  <2>1. UNCHANGED <<frames, first>> /\ Prebuffers(n)
    BY <1>4 DEF Receive
  <2>2. PICK with : with = [early EXCEPT ![n] = 0]
    OBVIOUS
  <2>3. with \in [Frames -> 0..Old] /\ Kept(with) = Kept(early) \cup {n}
    BY <2>2 DEF GatewayInv, GatewayTypeOK, Kept
  <2>4. early' = with \/ \E oldest \in Kept(with) : early' = [with EXCEPT ![oldest] = Old]
    BY <2>1, <2>2 DEF Prebuffers
  <2>5. early' \in [Frames -> 0..Old] /\ Kept(early') \subseteq Kept(early) \cup {n}
    BY <2>3, <2>4 DEF Kept
  <2>6. GatewayTypeOK'
    BY <1>1, <1>3, <2>1, <2>5, Ends, Zenon DEF GatewayInv, GatewayTypeOK
  <2>7. Claimed' \subseteq Claimed \cup {n}
    BY <1>1, <2>1, <2>5 DEF Claimed, Kept
  <2>8. Admitted'
    BY <1>3, <2>7 DEF Admitted
  <2>9. Phases'
    BY <1>1, <1>2, <1>4, <2>1, <2>5 DEF GatewayInv, Phases, Claimed, Kept
  <2> QED
    BY <1>1, <2>1, <2>6, <2>8, <2>9 DEF GatewayInv, PlaceInv, BufferAhead
<1>5. CASE ptt # "Idle"
  <2>1. UNCHANGED early /\ Enqueue(n)
    BY <1>5 DEF Receive
  <2>2. \/ UNCHANGED <<frames, first>>
        \/ /\ frames' = frames \cup {n} /\ (expected # 0 => n >= expected)
           /\ first' = IF first = Unset THEN 0 ELSE first
    BY <2>1 DEF Enqueue, GatewayInv, GatewayTypeOK
  <2>3. GatewayTypeOK'
    <3>1. frames' \subseteq Frames /\ first' \in 0..Unset
      BY <2>2, Ends DEF GatewayInv, GatewayTypeOK
    <3> QED
      BY <1>1, <1>3, <2>1, <3>1, Ends, Zenon DEF GatewayInv, GatewayTypeOK
  <2>4. Claimed' \subseteq Claimed \cup {n}
    BY <1>1, <2>1, <2>2 DEF Claimed, Kept
  <2>5. Admitted'
    BY <1>3, <2>4 DEF Admitted
  <2>6. Phases'
    BY <1>1, <1>2, <1>5, <2>1, <2>2 DEF GatewayInv, Phases, Claimed, Kept
  <2>7. PlaceInv'
    <3>1. first' # Unset \/ UNCHANGED <<frames, first>>
      BY <2>2 DEF GatewayInv
    <3>2. \A m \in frames' : expected # 0 => m >= expected
      BY <2>2 DEF GatewayInv, PlaceInv, BufferAhead
    <3> QED
      BY <1>1, <2>2, <3>1, <3>2 DEF GatewayInv, PlaceInv, BufferAhead
  <2> QED
    BY <2>3, <2>5, <2>6, <2>7 DEF GatewayInv
<1> QED
  BY <1>4, <1>5

-----------------------------------------------------------------------------
(* The place that a tick plays or conceals is ahead of the last one.       *)
LEMMA DueIsAhead ==
  ASSUME GatewayInv, NEW n \in frames, Due(n)
  PROVE  /\ n \in Frames /\ n > last /\ n \notin heard
         /\ \A m \in frames : m >= n
         /\ playing => n = last + 1
  BY DEF GatewayInv, GatewayTypeOK, Phases, PlaceInv, BufferAhead, Due

(* Playing the due frame keeps the invariant.                              *)
LEMMA PlayKeeps ==
  ASSUME GatewayInv, TickPlays
  PROVE  GatewayInv'
<1>1. PICK n \in frames : /\ Due(n) /\ frames' = frames \ {n}
                          /\ heard' = heard \cup {n} /\ Advance(n, FALSE)
  BY DEF TickPlays
<1>2. /\ n \in Frames /\ n > last /\ n \notin heard
      /\ \A m \in frames : m >= n
  BY <1>1, DueIsAhead
<1>3. /\ expected' = n + 1 /\ playing' = TRUE /\ last' = n /\ silent' = FALSE
      /\ ptt # "Idle"
      /\ UNCHANGED <<session, high, mask, ptt, drain, early, first, silence>>
      /\ stalled' \in BOOLEAN
  BY <1>1 DEF Advance, ReportStall, TickPlays, Ticking, windowVars, GatewayInv, GatewayTypeOK
<1>4. GatewayTypeOK'
  <2>1. n + 1 \in 0..(MaxFrame + 1) /\ n \in 0..MaxFrame
    BY <1>2
  <2> QED
    BY <1>1, <1>2, <1>3, <2>1, Ends, Zenon DEF GatewayInv, GatewayTypeOK
<1>5. Admitted'
  BY <1>1, <1>3 DEF GatewayInv, Admitted, Claimed, Kept
<1>6. Phases'
  BY <1>1, <1>2, <1>3 DEF GatewayInv, Phases, Kept
<1>7. PlaceInv'
  BY <1>1, <1>2, <1>3 DEF GatewayInv, GatewayTypeOK, PlaceInv, BufferAhead
<1> QED
  BY <1>4, <1>5, <1>6, <1>7 DEF GatewayInv

(* Concealing fills exactly the place after the last one.                  *)
LEMMA ConcealKeeps ==
  ASSUME GatewayInv, TickConceals
  PROVE  GatewayInv' /\ expected \in Frames /\ expected = last + 1
<1>1. /\ playing /\ expected \notin frames /\ ptt # "Idle"
      /\ Advance(expected, TRUE) /\ UNCHANGED <<frames, heard>>
  BY DEF TickConceals, Ticking
<1>2. PICK later \in frames : later > expected
  BY DEF TickConceals
<1>3. expected \in Frames /\ expected = last + 1
  BY <1>1, <1>2 DEF GatewayInv, GatewayTypeOK, PlaceInv
<1>4. /\ expected' = expected + 1 /\ playing' = TRUE /\ last' = expected /\ silent' = TRUE
      /\ UNCHANGED <<session, high, mask, ptt, drain, early, first, silence>>
      /\ stalled' \in BOOLEAN
  BY <1>1 DEF Advance, ReportStall, windowVars, GatewayInv, GatewayTypeOK
<1>5. GatewayTypeOK'
  BY <1>1, <1>3, <1>4 DEF GatewayInv, GatewayTypeOK
<1>6. Admitted'
  BY <1>1, <1>4 DEF GatewayInv, Admitted, Claimed, Kept
<1>7. Phases'
  BY <1>1, <1>4 DEF GatewayInv, Phases, Kept
<1>8. PlaceInv'
  BY <1>1, <1>3, <1>4 DEF GatewayInv, GatewayTypeOK, PlaceInv, BufferAhead
<1> QED
  BY <1>3, <1>5, <1>6, <1>7, <1>8 DEF GatewayInv

(* A tick that waits, or goes back to filling, plays nothing.              *)
LEMMA PauseKeeps ==
  ASSUME GatewayInv, TickWaits \/ TickRebuffers
  PROVE  GatewayInv'
<1>1. /\ UNCHANGED <<session, high, mask, ptt, drain, early, frames, expected, last, silent,
                     heard, silence>>
      /\ stalled' \in BOOLEAN
  BY DEF TickWaits, TickRebuffers, ReportStall, windowVars, bufferVars, GatewayInv,
         GatewayTypeOK
<1>2. \/ UNCHANGED <<first, playing>>
      \/ playing' = FALSE /\ first' = Unset /\ frames = {}
  <2>1. CASE TickWaits
    BY <2>1 DEF TickWaits, bufferVars
  <2>2. CASE TickRebuffers
    <3>1. frames = {}
      BY <2>2 DEF TickRebuffers, GatewayInv, GatewayTypeOK, PlaceInv, BufferAhead
    <3> QED
      BY <2>2, <3>1 DEF TickRebuffers
  <2> QED
    BY <2>1, <2>2
<1>3. GatewayTypeOK'
  BY <1>1, <1>2, Ends, Zenon DEF GatewayInv, GatewayTypeOK
<1>4. Admitted' /\ Phases'
  BY <1>1, <1>2 DEF GatewayInv, Admitted, Claimed, Phases, Kept
<1>5. PlaceInv'
  BY <1>1, <1>2 DEF GatewayInv, PlaceInv, BufferAhead
<1> QED
  BY <1>3, <1>4, <1>5 DEF GatewayInv

(* Time passes: frames leave the prebuffer, none enters it.                *)
LEMMA ElapseKeeps ==
  ASSUME GatewayInv, Elapse
  PROVE  GatewayInv'
<1>1. /\ UNCHANGED <<session, high, mask, ptt, frames, expected, playing, stalled, last,
                     silent, heard>>
      /\ early' = [n \in Frames |-> AtMost(early[n] + 1, Old)]
      /\ first' = IF first = Unset THEN Unset ELSE AtMost(first + 1, Jitter)
  BY DEF Elapse, windowVars
<1>2. drain' \in 0..PostRoll /\ silence' \in 0..Stall
  BY DEF Elapse, AtMost, GatewayInv, GatewayTypeOK
<1>3. first' \in 0..Unset /\ (first # Unset => first' # Unset)
  BY <1>1 DEF AtMost, GatewayInv, GatewayTypeOK
<1>4. early' \in [Frames -> 0..Old] /\ Kept(early') \subseteq Kept(early)
  BY <1>1 DEF AtMost, Kept, GatewayInv, GatewayTypeOK
<1>5. GatewayTypeOK'
  BY <1>1, <1>2, <1>3, <1>4 DEF GatewayInv, GatewayTypeOK
<1>6. Admitted' /\ Phases'
  BY <1>1, <1>4 DEF GatewayInv, Admitted, Claimed, Phases, Kept
<1>7. PlaceInv'
  BY <1>1, <1>3 DEF GatewayInv, PlaceInv, BufferAhead
<1> QED
  BY <1>5, <1>6, <1>7 DEF GatewayInv

-----------------------------------------------------------------------------
(* The invariant holds at the start.                                       *)
LEMMA InitGateway == Init => GatewayInv
<1> SUFFICES ASSUME Init PROVE GatewayInv
  OBVIOUS
<1>1. early \in [Frames -> 0..Old] /\ Kept(early) = {}
  BY NoneIsKept DEF Init
<1>2. GatewayTypeOK
  BY <1>1, Ends, Zenon DEF Init, GatewayTypeOK
<1> QED
  BY <1>1, <1>2 DEF Init, GatewayInv, Admitted, Claimed, Phases, PlaceInv, BufferAhead

(* Every step keeps it.                                                    *)
LEMMA StepGateway == GatewayInv /\ [Next]_vars => GatewayInv'
<1> SUFFICES ASSUME GatewayInv, [Next]_vars PROVE GatewayInv'
  OBVIOUS
<1>1. ASSUME NEW new \in BOOLEAN, Configure(new) PROVE GatewayInv'
  BY <1>1, ResetKeeps DEF Configure
<1>2. CASE CancelPTT \/ TickEnds \/ TickFails
  BY <1>2, ResetKeeps DEF CancelPTT, TickEnds, TickFails, windowVars, GatewayInv, GatewayTypeOK
<1>3. CASE BeginPTT
  BY <1>3, BeginKeeps
<1>4. CASE EndPTT
  BY <1>4 DEF EndPTT, GatewayInv, GatewayTypeOK, Admitted, Claimed, Phases, PlaceInv,
              BufferAhead, Kept, windowVars, bufferVars, stallVars
<1>5. ASSUME NEW n \in Frames, Receive(n) PROVE GatewayInv'
  BY <1>5, ReceiveKeeps
<1>6. CASE PlayoutTick
  BY <1>2, <1>6, PlayKeeps, ConcealKeeps, PauseKeeps DEF PlayoutTick
<1>7. CASE Elapse
  BY <1>7, ElapseKeeps
<1>8. CASE UNCHANGED vars
  BY <1>8 DEF vars, GatewayInv, GatewayTypeOK, Admitted, Claimed, Phases, PlaceInv,
              BufferAhead, Kept, windowVars, bufferVars, stallVars
<1> QED
  BY <1>1, <1>2, <1>3, <1>4, <1>5, <1>6, <1>7, <1>8 DEF Next

(* It holds in every state.                                                *)
LEMMA GatewayInvariant == Spec => []GatewayInv
  BY InitGateway, StepGateway, PTL DEF Spec

-----------------------------------------------------------------------------
(* Every variable keeps its type; the place never leaves the stream.       *)
THEOREM GatewayTypeCorrect == Spec => []GatewayTypeOK
<1>1. GatewayInv => GatewayTypeOK
  BY DEF GatewayInv
<1> QED
  BY <1>1, GatewayInvariant, PTL

(* No frame that was heard, or waits to be, passes the replay window again. *)
THEOREM AdmittedFramesStayOut == Spec => []NeverAdmittedAgain
<1>1. GatewayInv => NeverAdmittedAgain
  BY AdmittedOnce DEF NeverAdmittedAgain, Claimed, GatewayInv, GatewayTypeOK, Kept
<1> QED
  BY <1>1, GatewayInvariant, PTL

(* The playout is never past what waits, and knows how long it has waited. *)
THEOREM BufferStaysAhead == Spec => []BufferAhead
<1>1. GatewayInv => BufferAhead
  BY DEF GatewayInv, PlaceInv
<1> QED
  BY <1>1, GatewayInvariant, PTL

(* While it runs, the playout skips no place of the stream.                *)
THEOREM TimelineAlwaysKept == Spec => TimelineKept
<1>1. GatewayInv /\ [Next]_vars => [playing /\ last' > last => last' = last + 1]_vars
  <2> SUFFICES ASSUME GatewayInv, Next, playing, last' > last PROVE last' = last + 1
    OBVIOUS
  <2>1. CASE TickPlays
    BY <2>1, DueIsAhead DEF TickPlays, Advance
  <2>2. CASE TickConceals
    BY <2>2, ConcealKeeps DEF TickConceals, Advance
  <2>3. CASE ~TickPlays /\ ~TickConceals
    <3>1. last' = last \/ last' = 0
      BY <2>3 DEF Next, Configure, BeginPTT, EndPTT, CancelPTT, Receive, PlayoutTick, TickEnds,
                  TickWaits, TickRebuffers, TickFails, Elapse, ResetPTTState, ResetBuffers
    <3> QED
      BY <3>1 DEF GatewayInv, GatewayTypeOK
  <2> QED
    BY <2>1, <2>2, <2>3
<1> QED
  BY <1>1, GatewayInvariant, PTL DEF Spec, TimelineKept

(* The gateway implements InOrderPlayout: in a press only, each frame at   *)
(* most once in a session, never backwards.                                *)
THEOREM ImplementsPlayout == Spec => PlaysInOrder
<1>1. Init => Playout!Init
  BY DEF Init, Playout!Init
<1>2. GatewayInv /\ [Next]_vars => [Playout!Next]_(Playout!vars)
  <2> SUFFICES ASSUME GatewayInv, [Next]_vars
               PROVE  Playout!Next \/ UNCHANGED Playout!vars
    OBVIOUS
  <2> USE DEF Playout!Next, Playout!vars, Playout!Open, Playout!Close, Playout!NewSession
  <2>1. ASSUME NEW new \in BOOLEAN, Configure(new) PROVE Playout!NewSession
    BY <2>1 DEF Configure, ResetPTTState, ResetBuffers
  <2>2. CASE CancelPTT \/ TickEnds \/ TickFails
    BY <2>2 DEF CancelPTT, TickEnds, TickFails, ResetPTTState, ResetBuffers
  <2>3. CASE BeginPTT
    BY <2>3 DEF BeginPTT
  <2>4. CASE EndPTT
    BY <2>4 DEF EndPTT
  <2>5. ASSUME NEW n \in Frames, Receive(n) PROVE UNCHANGED Playout!vars
    BY <2>5 DEF Receive
  <2>6. CASE TickPlays
    <3>1. PICK n \in frames : Due(n) /\ heard' = heard \cup {n} /\ Advance(n, FALSE)
      BY <2>6 DEF TickPlays
    <3>2. Playout!Play(n)
      BY <2>6, <3>1, DueIsAhead DEF Playout!Play, Advance, TickPlays, Ticking
    <3> QED
      BY <3>1, <3>2, DueIsAhead
  <2>7. CASE TickConceals
    <3>1. expected \in Frames /\ expected = last + 1
      BY <2>7, ConcealKeeps
    <3>2. Playout!Conceal(expected)
      BY <2>7, <3>1 DEF Playout!Conceal, Advance, TickConceals, Ticking, GatewayInv, GatewayTypeOK
    <3> QED
      BY <3>1, <3>2
  <2>8. CASE TickWaits \/ TickRebuffers \/ Elapse \/ UNCHANGED vars
    BY <2>8 DEF TickWaits, TickRebuffers, Elapse, vars
  <2> QED
    BY <2>1, <2>2, <2>3, <2>4, <2>5, <2>6, <2>7, <2>8 DEF Next, PlayoutTick
<1> QED
  BY <1>1, <1>2, GatewayInvariant, PTL DEF Spec, PlaysInOrder, Playout!Spec
=============================================================================
