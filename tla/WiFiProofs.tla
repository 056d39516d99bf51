----------------------------- MODULE WiFiProofs -----------------------------
(***************************************************************************)
(* The two halves of Wi-Fi: the session between the device and the Mac,    *)
(* and after it how the device gets onto a network.                        *)
(*                                                                         *)
(* The session (WiFiSession), for any number of connections, the device's  *)
(* own and those of strangers:                                             *)
(* a sender that passed its check keeps its socket and its keys until it   *)
(* has sent; the Mac never has two connections open, and its gateway is    *)
(* configured for the active one or for none.                              *)
(*                                                                         *)
(* The argument for the senders: the transport task publishes and takes    *)
(* apart in an order (Published), and each of its stores that a sender     *)
(* could miss waits for the mutex that the sender holds (SendersInv).  The *)
(* keys have no mutex; they are cleared last, when both sockets are gone   *)
(* and so neither sender can be past its check.                            *)
(*                                                                         *)
(* The argument for the Mac (StreamInv): accept closes what is active or   *)
(* pending, and whatever is open is one of the two (OneOpen).  That could  *)
(* only be lost by a late answer of an old connection that takes the place *)
(* of the active one; but the old one was closed before the new one began, *)
(* so on the one serial queue all it still has to say stands before        *)
(* anything the new one says (OldAnswersFirst).                            *)
(***************************************************************************)
EXTENDS WiFiSetup, WiFiSession, FiniteSetTheorems, SequenceTheorems, TLAPS

(* What is published at each step of wifi_transport_task.                  *)
Published ==
  /\ dev \in Steps
  /\ dev = "probe" <=> fd \notin Conns
  /\ keys = IF dev \in {"probe", "wait"} THEN None ELSE fd
  /\ udp = IF dev \in {"publish", "receive", "unflagged", "unlinked"} THEN fd ELSE None
  /\ sock = IF dev \in {"receive", "unflagged"} THEN fd ELSE None
  /\ up <=> dev = "receive"

(* When a sender can be past its check, and with what.                     *)
SendersInv ==
  /\ ctl # None => dev \in {"receive", "unflagged"} /\ ctl = sock
  /\ aud # None => dev \in {"receive", "unflagged", "unlinked"} /\ aud = udp

DeviceInv == Published /\ SendersInv

-----------------------------------------------------------------------------
(* Nothing is published at first.                                          *)
LEMMA DeviceInit == Init => DeviceInv
  BY DEF Init, DeviceInv, Published, SendersInv, Steps, Conns, None

(* A step of the transport task.                                           *)
LEMMA TaskKeeps ==
  ASSUME DeviceInv, DeviceWorks \/ Unflag
  PROVE  DeviceInv'
<1> USE DEF DeviceInv, Published, SendersInv, DeviceRest, senderVars, Steps
<1>0. None \notin Conns
  BY DEF None, Conns
<1>1. CASE Probe
  BY <1>0, <1>1 DEF Probe, Connects
<1>2. CASE Establish
  BY <1>2 DEF Establish
<1>3. CASE Rejected
  BY <1>0, <1>3 DEF Rejected
<1>4. CASE PrepareAudio
  BY <1>0, <1>4 DEF PrepareAudio
<1>5. CASE Publish
  BY <1>5 DEF Publish
<1>6. CASE Unflag
  BY <1>6 DEF Unflag
<1>7. CASE Unlink
  BY <1>7 DEF Unlink
<1>8. CASE Silence
  BY <1>8 DEF Silence
<1>9. CASE Clear
  BY <1>0, <1>9 DEF Clear
<1> QED
  BY <1>1, <1>2, <1>3, <1>4, <1>5, <1>6, <1>7, <1>8, <1>9 DEF DeviceWorks

(* A step of a sender.                                                     *)
LEMMA SendKeeps ==
  ASSUME DeviceInv, Sends \/ SentStep
  PROVE  DeviceInv'
  BY DEF DeviceInv, Published, SendersInv, Sends, SentStep, ControlSends, ControlSent,
         AudioSends, AudioSent, SenderRest, deviceVars

(* Network, Mac and strangers touch nothing of the device's.               *)
LEMMA OthersRest ==
  ASSUME Fails \/ Stranger \/ NetStep \/ MacStep \/ Stop \/ UNCHANGED vars
  PROVE  UNCHANGED <<deviceVars, senderVars>>
<1>1. CASE Fails \/ Stranger \/ NetStep \/ UNCHANGED vars
  BY <1>1 DEF Fails, Stranger, NetStep, HelloArrives, AnswerLeaves, EndArrives, vars
<1>2. CASE MacStep \/ Stop
  BY <1>2 DEF MacStep, Stop, MacRest, Accept, HandlesHello, HandlesSent,
              HandlesAuthenticated, HandlesEnd, HandlesClosed
<1> QED
  BY <1>1, <1>2

(* The invariant.                                                          *)
LEMMA DeviceInvariant == Spec => []DeviceInv
<1>1. DeviceInv /\ [Next]_vars => DeviceInv'
  <2> SUFFICES ASSUME DeviceInv, [Next]_vars PROVE DeviceInv'
    OBVIOUS
  <2>1. CASE DeviceWorks \/ Unflag
    BY <2>1, TaskKeeps
  <2>2. CASE Sends \/ SentStep
    BY <2>2, SendKeeps
  <2>3. CASE Fails \/ Stranger \/ NetStep \/ MacStep \/ Stop \/ UNCHANGED vars
    BY <2>3, OthersRest DEF DeviceInv, Published, SendersInv, deviceVars, senderVars
  <2> QED
    BY <2>1, <2>2, <2>3 DEF Next
<1> QED
  BY <1>1, DeviceInit, PTL DEF Spec

(* A sender uses the keys and the socket of one live session, although no  *)
(* lock protects the keys (wifi_transport.c:72-92, 377-442).               *)
THEOREM SendersAlwaysUseLiveSession == Spec => []SendersUseLiveSession
<1>1. DeviceInv => SendersUseLiveSession
  BY DEF DeviceInv, Published, SendersInv, SendersUseLiveSession
<1> QED
  BY <1>1, DeviceInvariant, PTL

(* The session given to the gateway is the active connection's: whatever   *)
(* replaces one takes the other away (WiFiControlServer.swift:215-282).    *)
THEOREM AnnouncedIsActive == Spec => []SessionIsActive
<1>1. Init => SessionIsActive
  BY DEF Init, SessionIsActive
<1>2. SessionIsActive /\ [Next]_vars => SessionIsActive'
  <2> SUFFICES ASSUME SessionIsActive, [Next]_vars PROVE SessionIsActive'
    OBVIOUS
  <2> USE DEF SessionIsActive, macVars
  <2>1. CASE Fails \/ Stranger \/ NetStep
    BY <2>1 DEF Fails, Stranger, NetStep, HelloArrives, AnswerLeaves, EndArrives
  <2>2. CASE DeviceWorks \/ Unflag
    BY <2>2 DEF DeviceWorks, Unflag, DeviceRest, Probe, Establish, Rejected, PrepareAudio,
                Publish, Unlink, Silence, Clear
  <2>3. CASE Sends \/ SentStep
    BY <2>3 DEF Sends, SentStep, ControlSends, ControlSent, AudioSends, AudioSent, SenderRest
  <2>4. CASE Accept \/ Stop
    BY <2>4 DEF Accept, Stop
  <2>5. CASE HandlesHello \/ HandlesSent \/ HandlesEnd
    BY <2>5 DEF HandlesHello, HandlesSent, HandlesEnd
  <2>6. CASE HandlesAuthenticated \/ HandlesClosed
    BY <2>6 DEF HandlesAuthenticated, HandlesClosed
  <2>7. CASE UNCHANGED vars
    BY <2>7 DEF vars
  <2> QED
    BY <2>1, <2>2, <2>3, <2>4, <2>5, <2>6, <2>7 DEF Next, MacStep
<1> QED
  BY <1>1, <1>2, PTL DEF Spec
-----------------------------------------------------------------------------
(* That a closure of some kind about some connection stands in a queue, at *)
(* some place.                                                             *)
Is(q, i, kind, c) == i \in DOMAIN q /\ q[i] = <<kind, c>>
Answers(q, i, c) == Is(q, i, "Sent", c) \/ Is(q, i, "Authenticated", c)

QueueType ==
  /\ queue \in Seq(Closures \X Conns)
  /\ conn \in [Conns -> {"none", "begun", "keyed", "closed"}]
  /\ made \in Nat
  /\ pending \in Conns \cup {None} /\ active \in Conns \cup {None}

(* A connection is accepted once, and nothing is known of it before.       *)
AcceptedOnce ==
  /\ \A c \in Conns : c > made => conn[c] = "none"
  /\ \A c \in Conns, i \in Nat : Is(queue, i, "Accept", c) =>
       /\ c <= made /\ conn[c] = "none"
       /\ \A j \in Nat : Is(queue, j, "Accept", c) => i = j
  /\ \A c \in Conns : conn[c] = "none" =>
       c \notin reply /\ active # c /\ \A i \in Nat : ~Answers(queue, i, c)

ClosedIsClosed ==
  \A c \in Conns, i \in Nat : Is(queue, i, "Closed", c) => conn[c] = "closed"

(* In a queue, what an older connection still has to say comes before what *)
(* connection d says.                                                      *)
LastInLine(q, d) ==
  \A i, j \in Nat, c \in Conns :
    c # d =>
      /\ Is(q, i, "Authenticated", d) => ~Is(q, j, "Sent", c)
      /\ Is(q, i, "Authenticated", d) /\ Is(q, j, "Authenticated", c) => j < i
      /\ Is(q, i, "Sent", d) /\ Is(q, j, "Sent", c) => j < i

OldAnswersFirst ==
  \A d \in Open :
    /\ LastInLine(queue, d)
    /\ active = d => \A i \in Nat, c \in Conns : c # d => ~Answers(queue, i, c)

OneOpen ==
  /\ Open \subseteq {active, pending}
  /\ \A c, d \in Open : c = d

StreamInv == QueueType /\ AcceptedOnce /\ ClosedIsClosed /\ OldAnswersFirst /\ OneOpen

-----------------------------------------------------------------------------
(* What stands in a queue after a closure was added to its end.            *)
LEMMA Posted ==
  ASSUME queue \in Seq(Closures \X Conns), NEW k \in Closures, NEW b \in Conns, Post(k, b)
  PROVE  /\ queue' \in Seq(Closures \X Conns)
         /\ \A i \in Nat, kind \in Closures, c \in Conns :
              Is(queue', i, kind, c) <=>
                Is(queue, i, kind, c) \/ (i = Len(queue) + 1 /\ kind = k /\ c = b)
         /\ \A i \in Nat, kind \in Closures, c \in Conns : Is(queue, i, kind, c) => i <= Len(queue)
<1>1. <<k, b>> \in Closures \X Conns
  OBVIOUS
<1>2. /\ queue' \in Seq(Closures \X Conns)
      /\ DOMAIN queue' = 1..Len(queue) + 1 /\ DOMAIN queue = 1..Len(queue)
  BY <1>1 DEF Post
<1>3. \A i \in 1..Len(queue) : queue'[i] = queue[i]
  BY <1>1 DEF Post
<1>4. queue'[Len(queue) + 1] = <<k, b>>
  BY <1>1 DEF Post
<1>5. ASSUME NEW i \in Nat, NEW kind \in Closures, NEW c \in Conns
      PROVE  Is(queue', i, kind, c) <=>
               Is(queue, i, kind, c) \/ (i = Len(queue) + 1 /\ kind = k /\ c = b)
  <2>1. CASE i \in 1..Len(queue)
    BY <2>1, <1>2, <1>3 DEF Is
  <2>2. CASE i = Len(queue) + 1
    BY <2>2, <1>2, <1>4 DEF Is
  <2>3. CASE i \notin 1..Len(queue) + 1
    BY <2>3, <1>2 DEF Is
  <2> QED
    BY <2>1, <2>2, <2>3
<1> QED
  BY <1>2, <1>5 DEF Is

(* The rest of a queue after its head.                                     *)
LEMMA TailRest ==
  ASSUME NEW S, NEW q \in Seq(S), q # <<>>
  PROVE  Tail(q) \in Seq(S) /\ Len(Tail(q)) = Len(q) - 1
  OBVIOUS

(* What stands in it after its head was taken, or not, and some closures   *)
(* of closed connections were added.                                       *)
LEMMA Taken ==
  ASSUME queue \in Seq(Closures \X Conns), queue # <<>>,
         NEW D \in SUBSET Conns, NEW t \in Seq({"Closed"} \X D), queue' = Tail(queue) \o t
  PROVE  /\ queue' \in Seq(Closures \X Conns)
         /\ \A i \in Nat, kind \in Closures, c \in Conns :
              Is(queue', i, kind, c) =>
                (i # 0 /\ Is(queue, i + 1, kind, c)) \/ (kind = "Closed" /\ c \in D)
<1>1. Tail(queue) \in Seq(Closures \X Conns) /\ Len(Tail(queue)) = Len(queue) - 1
  BY TailRest
<1>2. t \in Seq(Closures \X Conns)
  BY DEF Closures
<1>3. queue' \in Seq(Closures \X Conns) /\ Len(queue') = Len(queue) - 1 + Len(t)
  BY <1>1, <1>2
<1>4. ASSUME NEW i \in Nat, NEW kind \in Closures, NEW c \in Conns, Is(queue', i, kind, c)
      PROVE  (i # 0 /\ Is(queue, i + 1, kind, c)) \/ (kind = "Closed" /\ c \in D)
  <2>1. i \in 1..Len(queue') /\ queue'[i] = <<kind, c>>
    BY <1>3, <1>4 DEF Is
  <2>2. CASE i <= Len(queue) - 1
    <3>0. i \in 1..Len(Tail(queue)) /\ i + 1 \in 1..Len(queue)
      BY <1>1, <2>1, <2>2, <1>3
    <3>1. queue'[i] = Tail(queue)[i]
      BY <1>1, <1>2, <3>0
    <3>2. Tail(queue)[i] = queue[i + 1]
      BY <3>0
    <3>3. queue[i + 1] = <<kind, c>> /\ i + 1 \in DOMAIN queue /\ i # 0
      BY <2>1, <3>0, <3>1, <3>2
    <3> QED
      BY <3>3 DEF Is
  <2>3. CASE ~(i <= Len(queue) - 1)
    <3>1. i - (Len(queue) - 1) \in 1..Len(t) /\ queue'[i] = t[i - (Len(queue) - 1)]
      BY <1>1, <1>2, <1>3, <2>1, <2>3
    <3>2. t[i - (Len(queue) - 1)] \in {"Closed"} \X D
      BY <3>1
    <3> QED
      BY <2>1, <3>1, <3>2
  <2> QED
    BY <2>2, <2>3
<1> QED
  BY <1>3, <1>4

(* The closures that closing some connections posts.                       *)
LEMMA ClosingTells ==
  ASSUME NEW cs
  PROVE  Closing(cs) \in Seq({"Closed"} \X (cs \cap Open))
<1> DEFINE D == cs \cap Open
           S == {<<"Closed", c>> : c \in D}
           f == [c \in D |-> <<"Closed", c>>]
<1>1. IsFiniteSet(D)
  <2>1. IsFiniteSet(Conns)
    BY FS_Interval, ConnectionsAssumption DEF Conns
  <2> QED
    BY <2>1, FS_Subset DEF Open
<1>2. f \in Surjection(D, S)
  BY DEF Surjection
<1>3. IsFiniteSet(S)
  BY <1>1, <1>2, FS_Surjection
<1>4. Cardinality(S) \in Nat /\ \E g \in [1..Cardinality(S) -> S] : IsInjective(g)
  <2>1. Cardinality(S) \in Nat /\ ExistsBijection(1..Cardinality(S), S)
    BY <1>3, FS_CardinalityType, Zenon
  <2>2. PICK g : g \in Bijection(1..Cardinality(S), S)
    BY <2>1, Zenon DEF ExistsBijection
  <2>3. g \in [1..Cardinality(S) -> S] /\ IsInjective(g)
    BY <2>2, Zenon DEF Bijection, Injection
  <2> QED
    BY <2>1, <2>3, Zenon
<1>5. SetToSeq(S) \in [1..Cardinality(S) -> S]
  BY <1>4 DEF SetToSeq
<1>6. SetToSeq(S) \in Seq(S)
  <2>1. ASSUME NEW T, NEW n \in Nat, NEW g \in [1..n -> T] PROVE g \in Seq(T)
    OBVIOUS
  <2> HIDE DEF S
  <2> QED
    BY <1>4, <1>5, <2>1
<1>7. S \subseteq {"Closed"} \X D
  OBVIOUS
<1>8. SetToSeq(S) \in Seq({"Closed"} \X D)
  BY <1>6, <1>7
<1> QED
  BY <1>8 DEF Closing
(* Closing connections, with their closures at the end of the queue.       *)
LEMMA Added ==
  ASSUME queue \in Seq(Closures \X Conns),
         NEW D \in SUBSET Conns, NEW t \in Seq({"Closed"} \X D), queue' = queue \o t
  PROVE  /\ queue' \in Seq(Closures \X Conns)
         /\ \A i \in Nat, kind \in Closures, c \in Conns :
              Is(queue', i, kind, c) => Is(queue, i, kind, c) \/ (kind = "Closed" /\ c \in D)
<1>1. t \in Seq(Closures \X Conns)
  BY DEF Closures
<1>2. queue' \in Seq(Closures \X Conns) /\ Len(queue') = Len(queue) + Len(t)
  BY <1>1
<1>3. ASSUME NEW i \in Nat, NEW kind \in Closures, NEW c \in Conns, Is(queue', i, kind, c)
      PROVE  Is(queue, i, kind, c) \/ (kind = "Closed" /\ c \in D)
  <2>1. i \in 1..Len(queue') /\ queue'[i] = <<kind, c>>
    BY <1>2, <1>3 DEF Is
  <2>2. CASE i <= Len(queue)
    BY <1>1, <1>2, <2>1, <2>2 DEF Is
  <2>3. CASE ~(i <= Len(queue))
    <3>1. i - Len(queue) \in 1..Len(t) /\ queue'[i] = t[i - Len(queue)]
      BY <1>1, <1>2, <2>1, <2>3
    <3>2. t[i - Len(queue)] \in {"Closed"} \X D
      BY <3>1
    <3> QED
      BY <2>1, <3>1, <3>2
  <2> QED
    BY <2>2, <2>3
<1> QED
  BY <1>2, <1>3

-----------------------------------------------------------------------------
(* Nothing is connected, queued or posted at first.                        *)
LEMMA StreamInit == Init => StreamInv
  BY ConnectionsAssumption
  DEF Init, StreamInv, QueueType, AcceptedOnce, ClosedIsClosed, OldAnswersFirst, OneOpen,
      Open, Is, Answers, None, Conns

(* A step that touches none of it.                                         *)
LEMMA StreamRests ==
  ASSUME StreamInv, UNCHANGED <<queue, conn, made, pending, active, reply>>
  PROVE  StreamInv'
  BY DEF StreamInv, QueueType, AcceptedOnce, ClosedIsClosed, OldAnswersFirst, OneOpen,
         Open, Is, Answers, LastInLine

(* A new connection, of the device or of a stranger.                       *)
LEMMA ConnectsKeeps ==
  ASSUME StreamInv, Connects(made + 1), UNCHANGED <<conn, pending, active, reply>>
  PROVE  StreamInv'
<1> DEFINE b == made + 1
<1>1. /\ queue \in Seq(Closures \X Conns) /\ b \in Conns /\ "Accept" \in Closures
      /\ queue' = Append(queue, <<"Accept", b>>)
  BY DEF StreamInv, QueueType, Connects, Post, Closures
<1>2. /\ queue' \in Seq(Closures \X Conns)
      /\ \A i \in Nat, kind \in Closures, c \in Conns :
           Is(queue', i, kind, c) <=>
             Is(queue, i, kind, c) \/ (i = Len(queue) + 1 /\ kind = "Accept" /\ c = b)
  BY <1>1, Posted DEF Post
<1>3. /\ made \in Nat /\ made' = made + 1 /\ b > made
      /\ Conns \subseteq Nat /\ {"Accept", "Sent", "Authenticated", "Closed"} \subseteq Closures
  BY DEF StreamInv, QueueType, Connects, Conns, Closures
<1>4. QueueType'
  BY <1>2, <1>3 DEF StreamInv, QueueType
<1>5. AcceptedOnce'
  <2>1. \A i \in Nat : ~Is(queue, i, "Accept", b)
    BY <1>1, <1>3 DEF StreamInv, AcceptedOnce
  <2>2. conn[b] = "none"
    BY <1>1, <1>3 DEF StreamInv, AcceptedOnce
  <2>3. \A c \in Conns : c > made' => conn'[c] = "none"
    BY <1>3 DEF StreamInv, AcceptedOnce
  <2>4. ASSUME NEW c \in Conns, NEW i \in Nat, Is(queue', i, "Accept", c)
        PROVE  /\ c <= made' /\ conn'[c] = "none"
               /\ \A j \in Nat : Is(queue', j, "Accept", c) => i = j
    <3>1. CASE c = b
      BY <1>2, <1>3, <2>1, <2>2, <2>4, <3>1
    <3>2. CASE c # b
      BY <1>2, <1>3, <2>4, <3>2 DEF StreamInv, AcceptedOnce
    <3> QED
      BY <3>1, <3>2
  <2>5. \A i \in Nat, c \in Conns : Answers(queue', i, c) <=> Answers(queue, i, c)
    BY <1>2, <1>3 DEF Answers
  <2> QED
    BY <2>3, <2>4, <2>5 DEF StreamInv, AcceptedOnce
<1>6. ClosedIsClosed'
  BY <1>2, <1>3 DEF StreamInv, ClosedIsClosed
<1>7. OldAnswersFirst'
  BY <1>2, <1>3 DEF StreamInv, OldAnswersFirst, LastInLine, Answers, Open
<1> QED
  BY <1>4, <1>5, <1>6, <1>7 DEF StreamInv, OneOpen, Open

(* What arrives at the Mac and is no answer.                               *)
LEMMA ArrivalKeeps ==
  ASSUME StreamInv, NEW k \in {"Hello", "End"}, NEW b \in Conns, Post(k, b),
         UNCHANGED <<conn, made, pending, active, reply>>
  PROVE  StreamInv'
<1>1. /\ queue' \in Seq(Closures \X Conns)
      /\ \A i \in Nat, kind \in Closures, c \in Conns :
           Is(queue', i, kind, c) <=>
             Is(queue, i, kind, c) \/ (i = Len(queue) + 1 /\ kind = k /\ c = b)
  <2>1. k \in Closures /\ queue \in Seq(Closures \X Conns)
    BY DEF Closures, StreamInv, QueueType
  <2> QED
    BY <2>1, Posted
<1>2. \A i \in Nat, c \in Conns, kind \in {"Accept", "Sent", "Authenticated", "Closed"} :
        Is(queue', i, kind, c) <=> Is(queue, i, kind, c)
  BY <1>1 DEF Closures
<1>3. AcceptedOnce' /\ ClosedIsClosed'
  BY <1>2 DEF StreamInv, AcceptedOnce, ClosedIsClosed, Answers
<1>4. OldAnswersFirst'
  BY <1>2 DEF StreamInv, OldAnswersFirst, LastInLine, Answers, Open
<1> QED
  BY <1>1, <1>3, <1>4 DEF StreamInv, QueueType, OneOpen, Open

(* The answer of a connection went out: it is the open one, so whatever an *)
(* older one has to say stands before it.                                  *)
LEMMA AnswerKeeps ==
  ASSUME StreamInv, NEW b \in Conns, conn[b] = "keyed", Post("Sent", b),
         reply' = reply \cup {b}, UNCHANGED <<conn, made, pending, active>>
  PROVE  StreamInv'
<1>1. /\ queue' \in Seq(Closures \X Conns)
      /\ \A i \in Nat, kind \in Closures, c \in Conns :
           Is(queue', i, kind, c) <=>
             Is(queue, i, kind, c) \/ (i = Len(queue) + 1 /\ kind = "Sent" /\ c = b)
      /\ \A i \in Nat, kind \in Closures, c \in Conns : Is(queue, i, kind, c) => i <= Len(queue)
  <2>1. "Sent" \in Closures /\ queue \in Seq(Closures \X Conns)
    BY DEF Closures, StreamInv, QueueType
  <2> QED
    BY <2>1, Posted
<1>2. {"Accept", "Sent", "Authenticated", "Closed"} \subseteq Closures
  BY DEF Closures
<1>3. b \in Open /\ Open' = Open /\ \A d \in Open : d = b
  BY DEF Open, StreamInv, OneOpen
<1>4. AcceptedOnce' /\ ClosedIsClosed'
  BY <1>1, <1>2 DEF StreamInv, AcceptedOnce, ClosedIsClosed, Answers
<1>5. OldAnswersFirst'
  <2>1. Len(queue) \in Nat
    BY DEF StreamInv, QueueType
  <2>2. LastInLine(queue, b)
    BY <1>3 DEF StreamInv, OldAnswersFirst
  <2>3. LastInLine(queue', b)
    <3> SUFFICES ASSUME NEW i \in Nat, NEW j \in Nat, NEW c \in Conns, c # b
                 PROVE  /\ Is(queue', i, "Authenticated", b) => ~Is(queue', j, "Sent", c)
                        /\ Is(queue', i, "Authenticated", b)
                             /\ Is(queue', j, "Authenticated", c) => j < i
                        /\ Is(queue', i, "Sent", b) /\ Is(queue', j, "Sent", c) => j < i
      BY DEF LastInLine
    <3>1. \A kind \in Closures : Is(queue', j, kind, c) <=> Is(queue, j, kind, c)
      BY <1>1
    <3>2. Is(queue', i, "Authenticated", b) <=> Is(queue, i, "Authenticated", b)
      BY <1>1, <1>2
    <3>3. Is(queue', i, "Sent", b) => Is(queue, i, "Sent", b) \/ i = Len(queue) + 1
      BY <1>1, <1>2
    <3> QED
      BY <1>1, <1>2, <2>1, <2>2, <3>1, <3>2, <3>3 DEF LastInLine
  <2> QED
    BY <1>1, <1>2, <1>3, <2>3 DEF StreamInv, OldAnswersFirst, Answers
<1> QED
  BY <1>1, <1>3, <1>4, <1>5 DEF StreamInv, QueueType, OneOpen
(* A connection is accepted: whatever was open is closed, and nothing of   *)
(* the new one is queued yet.                                              *)
LEMMA AcceptKeeps ==
  ASSUME StreamInv, Accept
  PROVE  StreamInv'
<1>1. PICK b \in Conns :
        /\ Takes("Accept", b) /\ pending' = b
        /\ conn' = [CloseAll({active, pending}) EXCEPT ![b] = "begun"]
        /\ queue' = Tail(queue) \o Closing({active, pending})
        /\ UNCHANGED <<active, made, reply>>
  BY DEF Accept, MacRest, netVars
<1> DEFINE D == {active, pending} \cap Open
<1>2. Is(queue, 1, "Accept", b) /\ queue # <<>> /\ queue \in Seq(Closures \X Conns)
  BY <1>1 DEF Is, Takes, StreamInv, QueueType
<1>3. D \in SUBSET Conns /\ Closing({active, pending}) \in Seq({"Closed"} \X D)
  BY ClosingTells DEF Open
<1>4. /\ queue' \in Seq(Closures \X Conns)
      /\ \A i \in Nat, kind \in Closures, c \in Conns :
           Is(queue', i, kind, c) =>
             (i # 0 /\ Is(queue, i + 1, kind, c)) \/ (kind = "Closed" /\ c \in D)
  <2> HIDE DEF D
  <2> QED
    BY <1>1, <1>2, <1>3, Taken
<1>5. {"Accept", "Sent", "Authenticated", "Closed"} \subseteq Closures
  BY DEF Closures
<1>6. conn[b] = "none" /\ b <= made /\ b \notin reply /\ active # b /\ b \notin D
  BY <1>2 DEF StreamInv, AcceptedOnce, Open
<1>7. /\ Open = D
      /\ conn' = [c \in Conns |->
                   IF c = b THEN "begun" ELSE IF c \in D THEN "closed" ELSE conn[c]]
  BY <1>1 DEF StreamInv, OneOpen, CloseAll
<1>8. Open' = {b} /\ \A c \in Conns \ {b} : conn'[c] = "none" <=> conn[c] = "none"
  BY <1>6, <1>7 DEF Open
<1>9. QueueType'
  BY <1>1, <1>4, <1>7 DEF StreamInv, QueueType
<1>10. AcceptedOnce'
  <2>1. ASSUME NEW c \in Conns, NEW i \in Nat, Is(queue', i, "Accept", c)
        PROVE  /\ c # b /\ c <= made' /\ conn'[c] = "none"
               /\ \A j \in Nat : Is(queue', j, "Accept", c) => i = j
    <3>1. i # 0 /\ Is(queue, i + 1, "Accept", c)
      BY <1>4, <1>5, <2>1
    <3>2. /\ c <= made /\ conn[c] = "none"
          /\ \A j \in Nat : Is(queue, j, "Accept", c) => j = i + 1
      BY <3>1 DEF StreamInv, AcceptedOnce
    <3>3. c # b
      BY <1>2, <3>1, <3>2
    <3>4. \A j \in Nat : Is(queue', j, "Accept", c) => i = j
      BY <1>4, <1>5, <3>2
    <3> QED
      BY <1>1, <1>8, <3>2, <3>3, <3>4
  <2>2. \A c \in Conns : c > made' => conn'[c] = "none"
    <3> SUFFICES ASSUME NEW c \in Conns, c > made PROVE c # b /\ conn[c] = "none"
      BY <1>1, <1>8
    <3> QED
      BY <1>6 DEF StreamInv, AcceptedOnce, QueueType, Conns
  <2>3. ASSUME NEW c \in Conns, conn'[c] = "none"
        PROVE  c \notin reply' /\ active' # c /\ \A i \in Nat : ~Answers(queue', i, c)
    <3>1. c # b /\ conn[c] = "none"
      BY <1>7, <1>8, <2>3
    <3>2. \A i \in Nat : Answers(queue', i, c) => Answers(queue, i + 1, c)
      BY <1>4, <1>5 DEF Answers
    <3>3. c \notin reply /\ active # c /\ \A i \in Nat : ~Answers(queue, i, c)
      BY <3>1 DEF StreamInv, AcceptedOnce
    <3>4. ASSUME NEW i \in Nat PROVE ~Answers(queue', i, c)
      <4>1. i + 1 \in Nat
        OBVIOUS
      <4> QED
        BY <3>2, <3>3, <4>1
    <3> QED
      BY <1>1, <3>3, <3>4
  <2> QED
    BY <2>1, <2>2, <2>3 DEF AcceptedOnce
<1>11. ClosedIsClosed'
  <2>1. ASSUME NEW c \in Conns, NEW i \in Nat, Is(queue', i, "Closed", c)
        PROVE  conn'[c] = "closed"
    <3>1. Is(queue, i + 1, "Closed", c) \/ c \in D
      BY <1>4, <1>5, <2>1
    <3> QED
      BY <3>1, <1>6, <1>7 DEF StreamInv, ClosedIsClosed
  <2> QED
    BY <2>1 DEF ClosedIsClosed
<1>12. OldAnswersFirst'
  <2>1. \A i \in Nat : ~Answers(queue', i, b)
    BY <1>4, <1>5, <1>6 DEF StreamInv, AcceptedOnce, Answers
  <2> QED
    BY <1>1, <1>6, <1>8, <2>1 DEF OldAnswersFirst, LastInLine, Answers
<1>13. OneOpen'
  BY <1>1, <1>8 DEF OneOpen
<1> QED
  BY <1>9, <1>10, <1>11, <1>12, <1>13 DEF StreamInv
(* Closing no connection adds nothing to the queue.                        *)
LEMMA NothingClosed ==
  ASSUME NEW q \in Seq(Closures \X Conns), q # <<>>
  PROVE  Tail(q) \o Closing({}) = Tail(q)
<1>1. Closing({}) \in Seq({"Closed"} \X ({} \cap Open))
  BY ClosingTells
<1>2. Closing({}) = <<>>
  BY <1>1
<1> QED
  BY <1>2

(* Who may be active next, given what stands behind the head of the queue. *)
MayBeActive(a) ==
  /\ \A c \in Conns : conn[c] = "none" => a # c
  /\ \A d \in Open : a = d =>
       \A i \in Nat, c \in Conns : i # 0 /\ c # d => ~Answers(queue, i + 1, c)

(* Whoever is already, or nobody.                                          *)
LEMMA ActiveStays ==
  ASSUME StreamInv, NEW a \in {active, None}
  PROVE  MayBeActive(a)
<1>1. None \notin Conns /\ Open \subseteq Conns
  BY DEF None, Conns, Open
<1>2. \A c \in Conns : conn[c] = "none" => a # c
  BY <1>1 DEF StreamInv, AcceptedOnce
<1>3. ASSUME NEW d \in Open, a = d, NEW i \in Nat, NEW c \in Conns, c # d
      PROVE  ~Answers(queue, i + 1, c)
  <2>1. active = d /\ i + 1 \in Nat
    BY <1>1, <1>3
  <2> QED
    BY <1>3, <2>1 DEF StreamInv, OldAnswersFirst
<1> QED
  BY <1>2, <1>3 DEF MayBeActive

(* The head of the queue is taken, and some connections may be closed.     *)
LEMMA TakesKeeps ==
  ASSUME StreamInv, queue # <<>>, NEW cs,
         queue' = Tail(queue) \o Closing(cs), Open' \subseteq Open,
         conn' \in [Conns -> {"none", "begun", "keyed", "closed"}],
         \A c \in Conns : conn'[c] = "none" <=> conn[c] = "none",
         \A c \in Conns : conn[c] = "closed" \/ c \in cs \cap Open => conn'[c] = "closed",
         UNCHANGED <<made, reply>>, MayBeActive(active')
  PROVE  AcceptedOnce' /\ ClosedIsClosed' /\ OldAnswersFirst' /\ queue' \in Seq(Closures \X Conns)
<1> DEFINE D == cs \cap Open
<1>1. D \in SUBSET Conns /\ Closing(cs) \in Seq({"Closed"} \X D)
  BY ClosingTells DEF Open
<1>2. /\ queue' \in Seq(Closures \X Conns)
      /\ \A i \in Nat, kind \in Closures, c \in Conns :
           Is(queue', i, kind, c) =>
             (i # 0 /\ Is(queue, i + 1, kind, c)) \/ (kind = "Closed" /\ c \in D)
  <2> HIDE DEF D
  <2>1. queue \in Seq(Closures \X Conns)
    BY DEF StreamInv, QueueType
  <2> QED
    BY <1>1, <2>1, Taken
<1>3. ASSUME NEW i \in Nat, NEW c \in Conns
      PROVE  /\ i + 1 \in Nat
             /\ \A kind \in {"Accept", "Sent", "Authenticated"} :
                  Is(queue', i, kind, c) => Is(queue, i + 1, kind, c)
             /\ Answers(queue', i, c) => i # 0 /\ Answers(queue, i + 1, c)
             /\ Is(queue', i, "Closed", c) => Is(queue, i + 1, "Closed", c) \/ c \in D
  BY <1>2 DEF Closures, Answers
<1>5. AcceptedOnce'
  <2>1. ASSUME NEW c \in Conns, NEW i \in Nat, Is(queue', i, "Accept", c)
        PROVE  /\ c <= made' /\ conn'[c] = "none"
               /\ \A j \in Nat : Is(queue', j, "Accept", c) => i = j
    <3>1. Is(queue, i + 1, "Accept", c) /\ i + 1 \in Nat
      BY <1>3, <2>1
    <3>2. /\ c <= made /\ conn[c] = "none"
          /\ \A j \in Nat : Is(queue, j, "Accept", c) => j = i + 1
      BY <3>1 DEF StreamInv, AcceptedOnce
    <3>3. ASSUME NEW j \in Nat, Is(queue', j, "Accept", c) PROVE i = j
      <4>1. Is(queue, j + 1, "Accept", c) /\ j + 1 \in Nat
        BY <1>3, <3>3
      <4> QED
        BY <3>2, <4>1
    <3> QED
      BY <3>2, <3>3
  <2>2. ASSUME NEW c \in Conns, conn'[c] = "none"
        PROVE  c \notin reply' /\ active' # c /\ \A i \in Nat : ~Answers(queue', i, c)
    <3>1. c \notin reply /\ active' # c /\ \A i \in Nat : ~Answers(queue, i, c)
      BY <2>2 DEF StreamInv, AcceptedOnce, MayBeActive
    <3>2. ASSUME NEW i \in Nat PROVE ~Answers(queue', i, c)
      BY <1>3, <3>1
    <3> QED
      BY <3>1, <3>2
  <2> QED
    BY <2>1, <2>2 DEF StreamInv, AcceptedOnce
<1>6. ClosedIsClosed'
  BY <1>3 DEF StreamInv, ClosedIsClosed
<1>7. OldAnswersFirst'
  <2> SUFFICES ASSUME NEW d \in Open'
               PROVE  /\ LastInLine(queue', d)
                      /\ active' = d =>
                           \A i \in Nat, c \in Conns : c # d => ~Answers(queue', i, c)
    BY DEF OldAnswersFirst
  <2>1. d \in Open /\ d \in Conns
    BY DEF Open
  <2>2. LastInLine(queue, d)
    BY <2>1 DEF StreamInv, OldAnswersFirst
  <2>3. ASSUME NEW i \in Nat, NEW j \in Nat, NEW c \in Conns, c # d
        PROVE  /\ Is(queue', i, "Authenticated", d) => ~Is(queue', j, "Sent", c)
               /\ Is(queue', i, "Authenticated", d)
                    /\ Is(queue', j, "Authenticated", c) => j < i
               /\ Is(queue', i, "Sent", d) /\ Is(queue', j, "Sent", c) => j < i
    <3>1. /\ Is(queue, i + 1, "Authenticated", d) => ~Is(queue, j + 1, "Sent", c)
          /\ Is(queue, i + 1, "Authenticated", d)
               /\ Is(queue, j + 1, "Authenticated", c) => j + 1 < i + 1
          /\ Is(queue, i + 1, "Sent", d) /\ Is(queue, j + 1, "Sent", c) => j + 1 < i + 1
      BY <2>2, <2>3 DEF LastInLine
    <3> QED
      BY <1>3, <2>1, <3>1
  <2>4. ASSUME active' = d, NEW i \in Nat, NEW c \in Conns, c # d
        PROVE  ~Answers(queue', i, c)
    <3>1. i # 0 => ~Answers(queue, i + 1, c)
      BY <2>1, <2>4 DEF MayBeActive
    <3> QED
      BY <1>3, <3>1
  <2> QED
    BY <2>3, <2>4 DEF LastInLine
<1> QED
  BY <1>2, <1>5, <1>6, <1>7

(* A handshake is handled, or a stream ended: the connection gets its keys *)
(* or is closed.                                                           *)
LEMMA HelloKeeps ==
  ASSUME StreamInv, HandlesHello \/ HandlesEnd
  PROVE  StreamInv'
<1>1. PICK b \in Conns :
        /\ queue # <<>> /\ UNCHANGED <<pending, active, made, reply>>
        /\ \/ /\ conn' = [conn EXCEPT ![b] = IF @ = "begun" THEN "keyed" ELSE @]
              /\ queue' = Tail(queue)
           \/ conn' = CloseAll({b}) /\ queue' = Tail(queue) \o Closing({b})
  BY DEF HandlesHello, HandlesEnd, Takes, MacRest, netVars
<1>2. conn \in [Conns -> {"none", "begun", "keyed", "closed"}]
      /\ queue \in Seq(Closures \X Conns)
  BY DEF StreamInv, QueueType
<1>3. CASE conn' = CloseAll({b}) /\ queue' = Tail(queue) \o Closing({b})
  <2>1. conn' = [c \in Conns |-> IF c \in {b} \cap Open THEN "closed" ELSE conn[c]]
    BY <1>3 DEF CloseAll
  <2>2. /\ conn' \in [Conns -> {"none", "begun", "keyed", "closed"}]
        /\ \A c \in Conns : conn'[c] = "none" <=> conn[c] = "none"
        /\ \A c \in Conns : conn[c] = "closed" \/ c \in {b} \cap Open => conn'[c] = "closed"
        /\ Open' \subseteq Open
    BY <1>2, <2>1 DEF Open
  <2>3. AcceptedOnce' /\ ClosedIsClosed' /\ OldAnswersFirst' /\ queue' \in Seq(Closures \X Conns)
    BY <1>1, <1>3, <2>2, ActiveStays, TakesKeeps
  <2> QED
    BY <1>1, <2>2, <2>3 DEF StreamInv, QueueType, OneOpen
<1>4. CASE /\ conn' = [conn EXCEPT ![b] = IF @ = "begun" THEN "keyed" ELSE @]
           /\ queue' = Tail(queue)
  <2>1. /\ conn' \in [Conns -> {"none", "begun", "keyed", "closed"}]
        /\ \A c \in Conns : conn'[c] = "none" <=> conn[c] = "none"
        /\ \A c \in Conns : conn[c] = "closed" \/ c \in {} \cap Open => conn'[c] = "closed"
        /\ Open' \subseteq Open
    BY <1>2, <1>4 DEF Open
  <2>2. queue' = Tail(queue) \o Closing({})
    BY <1>1, <1>2, <1>4, NothingClosed
  <2>3. AcceptedOnce' /\ ClosedIsClosed' /\ OldAnswersFirst' /\ queue' \in Seq(Closures \X Conns)
    BY <1>1, <2>1, <2>2, ActiveStays, TakesKeeps
  <2> QED
    BY <1>1, <2>1, <2>3 DEF StreamInv, QueueType, OneOpen
<1> QED
  BY <1>1, <1>3, <1>4
(* The session of a connection is the active one, or the connection is     *)
(* refused.                                                                *)
LEMMA AuthenticatedKeeps ==
  ASSUME StreamInv, HandlesAuthenticated
  PROVE  StreamInv'
<1>1. PICK b \in Conns :
        /\ Takes("Authenticated", b)
        /\ pending' = IF pending = b THEN None ELSE pending
        /\ \/ active' = b /\ queue' = Tail(queue) /\ UNCHANGED conn
           \/ /\ conn' = CloseAll({b}) /\ queue' = Tail(queue) \o Closing({b})
              /\ UNCHANGED active
        /\ UNCHANGED <<made, reply>>
  BY DEF HandlesAuthenticated, MacRest, netVars
<1>2. /\ Is(queue, 1, "Authenticated", b) /\ Answers(queue, 1, b)
      /\ queue # <<>> /\ queue \in Seq(Closures \X Conns)
      /\ conn \in [Conns -> {"none", "begun", "keyed", "closed"}]
  BY <1>1 DEF Is, Answers, Takes, StreamInv, QueueType
<1>3. CASE active' = b /\ queue' = Tail(queue) /\ UNCHANGED conn
  <2>1. MayBeActive(b)
    <3>1. \A c \in Conns : conn[c] = "none" => b # c
      BY <1>2 DEF StreamInv, AcceptedOnce
    <3>2. ASSUME b \in Open, NEW i \in Nat, NEW c \in Conns, i # 0, c # b,
                 Answers(queue, i + 1, c)
          PROVE  FALSE
      <4>1. LastInLine(queue, b)
        BY <3>2 DEF StreamInv, OldAnswersFirst
      <4> QED
        BY <1>2, <3>2, <4>1 DEF LastInLine, Answers
    <3> QED
      BY <3>1, <3>2 DEF MayBeActive
  <2>2. queue' = Tail(queue) \o Closing({})
    BY <1>2, <1>3, NothingClosed
  <2>3. /\ Open' = Open
        /\ \A c \in Conns : conn[c] = "closed" \/ c \in {} \cap Open => conn'[c] = "closed"
    BY <1>3 DEF Open
  <2>4. AcceptedOnce' /\ ClosedIsClosed' /\ OldAnswersFirst' /\ queue' \in Seq(Closures \X Conns)
    BY <1>1, <1>2, <1>3, <2>1, <2>2, <2>3, TakesKeeps
  <2>5. OneOpen'
    <3>1. ASSUME NEW d \in Open, d # b PROVE active # d
      BY <1>2, <3>1 DEF StreamInv, OldAnswersFirst
    <3> QED
      BY <1>1, <1>3, <2>3, <3>1 DEF StreamInv, OneOpen
  <2>6. QueueType'
    BY <1>1, <1>3, <2>4 DEF StreamInv, QueueType
  <2> QED
    BY <2>4, <2>5, <2>6 DEF StreamInv
<1>4. CASE /\ conn' = CloseAll({b}) /\ queue' = Tail(queue) \o Closing({b})
           /\ UNCHANGED active
  <2>1. conn' = [c \in Conns |-> IF c \in {b} \cap Open THEN "closed" ELSE conn[c]]
    BY <1>4 DEF CloseAll
  <2>2. /\ conn' \in [Conns -> {"none", "begun", "keyed", "closed"}]
        /\ \A c \in Conns : conn'[c] = "none" <=> conn[c] = "none"
        /\ \A c \in Conns : conn[c] = "closed" \/ c \in {b} \cap Open => conn'[c] = "closed"
        /\ Open' \subseteq Open /\ b \notin Open'
    BY <1>2, <2>1 DEF Open
  <2>3. AcceptedOnce' /\ ClosedIsClosed' /\ OldAnswersFirst' /\ queue' \in Seq(Closures \X Conns)
    BY <1>1, <1>2, <1>4, <2>2, ActiveStays, TakesKeeps
  <2> QED
    BY <1>1, <1>4, <2>2, <2>3 DEF StreamInv, QueueType, OneOpen
<1> QED
  BY <1>1, <1>3, <1>4

(* A closed connection is forgotten.                                       *)
LEMMA ClosedKeeps ==
  ASSUME StreamInv, HandlesClosed
  PROVE  StreamInv'
<1>1. PICK b \in Conns :
        /\ Takes("Closed", b) /\ queue' = Tail(queue)
        /\ pending' = IF pending = b THEN None ELSE pending
        /\ active' = IF active = b THEN None ELSE active
        /\ UNCHANGED <<conn, made, reply>>
  BY DEF HandlesClosed, MacRest, netVars
<1>2. /\ Is(queue, 1, "Closed", b)
      /\ queue # <<>> /\ queue \in Seq(Closures \X Conns)
      /\ conn \in [Conns -> {"none", "begun", "keyed", "closed"}]
  BY <1>1 DEF Is, Takes, StreamInv, QueueType
<1>3. queue' = Tail(queue) \o Closing({}) /\ active' \in {active, None}
  BY <1>1, <1>2, NothingClosed
<1>4. /\ Open' = Open
      /\ \A c \in Conns : conn[c] = "closed" \/ c \in {} \cap Open => conn'[c] = "closed"
  BY <1>1 DEF Open
<1>5. AcceptedOnce' /\ ClosedIsClosed' /\ OldAnswersFirst' /\ queue' \in Seq(Closures \X Conns)
  BY <1>1, <1>2, <1>3, <1>4, ActiveStays, TakesKeeps
<1>6. b \notin Open
  BY <1>2 DEF StreamInv, ClosedIsClosed, Open
<1> QED
  BY <1>1, <1>4, <1>5, <1>6 DEF StreamInv, QueueType, OneOpen

(* The server is stopped.                                                  *)
LEMMA StopKeeps ==
  ASSUME StreamInv, Stop
  PROVE  StreamInv'
<1> DEFINE D == {active, pending} \cap Open
<1>1. /\ conn' = CloseAll({active, pending}) /\ active' = None /\ pending' = None
      /\ queue' = queue \o Closing({active, pending})
      /\ UNCHANGED <<made, reply>>
  BY DEF Stop, MacRest, netVars
<1>2. /\ D \in SUBSET Conns /\ Closing({active, pending}) \in Seq({"Closed"} \X D)
      /\ queue \in Seq(Closures \X Conns) /\ None \notin Conns
  BY ClosingTells DEF Open, StreamInv, QueueType, None, Conns
<1>3. /\ queue' \in Seq(Closures \X Conns)
      /\ \A i \in Nat, kind \in Closures, c \in Conns :
           Is(queue', i, kind, c) => Is(queue, i, kind, c) \/ (kind = "Closed" /\ c \in D)
  <2> HIDE DEF D
  <2> QED
    BY <1>1, <1>2, Added
<1>4. /\ Open = D
      /\ conn' = [c \in Conns |-> IF c \in D THEN "closed" ELSE conn[c]]
  BY <1>1 DEF StreamInv, OneOpen, CloseAll
<1>5. Open' = {} /\ \A c \in Conns : conn'[c] = "none" <=> conn[c] = "none"
  BY <1>4 DEF Open
<1>6. ASSUME NEW i \in Nat, NEW c \in Conns
      PROVE  /\ \A kind \in {"Accept", "Sent", "Authenticated"} :
                  Is(queue', i, kind, c) => Is(queue, i, kind, c)
             /\ Answers(queue', i, c) => Answers(queue, i, c)
             /\ Is(queue', i, "Closed", c) => Is(queue, i, "Closed", c) \/ c \in D
  BY <1>3 DEF Closures, Answers
<1>7. AcceptedOnce'
  <2>1. \A c \in Conns : c > made' => conn'[c] = "none"
    BY <1>1, <1>5 DEF StreamInv, AcceptedOnce
  <2>2. ASSUME NEW c \in Conns, NEW i \in Nat, Is(queue', i, "Accept", c)
        PROVE  /\ c <= made' /\ conn'[c] = "none"
               /\ \A j \in Nat : Is(queue', j, "Accept", c) => i = j
    BY <1>1, <1>5, <1>6, <2>2 DEF StreamInv, AcceptedOnce
  <2>3. ASSUME NEW c \in Conns, conn'[c] = "none"
        PROVE  c \notin reply' /\ active' # c /\ \A i \in Nat : ~Answers(queue', i, c)
    BY <1>1, <1>2, <1>5, <1>6, <2>3 DEF StreamInv, AcceptedOnce
  <2> QED
    BY <2>1, <2>2, <2>3 DEF AcceptedOnce
<1>8. ClosedIsClosed'
  BY <1>4, <1>6 DEF StreamInv, ClosedIsClosed
<1>9. QueueType'
  BY <1>1, <1>3, <1>4 DEF StreamInv, QueueType
<1> QED
  BY <1>5, <1>7, <1>8, <1>9 DEF StreamInv, OldAnswersFirst, OneOpen

(* An answer was sent: its connection is authenticated next, at the end of *)
(* the queue.                                                              *)
LEMMA SentKeeps ==
  ASSUME StreamInv, HandlesSent
  PROVE  StreamInv'
<1>1. PICK b \in Conns :
        /\ Takes("Sent", b) /\ queue' = Append(Tail(queue), <<"Authenticated", b>>)
        /\ UNCHANGED <<conn, made, reply, pending, active>>
  BY DEF HandlesSent, MacRest, netVars, macVars
<1>2. /\ Is(queue, 1, "Sent", b) /\ Answers(queue, 1, b)
      /\ queue # <<>> /\ queue \in Seq(Closures \X Conns) /\ Len(queue) \in Nat \ {0}
  BY <1>1 DEF Is, Answers, Takes, StreamInv, QueueType
<1>3. queue' \in Seq(Closures \X Conns) /\ Len(queue') = Len(queue)
  BY <1>1, <1>2 DEF Closures
<1>4. ASSUME NEW i \in Nat, NEW kind \in Closures, NEW c \in Conns, Is(queue', i, kind, c)
      PROVE  \/ i # 0 /\ Is(queue, i + 1, kind, c)
             \/ i = Len(queue) /\ kind = "Authenticated" /\ c = b
  <2>1. i \in 1..Len(queue) /\ queue'[i] = <<kind, c>>
    BY <1>3, <1>4 DEF Is
  <2>2. Tail(queue) \in Seq(Closures \X Conns) /\ Len(Tail(queue)) = Len(queue) - 1
    BY <1>2, TailRest
  <2>3. CASE i # Len(queue)
    <3>0. i <= Len(queue) - 1 /\ i >= 1 /\ i + 1 \in 1..Len(queue)
      <4>1. Len(queue) \in Nat
        BY <1>2
      <4> QED
        BY <2>1, <2>3, <4>1
    <3>1. i \in 1..Len(Tail(queue)) /\ i + 1 \in 1..Len(queue)
      BY <2>2, <3>0
    <3>2. queue'[i] = Tail(queue)[i]
      BY <1>1, <2>2, <3>1
    <3>3. Tail(queue)[i] = queue[i + 1]
      BY <3>1
    <3>4. Is(queue, i + 1, kind, c)
      BY <1>2, <2>1, <3>1, <3>2, <3>3 DEF Is
    <3> QED
      BY <2>1, <3>4
  <2>4. CASE i = Len(queue)
    BY <1>1, <1>2, <2>1, <2>2, <2>4
  <2> QED
    BY <2>3, <2>4
<1>5. ASSUME NEW i \in Nat, NEW c \in Conns
      PROVE  /\ i + 1 \in Nat
             /\ \A kind \in {"Accept", "Sent", "Closed"} :
                  Is(queue', i, kind, c) => i # 0 /\ Is(queue, i + 1, kind, c)
             /\ Is(queue', i, "Authenticated", c) =>
                  \/ i # 0 /\ Is(queue, i + 1, "Authenticated", c)
                  \/ i = Len(queue) /\ c = b
             /\ Is(queue', i, "Authenticated", c) => i <= Len(queue)
             /\ Answers(queue', i, c) => Answers(queue, i + 1, c) \/ c = b
  <2>1. {"Accept", "Sent", "Closed", "Authenticated"} \subseteq Closures
    BY DEF Closures
  <2>2. Is(queue', i, "Authenticated", c) => i <= Len(queue)
    BY <1>3 DEF Is
  <2> QED
    BY <1>4, <2>1, <2>2 DEF Answers
<1>6. AcceptedOnce'
  <2>1. ASSUME NEW c \in Conns, NEW i \in Nat, Is(queue', i, "Accept", c)
        PROVE  /\ c <= made' /\ conn'[c] = "none"
               /\ \A j \in Nat : Is(queue', j, "Accept", c) => i = j
    <3>1. Is(queue, i + 1, "Accept", c) /\ i + 1 \in Nat
      BY <1>5, <2>1
    <3>2. /\ c <= made /\ conn[c] = "none"
          /\ \A j \in Nat : Is(queue, j, "Accept", c) => j = i + 1
      BY <3>1 DEF StreamInv, AcceptedOnce
    <3>3. ASSUME NEW j \in Nat, Is(queue', j, "Accept", c) PROVE i = j
      <4>1. Is(queue, j + 1, "Accept", c) /\ j + 1 \in Nat
        BY <1>5, <3>3
      <4> QED
        BY <3>2, <4>1
    <3> QED
      BY <1>1, <3>2, <3>3
  <2>2. ASSUME NEW c \in Conns, conn'[c] = "none"
        PROVE  c \notin reply' /\ active' # c /\ \A i \in Nat : ~Answers(queue', i, c)
    <3>1. c \notin reply /\ active # c /\ \A i \in Nat : ~Answers(queue, i, c)
      BY <1>1, <2>2 DEF StreamInv, AcceptedOnce
    <3>2. c # b
      BY <1>2, <3>1
    <3>3. ASSUME NEW i \in Nat PROVE ~Answers(queue', i, c)
      BY <1>5, <3>1, <3>2
    <3> QED
      BY <1>1, <3>1, <3>3
  <2> QED
    BY <1>1, <2>1, <2>2 DEF StreamInv, AcceptedOnce
<1>7. ClosedIsClosed'
  BY <1>1, <1>5 DEF StreamInv, ClosedIsClosed
<1>8. OldAnswersFirst'
  <2> SUFFICES ASSUME NEW d \in Open
               PROVE  /\ LastInLine(queue', d)
                      /\ active = d =>
                           \A i \in Nat, c \in Conns : c # d => ~Answers(queue', i, c)
    BY <1>1 DEF OldAnswersFirst, Open
  <2>1. d \in Conns
    BY DEF Open
  <2>2. LastInLine(queue, d)
    BY DEF StreamInv, OldAnswersFirst
  <2>3. ASSUME NEW i \in Nat, NEW j \in Nat, NEW c \in Conns, c # d
        PROVE  /\ Is(queue', i, "Authenticated", d) => ~Is(queue', j, "Sent", c)
               /\ Is(queue', i, "Authenticated", d)
                    /\ Is(queue', j, "Authenticated", c) => j < i
               /\ Is(queue', i, "Sent", d) /\ Is(queue', j, "Sent", c) => j < i
    <3>1. ASSUME NEW m \in Nat, NEW n \in Nat
          PROVE  /\ Is(queue, m, "Authenticated", d) => ~Is(queue, n, "Sent", c)
                 /\ Is(queue, m, "Authenticated", d)
                      /\ Is(queue, n, "Authenticated", c) => n < m
                 /\ Is(queue, m, "Sent", d) /\ Is(queue, n, "Sent", c) => n < m
      BY <2>2, <2>3 DEF LastInLine
    <3>2. i + 1 \in Nat /\ j + 1 \in Nat /\ 1 \in Nat
      OBVIOUS
    <3>3. ASSUME Is(queue', i, "Authenticated", d), Is(queue', j, "Sent", c) PROVE FALSE
      <4>1. j # 0 /\ Is(queue, j + 1, "Sent", c)
        BY <1>5, <3>3
      <4>2. CASE Is(queue, i + 1, "Authenticated", d)
        <5>1. ~Is(queue, j + 1, "Sent", c)
          BY <3>1, <3>2, <4>2
        <5> QED
          BY <4>1, <5>1
      <4>3. CASE d = b
        <5>1. j + 1 < 1
          BY <1>2, <3>1, <3>2, <4>1, <4>3
        <5> QED
          BY <5>1
      <4> QED
        <5>1. Is(queue, i + 1, "Authenticated", d) \/ d = b
          BY <1>5, <2>1, <3>3
        <5> QED
          BY <4>2, <4>3, <5>1
    <3>4. ASSUME Is(queue', i, "Authenticated", d), Is(queue', j, "Authenticated", c)
          PROVE  j < i
      <4>1. Is(queue, i + 1, "Authenticated", d) \/ (i = Len(queue) /\ d = b)
        BY <1>5, <2>1, <3>4
      <4>2. Is(queue, j + 1, "Authenticated", c) \/ (j = Len(queue) /\ c = b)
        BY <1>5, <3>4
      <4>3. ~(Is(queue, i + 1, "Authenticated", d) /\ c = b)
        BY <1>2, <3>1, <3>2
      <4>4. CASE Is(queue, i + 1, "Authenticated", d) /\ Is(queue, j + 1, "Authenticated", c)
        <5>1. j + 1 < i + 1
          BY <3>1, <3>2, <4>4
        <5> QED
          BY <5>1
      <4>5. CASE i = Len(queue) /\ Is(queue, j + 1, "Authenticated", c)
        <5>1. j + 1 <= Len(queue)
          BY <4>5, <1>2 DEF Is
        <5> QED
          BY <1>2, <4>5, <5>1
      <4> QED
        BY <2>3, <4>1, <4>2, <4>3, <4>4, <4>5
    <3>5. Is(queue', i, "Sent", d) /\ Is(queue', j, "Sent", c) => j < i
      BY <1>5, <2>1, <3>1, <3>2
    <3> QED
      BY <3>3, <3>4, <3>5
  <2>4. ASSUME active = d, NEW i \in Nat, NEW c \in Conns, c # d
        PROVE  ~Answers(queue', i, c)
    <3>1. \A j \in Nat : ~Answers(queue, j, c)
      BY <2>4 DEF StreamInv, OldAnswersFirst
    <3>2. c # b
      BY <1>2, <3>1
    <3> QED
      BY <1>5, <3>1, <3>2
  <2> QED
    BY <2>3, <2>4 DEF LastInLine
<1>9. QueueType' /\ OneOpen'
  BY <1>1, <1>3 DEF StreamInv, QueueType, OneOpen, Open
<1> QED
  BY <1>6, <1>7, <1>8, <1>9 DEF StreamInv
-----------------------------------------------------------------------------
(* The handshakes under way are of connections that were made.             *)
HelloKnown == hello \subseteq Conns

(* No step adds another.                                                   *)
LEMMA HelloInvariant == Spec => []HelloKnown
<1>1. Init => HelloKnown
  BY DEF Init, HelloKnown
<1>2. HelloKnown /\ [Next]_vars => HelloKnown'
  <2> SUFFICES ASSUME HelloKnown, [Next]_vars PROVE HelloKnown'
    OBVIOUS
  <2> USE DEF HelloKnown, netVars
  <2>1. CASE Fails \/ Stranger \/ NetStep
    BY <2>1 DEF Fails, Stranger, Connects, NetStep, HelloArrives, AnswerLeaves, EndArrives
  <2>2. CASE DeviceWorks \/ Unflag
    BY <2>2 DEF DeviceWorks, Unflag, Probe, Connects, Establish, Rejected, PrepareAudio,
                Publish, Unlink, Silence, Clear
  <2>3. CASE Sends \/ SentStep
    BY <2>3 DEF Sends, SentStep, ControlSends, ControlSent, AudioSends, AudioSent, SenderRest
  <2>4. CASE MacStep \/ Stop
    BY <2>4 DEF MacStep, Stop, MacRest, Accept, HandlesHello, HandlesSent,
                HandlesAuthenticated, HandlesEnd, HandlesClosed
  <2>5. CASE UNCHANGED vars
    BY <2>5 DEF vars
  <2> QED
    BY <2>1, <2>2, <2>3, <2>4, <2>5 DEF Next
<1> QED
  BY <1>1, <1>2, PTL DEF Spec

(* The invariant: each step keeps it.                                      *)
LEMMA StreamInvariant == Spec => []StreamInv
<1>1. StreamInv /\ HelloKnown /\ [Next]_vars => StreamInv'
  <2> SUFFICES ASSUME StreamInv, HelloKnown, [Next]_vars PROVE StreamInv'
    OBVIOUS
  <2>1. CASE Fails \/ Unflag \/ Sends \/ SentStep \/ UNCHANGED vars
    <3>1. UNCHANGED <<queue, conn, made, pending, active, reply>>
      BY <2>1 DEF Fails, Unflag, Sends, SentStep, ControlSends, ControlSent, AudioSends,
                  AudioSent, SenderRest, DeviceRest, vars, netVars, macVars
    <3> QED
      BY <3>1, StreamRests
  <2>2. CASE Establish \/ Rejected \/ PrepareAudio \/ Publish \/ Unlink \/ Silence \/ Clear
    <3>1. UNCHANGED <<queue, conn, made, pending, active, reply>>
      BY <2>2 DEF Establish, Rejected, PrepareAudio, Publish, Unlink, Silence, Clear,
                  DeviceRest, netVars, macVars
    <3> QED
      BY <3>1, StreamRests
  <2>3. CASE Probe \/ Stranger
    <3>1. Connects(made + 1) /\ UNCHANGED <<conn, pending, active, reply>>
      BY <2>3 DEF Probe, Stranger, DeviceRest, macVars
    <3> QED
      BY <3>1, ConnectsKeeps
  <2>4. CASE HelloArrives
    <3>1. PICK b \in hello : conn[b] = "begun" /\ Post("Hello", b)
      BY <2>4 DEF HelloArrives, Reports
    <3>2. UNCHANGED <<conn, made, pending, active, reply>>
      BY <2>4 DEF HelloArrives, macVars
    <3>3. b \in Conns
      BY <3>1 DEF HelloKnown
    <3> QED
      BY <3>1, <3>2, <3>3, ArrivalKeeps
  <2>5. CASE EndArrives
    <3>1. PICK b \in Conns : Post("End", b)
      BY <2>5 DEF EndArrives, Reports
    <3>2. UNCHANGED <<conn, made, pending, active, reply>>
      BY <2>5 DEF EndArrives, macVars, netVars
    <3> QED
      BY <3>1, <3>2, ArrivalKeeps
  <2>6. CASE AnswerLeaves
    <3>1. PICK b \in Conns : conn[b] = "keyed" /\ Post("Sent", b) /\ reply' = reply \cup {b}
      BY <2>6 DEF AnswerLeaves
    <3>2. UNCHANGED <<conn, made, pending, active>>
      BY <2>6 DEF AnswerLeaves, macVars
    <3> QED
      BY <3>1, <3>2, AnswerKeeps
  <2>7. CASE MacStep \/ Stop
    BY <2>7, AcceptKeeps, HelloKeeps, SentKeeps, AuthenticatedKeeps, ClosedKeeps, StopKeeps
    DEF MacStep
  <2> QED
    BY <2>1, <2>2, <2>3, <2>4, <2>5, <2>6, <2>7 DEF Next, NetStep, DeviceWorks
<1> QED
  BY <1>1, StreamInit, HelloInvariant, PTL DEF Spec

(* The Mac never has two connections open, and the session it announced is *)
(* that of the active one, whatever order the callbacks of old and new     *)
(* connections come in (WiFiControlServer.swift:215-282).                  *)
THEOREM AlwaysOneSession == Spec => []OneSession
<1>1. StreamInv => OneStream
  <2> SUFFICES ASSUME StreamInv PROVE Cardinality(Open) <= 1
    BY DEF OneStream
  <2>1. CASE Open = {}
    BY <2>1, FS_EmptySet
  <2>2. CASE Open # {}
    <3>1. PICK d : d \in Open
      BY <2>2
    <3>2. Open = {d}
      BY <3>1 DEF StreamInv, OneOpen
    <3> QED
      BY <3>2, FS_Singleton
  <2> QED
    BY <2>1, <2>2
<1> QED
  BY <1>1, StreamInvariant, AnnouncedIsActive, PTL DEF OneSession

-----------------------------------------------------------------------------
(***************************************************************************)
(* The setup (WiFiSetup), for any number of waiting events and of          *)
(* attempts: every variable keeps its type, the flag that awaits a         *)
(* disconnection always has one to come, and no page stays open on a       *)
(* connected device.                                                       *)
(*                                                                         *)
(* The argument for the flag: every step that leaves it set without a form *)
(* in work posts the disconnection at the same time, and only the handler  *)
(* that takes one from the queue could take the awaited one; it clears the *)
(* flag then.  The page: what opens it (setup = "open") declares the       *)
(* device unconnected in its next step, and an address that comes first    *)
(* starts the handler that closes it.                                      *)
(***************************************************************************)

Queued(event) == \E i \in 1..Len(events) : events[i] = event

EventsOK == events \in Seq({"Disconnected", "GotIp"})

FlagInv == reconnect => web = "stored" \/ Queued("Disconnected")

(* Stronger than PortalIsRetired: the page may be open beside a connected  *)
(* station only while one of the two tasks is about to end that.           *)
PortalInv == state = "Connected" /\ handler = "idle" /\ setup # "open" => ~portal

SetupInv == EventsOK /\ FlagInv /\ PortalInv

-----------------------------------------------------------------------------
(* The queue holds an event exactly when it is in its range.               *)
LEMMA QueuedIsInRange == Queued("Disconnected") => "Disconnected" \in Range(events)
  BY DEF Queued, Range

(* Posting an event adds it and keeps the others.                          *)
LEMMA PostAdds ==
  ASSUME EventsOK, NEW event \in {"Disconnected", "GotIp"}, PostEvent(event)
  PROVE  EventsOK' /\ Queued(event)' /\ (Queued("Disconnected") => Queued("Disconnected")')
  BY DEF EventsOK, Queued, PostEvent

(* Taking one that is no disconnection keeps the disconnections.           *)
LEMMA TakeKeeps ==
  ASSUME EventsOK, NEW event, Next1(event)
  PROVE  /\ EventsOK'
         /\ event # "Disconnected" /\ Queued("Disconnected") => Queued("Disconnected")'
<1>1. EventsOK'
  BY DEF EventsOK, Next1
<1>2. ASSUME event # "Disconnected", Queued("Disconnected") PROVE Queued("Disconnected")'
  <2>1. PICK i \in 1..Len(events) : events[i] = "Disconnected"
    BY <1>2 DEF Queued
  <2>2. i # 1
    BY <1>2, <2>1 DEF Next1, EventsOK
  <2>3. i - 1 \in 1..Len(events') /\ events'[i - 1] = events[i]
    BY <2>1, <2>2 DEF Next1, EventsOK
  <2> QED
    BY <2>1, <2>3 DEF Queued
<1> QED
  BY <1>1, <1>2

(* A boot starts without flag, page or events.                             *)
LEMMA SetupStarts == SetupInit => SetupInv
  BY DEF SetupInit, SetupInv, EventsOK, FlagInv, PortalInv

(* Every step keeps the invariant.                                         *)
LEMMA SetupStepKeeps == SetupInv /\ [SetupNext]_setupVars => SetupInv'
<1> SUFFICES ASSUME SetupInv, [SetupNext]_setupVars PROVE SetupInv'
  OBVIOUS
<1> USE DEF SetupInv, FlagInv, PortalInv
<1>1. CASE Associates \/ GetsAddress \/ CannotJoin \/ LosesNetwork
  BY <1>1, PostAdds
  DEF Associates, GetsAddress, CannotJoin, LosesNetwork, DriverRest, EventsOK, Queued
<1>2. CASE OpenSetup \/ SetupStep
  <2>1. UNCHANGED <<events, reconnect, web, handler>>
    BY <1>2 DEF OpenSetup, SetupStep, NoHotspot, OpenHotspot, OpenPortal, ShowSetup, driverVars
  <2>2. EventsOK' /\ FlagInv'
    BY <2>1 DEF EventsOK, Queued
  <2>3. PortalInv'
    BY <1>2 DEF OpenSetup, SetupStep, NoHotspot, OpenHotspot, OpenPortal, ShowSetup, After
  <2> QED
    BY <2>2, <2>3
<1>3. CASE Configure
  BY <1>3 DEF Configure, EventsOK, Queued, After
<1>4. CASE Disconnects
  BY <1>4, PostAdds DEF Disconnects, WebRest
<1>5. CASE ConnectsAtOnce \/ DriverRefuses
  BY <1>5 DEF ConnectsAtOnce, DriverRefuses, WebRest, EventsOK, Queued, ConnectionFails, After
<1>6. CASE LostWhileMoving
  BY <1>6, TakeKeeps DEF LostWhileMoving, HandlerRest, ConnectionFails, After
<1>7. CASE Lost
  BY <1>7, TakeKeeps DEF Lost, HandlerRest, ConnectionFails, After
<1>8. CASE GotIp
  BY <1>8, TakeKeeps DEF GotIp, HandlerRest
<1>9. CASE RetirePortal
  BY <1>9 DEF RetirePortal, HandlerRest, EventsOK, Queued
<1>10. CASE UNCHANGED setupVars
  BY <1>10 DEF setupVars, driverVars, EventsOK, Queued
<1> QED
  BY <1>1, <1>2, <1>3, <1>4, <1>5, <1>6, <1>7, <1>8, <1>9, <1>10 DEF SetupNext, WebStep, HandlerStep

(* The invariant.                                                          *)
LEMMA SetupInvariant == SetupSpec => []SetupInv
  BY SetupStarts, SetupStepKeeps, PTL DEF SetupSpec

(* A flag that waits for the disconnection of a move gets one and never    *)
(* outlives the move (g_reconnect_after_disconnect).                       *)
THEOREM ReconnectAlwaysAwaited == SetupSpec => []ReconnectIsAwaited
<1>1. SetupInv => ReconnectIsAwaited
  BY QueuedIsInRange DEF SetupInv, FlagInv, ReconnectIsAwaited
<1> QED
  BY <1>1, SetupInvariant, PTL

(* No page that takes credentials stays on a connected device (g_portal).  *)
THEOREM PortalAlwaysRetired == SetupSpec => []PortalIsRetired
<1>1. SetupInv => PortalIsRetired
  BY DEF SetupInv, PortalInv, PortalIsRetired
<1> QED
  BY <1>1, SetupInvariant, PTL

(* A sequence within the bound is one of the bounded sequences.            *)
LEMMA WithinBound ==
  ASSUME EventsOK, Len(events) <= MaxEvents
  PROVE  events \in BoundedSeq({"Disconnected", "GotIp"}, MaxEvents)
<1>1. events \in [1..Len(events) -> {"Disconnected", "GotIp"}]
  BY DEF EventsOK
<1>2. Len(events) \in 0..MaxEvents
  BY BoundsAssumption DEF EventsOK
<1> QED
  BY <1>1, <1>2 DEF BoundedSeq, SeqOf

(* A bounded sequence is a sequence within the bound.                      *)
LEMMA BoundedIsWithin ==
  ASSUME events \in BoundedSeq({"Disconnected", "GotIp"}, MaxEvents)
  PROVE  EventsOK /\ Len(events) <= MaxEvents
<1>1. PICK m \in 0..MaxEvents : events \in [1..m -> {"Disconnected", "GotIp"}]
  BY DEF BoundedSeq, SeqOf
<1>2. m \in Nat /\ events \in Seq({"Disconnected", "GotIp"})
  BY <1>1, SeqDef
<1>3. Len(events) = m
  BY <1>1, <1>2, LenProperties
<1> QED
  BY <1>1, <1>2, <1>3, BoundsAssumption DEF EventsOK

(* Every step keeps the length of the queue within its bound.              *)
LEMMA QueueStep ==
  ASSUME EventsOK, Len(events) <= MaxEvents, [SetupNext]_setupVars
  PROVE  EventsOK' /\ Len(events)' <= MaxEvents
<1>1. CASE \E event \in {"Disconnected", "GotIp"} : PostEvent(event)
  BY <1>1, BoundsAssumption DEF PostEvent, EventsOK
<1>2. CASE \E event : Next1(event)
  BY <1>2, BoundsAssumption DEF Next1, EventsOK
<1>3. CASE UNCHANGED events
  BY <1>3 DEF EventsOK
<1>4. (\E event \in {"Disconnected", "GotIp"} : PostEvent(event)) \/ (\E event : Next1(event))
      \/ UNCHANGED events
  BY DEF SetupNext, Associates, GetsAddress, CannotJoin, LosesNetwork, OpenSetup, SetupStep,
         NoHotspot, OpenHotspot, OpenPortal, ShowSetup, Configure, WebStep, Disconnects,
         ConnectsAtOnce, DriverRefuses, HandlerStep, LostWhileMoving, Lost, GotIp, RetirePortal,
         setupVars
<1> QED
  BY <1>1, <1>2, <1>3, <1>4

(* Every variable keeps its type, the queue its bound.                     *)
THEOREM SetupTypeCorrect == SetupSpec => []SetupTypeOK
<1>1. SetupInit => SetupTypeOK
  <2> SUFFICES ASSUME SetupInit PROVE SetupTypeOK
    OBVIOUS
  <2>1. EventsOK /\ Len(events) <= MaxEvents
    BY BoundsAssumption DEF SetupInit, EventsOK
  <2>2. events \in BoundedSeq({"Disconnected", "GotIp"}, MaxEvents)
    BY <2>1, WithinBound
  <2>3. tries \in 0..MaxTries
    BY BoundsAssumption DEF SetupInit
  <2> QED
    BY <2>2, <2>3, Zenon DEF SetupInit, SetupTypeOK, States
<1>2. SetupTypeOK /\ [SetupNext]_setupVars => SetupTypeOK'
  <2> SUFFICES ASSUME SetupTypeOK, [SetupNext]_setupVars PROVE SetupTypeOK'
    OBVIOUS
  <2>1. events' \in BoundedSeq({"Disconnected", "GotIp"}, MaxEvents)
    <3>1. EventsOK' /\ Len(events)' <= MaxEvents
      BY BoundedIsWithin, QueueStep DEF SetupTypeOK
    <3>2. events' \in [1..Len(events') -> {"Disconnected", "GotIp"}]
      BY <3>1 DEF EventsOK
    <3>3. Len(events') \in 0..MaxEvents
      BY <3>1, BoundsAssumption DEF EventsOK
    <3> QED
      BY <3>2, <3>3 DEF BoundedSeq, SeqOf
  <2>2. tries' \in 0..MaxTries
    BY BoundsAssumption DEF SetupTypeOK, SetupNext, Associates, GetsAddress, CannotJoin,
         LosesNetwork, DriverRest, OpenSetup, SetupStep, NoHotspot, OpenHotspot, OpenPortal,
         ShowSetup, Configure, WebStep, Disconnects, WebRest,
         ConnectsAtOnce, DriverRefuses, HandlerStep, LostWhileMoving, Lost, GotIp,
         RetirePortal, HandlerRest, setupVars
  <2>3. /\ state' \in States /\ station' \in {"Idle", "Joining", "Associated", "Joined"}
        /\ hint' \in {"None", "Setup", "NoSetup", "Connecting", "Connected", "Failed"}
        /\ saved' \in BOOLEAN /\ ap' \in BOOLEAN /\ portal' \in BOOLEAN /\ reconnect' \in BOOLEAN
        /\ setup' \in {"idle", "begin", "hotspot", "open"} /\ web' \in {"idle", "stored", "refused"}
        /\ handler' \in {"idle", "retire"}
    <3> USE DEF SetupTypeOK, States, After, ConnectionFails
    <3>1. CASE Associates \/ GetsAddress \/ CannotJoin \/ LosesNetwork
      BY <3>1 DEF Associates, GetsAddress, CannotJoin, LosesNetwork, DriverRest
    <3>2. CASE OpenSetup \/ SetupStep
      BY <3>2 DEF OpenSetup, SetupStep, NoHotspot, OpenHotspot, OpenPortal, ShowSetup, driverVars
    <3>3. CASE Configure
      BY <3>3 DEF Configure
    <3>4. CASE WebStep
      BY <3>4 DEF WebStep, Disconnects, ConnectsAtOnce, DriverRefuses, WebRest
    <3>5. CASE HandlerStep
      BY <3>5 DEF HandlerStep, LostWhileMoving, Lost, GotIp, RetirePortal, HandlerRest
    <3>6. CASE UNCHANGED setupVars
      BY <3>6 DEF setupVars, driverVars
    <3> QED
      BY <3>1, <3>2, <3>3, <3>4, <3>5, <3>6 DEF SetupNext
  <2> QED
    BY <2>1, <2>2, <2>3 DEF SetupTypeOK
<1> QED
  BY <1>1, <1>2, PTL DEF SetupSpec
=============================================================================
