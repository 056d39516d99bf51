---------------------------- MODULE WiFiSession ----------------------------
(***************************************************************************)
(* One Wi-Fi session, as its two ends see it: the transport task of the    *)
(* device, the two tasks of it that send, and the control server of the    *)
(* Mac.                                                                    *)
(*                                                                         *)
(* The device shares its keys, session and sockets between three tasks;    *)
(* a sender holds the mutex of its socket, but the keys have none, so the  *)
(* teardown is split at every store.  The Mac runs everything on one       *)
(* serial queue, but its callbacks post their work to the end of it: the   *)
(* queue is a sequence of closures and of what the network reports.        *)
(*                                                                         *)
(* A connection stands for its session too: both ends draw fresh nonces    *)
(* for each.  A stranger is any other peer that connects to the server.    *)
(***************************************************************************)
EXTENDS Naturals, Sequences, SequencesExt, FiniteSets

CONSTANTS
  MaxConnections,  \* bound: TCP connections made
  MaxStrangers     \* bound: those of them that a stranger makes

ASSUME ConnectionsAssumption == MaxConnections \in Nat \ {0} /\ MaxStrangers \in Nat

Conns == 1..MaxConnections
None == 0

VARIABLES
  dev,       \* the step of wifi_transport_task
  fd,        \* the connection it works on
  sock,      \* g_socket
  udp,       \* g_audio_socket, by the connection it was made for
  up,        \* g_connected
  keys,      \* g_keys and g_session_id
  ctl,       \* the control sender: idle, or holding the socket it read
  aud,       \* the audio sender, likewise
  tcp,       \* what became of each connection
  hello,     \* connections whose handshake the device (or a stranger) sent
  reply,     \* connections whose handshake the Mac answered
  made,      \* connections made so far
  strange,   \* how many of them strangers made
  queue,     \* the queue of the server
  conn,      \* the Connection objects of the Mac, by their step
  pending,   \* pendingConnection
  active,    \* activeConnection
  announced, \* the session last given to onAuthenticatedSessionChange
  listening  \* the listener is there

deviceVars == <<dev, fd, sock, udp, up, keys>>
senderVars == <<ctl, aud>>
netVars == <<tcp, hello, reply, made, strange>>
macVars == <<conn, pending, active, announced, listening>>
vars == <<deviceVars, senderVars, netVars, queue, macVars>>

Steps == {"probe", "wait", "audio", "publish", "receive",
          "unflagged", "unlinked", "silent"}
Closures == {"Accept", "Hello", "Sent", "Authenticated", "End", "Closed"}

SessionTypeOK ==
  /\ dev \in Steps
  /\ {fd, sock, udp, keys, ctl, aud, pending, active, announced, made}
       \subseteq Conns \cup {None}
  /\ up \in BOOLEAN /\ listening \in BOOLEAN
  /\ tcp \in [Conns -> {"none", "open", "ended", "dead"}]
  /\ hello \subseteq Conns /\ reply \subseteq Conns
  /\ strange \in 0..MaxStrangers
  /\ conn \in [Conns -> {"none", "begun", "keyed", "closed"}]
  /\ Range(queue) \subseteq Closures \X Conns

Init ==
  /\ dev = "probe" /\ fd = None /\ sock = None /\ udp = None
  /\ up = FALSE /\ keys = None /\ ctl = None /\ aud = None
  /\ tcp = [c \in Conns |-> "none"] /\ hello = {} /\ reply = {} /\ made = 0 /\ strange = 0
  /\ queue = <<>> /\ conn = [c \in Conns |-> "none"]
  /\ pending = None /\ active = None /\ announced = None /\ listening = TRUE

-----------------------------------------------------------------------------
(* The network.  A connection ends for both, or dies without a word to the *)
(* Mac, which sends nothing of its own that would notice.                  *)
Post(kind, c) == queue' = Append(queue, <<kind, c>>)

Fails ==
  /\ \E c \in Conns, how \in {"ended", "dead"} :
       tcp[c] = "open" /\ tcp' = [tcp EXCEPT ![c] = how]
  /\ UNCHANGED <<deviceVars, senderVars, hello, reply, made, strange, queue, macVars>>

Connects(c) ==
  /\ listening /\ c \in Conns
  /\ tcp' = [tcp EXCEPT ![c] = "open"] /\ made' = c
  /\ Post("Accept", c)

Stranger ==
  /\ strange < MaxStrangers /\ strange' = strange + 1
  /\ Connects(made + 1)
  /\ hello' \in {hello, hello \cup {made + 1}}
  /\ UNCHANGED <<deviceVars, senderVars, reply, macVars>>

Reports(kind, c) ==
  <<kind, c>> \notin Range(queue) /\ Post(kind, c)

(* What the network reports to the queue of the Mac: the handshake, that   *)
(* the answer went out, the end of the stream.                             *)
HelloArrives ==
  /\ \E c \in hello :
       conn[c] = "begun" /\ tcp[c] # "dead" /\ Reports("Hello", c)
       /\ hello' = hello \ {c}
  /\ UNCHANGED <<deviceVars, senderVars, tcp, reply, made, strange, macVars>>

AnswerLeaves ==
  /\ \E c \in Conns :
       conn[c] = "keyed" /\ c \notin reply /\ tcp[c] # "dead"
       /\ Post("Sent", c) /\ reply' = reply \cup {c}
  /\ UNCHANGED <<deviceVars, senderVars, tcp, hello, made, strange, macVars>>

EndArrives ==
  /\ \E c \in Conns : tcp[c] = "ended" /\ conn[c] \in {"begun", "keyed"} /\ Reports("End", c)
  /\ UNCHANGED <<deviceVars, senderVars, netVars, macVars>>

NetStep == HelloArrives \/ AnswerLeaves \/ EndArrives

-----------------------------------------------------------------------------
(* wifi_transport_task: a candidate is connected to, authenticated, and    *)
(* given an audio socket before its control socket is published.           *)
DeviceRest == UNCHANGED <<senderVars, reply, macVars>>
Hangs == tcp' = [tcp EXCEPT ![fd] = IF @ = "open" THEN "ended" ELSE @]

Probe ==
  /\ dev = "probe" /\ Connects(made + 1)
  /\ dev' = "wait" /\ fd' = made + 1 /\ hello' = hello \cup {made + 1}
  /\ UNCHANGED <<sock, udp, up, keys, strange>> /\ DeviceRest

Establish ==
  /\ dev = "wait" /\ fd \in reply /\ tcp[fd] = "open"
  /\ dev' = "audio" /\ keys' = fd
  /\ UNCHANGED <<fd, sock, udp, up, netVars, queue>> /\ DeviceRest

(* No answer within the timeout, or one of another host.                   *)
Rejected ==
  /\ dev = "wait"
  /\ dev' = "probe" /\ fd' = None
  /\ Hangs
  /\ UNCHANGED <<sock, udp, up, keys, hello, made, strange, queue>> /\ DeviceRest

PrepareAudio ==
  /\ dev = "audio" /\ aud = None
  /\ \/ dev' = "publish" /\ udp' = fd /\ UNCHANGED <<fd, keys, tcp>>
     \/ /\ dev' = "probe" /\ keys' = None /\ fd' = None /\ UNCHANGED udp
        /\ Hangs
  /\ UNCHANGED <<sock, up, hello, made, strange, queue>> /\ DeviceRest

Publish ==
  /\ dev = "publish" /\ ctl = None
  /\ dev' = "receive" /\ sock' = fd /\ up' = TRUE
  /\ UNCHANGED <<fd, udp, keys, netVars, queue>> /\ DeviceRest

(* receive_control_loop ends when the connection does, after 3 s without a *)
(* message, or at a frame it rejects; mark_disconnected then takes the     *)
(* session apart.                                                          *)
UnflagClears ==
  /\ dev = "receive"
  /\ dev' = "unflagged" /\ up' = FALSE /\ keys' = None
  /\ Hangs
  /\ UNCHANGED <<fd, sock, udp, hello, made, strange, queue>> /\ DeviceRest
Unflag ==
  /\ dev = "receive"
  /\ dev' = "unflagged" /\ up' = FALSE
  /\ Hangs
  /\ UNCHANGED <<fd, sock, udp, keys, hello, made, strange, queue>> /\ DeviceRest

Unlink ==
  /\ dev = "unflagged" /\ ctl = None
  /\ dev' = "unlinked" /\ sock' = None
  /\ UNCHANGED <<fd, udp, up, keys, netVars, queue>> /\ DeviceRest

Silence ==
  /\ dev = "unlinked" /\ aud = None
  /\ dev' = "silent" /\ udp' = None
  /\ UNCHANGED <<fd, sock, up, keys, netVars, queue>> /\ DeviceRest

Clear ==
  /\ dev = "silent"
  /\ dev' = "probe" /\ keys' = None /\ fd' = None
  /\ UNCHANGED <<sock, udp, up, netVars, queue>> /\ DeviceRest

DeviceWorks ==
  Probe \/ Establish \/ Rejected \/ PrepareAudio \/ Publish \/ Unlink \/ Silence \/ Clear

(* The senders, between the check of the flags under their mutex and the   *)
(* end of the send.  A control send may block until it times out.          *)
SenderRest == UNCHANGED <<deviceVars, netVars, queue, macVars>>

ControlSends ==
  /\ ctl = None /\ up /\ sock # None /\ ctl' = sock
  /\ UNCHANGED aud /\ SenderRest
ControlSent == ctl # None /\ ctl' = None /\ UNCHANGED aud /\ SenderRest
AudioSends ==
  /\ aud = None /\ up /\ udp # None /\ aud' = udp
  /\ UNCHANGED ctl /\ SenderRest
AudioSent == aud # None /\ aud' = None /\ UNCHANGED ctl /\ SenderRest

Sends == ControlSends \/ AudioSends
SentStep == ControlSent \/ AudioSent

-----------------------------------------------------------------------------
(* The server.  Closing a connection posts its onClosed, once.             *)
Open == {c \in Conns : conn[c] \in {"begun", "keyed"}}
Takes(kind, c) == queue # <<>> /\ Head(queue) = <<kind, c>>
Closing(cs) == SetToSeq({<<"Closed", c>> : c \in cs \cap Open})
CloseAll(cs) == [c \in Conns |-> IF c \in cs \cap Open THEN "closed" ELSE conn[c]]
MacRest == UNCHANGED <<deviceVars, senderVars, netVars>>

(* accept.                                                                 *)
AcceptKeepsPending ==
  \E c \in Conns :
    /\ Takes("Accept", c)
    /\ announced' = None
    /\ conn' = [CloseAll({active}) EXCEPT ![c] = "begun"]
    /\ queue' = Tail(queue) \o Closing({active})
    /\ pending' = c
    /\ UNCHANGED <<active, listening>> /\ MacRest
Accept ==
  \E c \in Conns :
    /\ Takes("Accept", c)
    /\ announced' = None
    /\ conn' = [CloseAll({active, pending}) EXCEPT ![c] = "begun"]
    /\ queue' = Tail(queue) \o Closing({active, pending})
    /\ pending' = c
    /\ UNCHANGED <<active, listening>> /\ MacRest

(* begin: a handshake that does not verify closes the connection; nothing  *)
(* looks whether it was closed meanwhile, but then no answer leaves.       *)
HandlesHello ==
  \E c \in Conns :
    /\ Takes("Hello", c)
    /\ \/ /\ conn' = [conn EXCEPT ![c] = IF @ = "begun" THEN "keyed" ELSE @]
          /\ queue' = Tail(queue)
       \/ conn' = CloseAll({c}) /\ queue' = Tail(queue) \o Closing({c})
    /\ UNCHANGED <<pending, active, announced, listening>> /\ MacRest

HandlesSent ==
  \E c \in Conns :
    /\ Takes("Sent", c)
    /\ queue' = Append(Tail(queue), <<"Authenticated", c>>)
    /\ UNCHANGED macVars /\ MacRest

AuthenticatedUnannounced ==
  \E c \in Conns :
    /\ Takes("Authenticated", c)
    /\ pending' = IF pending = c THEN None ELSE pending
    /\ active' = c
    /\ queue' = Tail(queue)
    /\ UNCHANGED <<conn, announced, listening>> /\ MacRest
(* A session needs a peer with an IPv4 address.                            *)
HandlesAuthenticated ==
  \E c \in Conns :
    /\ Takes("Authenticated", c)
    /\ pending' = IF pending = c THEN None ELSE pending
    /\ \/ active' = c /\ announced' = c /\ queue' = Tail(queue) /\ UNCHANGED conn
       \/ /\ conn' = CloseAll({c}) /\ queue' = Tail(queue) \o Closing({c})
          /\ UNCHANGED <<active, announced>>
    /\ UNCHANGED listening /\ MacRest

HandlesEnd ==
  \E c \in Conns :
    /\ Takes("End", c)
    /\ conn' = CloseAll({c}) /\ queue' = Tail(queue) \o Closing({c})
    /\ UNCHANGED <<pending, active, announced, listening>> /\ MacRest

HandlesClosed ==
  \E c \in Conns :
    /\ Takes("Closed", c)
    /\ pending' = IF pending = c THEN None ELSE pending
    /\ IF active = c THEN active' = None /\ announced' = None
       ELSE UNCHANGED <<active, announced>>
    /\ queue' = Tail(queue)
    /\ UNCHANGED <<conn, listening>> /\ MacRest

(* stopOnQueue.                                                            *)
Stop ==
  /\ listening /\ listening' = FALSE
  /\ announced' = None /\ active' = None /\ pending' = None
  /\ conn' = CloseAll({active, pending})
  /\ queue' = queue \o Closing({active, pending})
  /\ MacRest

MacStep ==
  Accept \/ HandlesHello \/ HandlesSent \/ HandlesAuthenticated \/ HandlesEnd \/ HandlesClosed

-----------------------------------------------------------------------------
Next == Fails \/ Stranger \/ NetStep \/ DeviceWorks \/ Unflag \/ Sends \/ SentStep \/ MacStep \/ Stop

(* The tasks, the queue and the network make progress; a send ends, by its *)
(* timeout at the latest.  A session may last for ever.                    *)
Fairness ==
  /\ WF_vars(DeviceWorks) /\ WF_vars(MacStep) /\ WF_vars(NetStep)
  /\ WF_vars(ControlSent) /\ WF_vars(AudioSent)

Spec == Init /\ [][Next]_vars /\ Fairness

-----------------------------------------------------------------------------
(* A frame is encrypted and sent with the keys and the session of the      *)
(* socket it goes out on: the teardown never takes them from a sender that *)
(* passed its check, although they are cleared under no lock               *)
(* (wifi_transport.c:72-92, 154-214, 377-442).                             *)
SendersUseLiveSession ==
  /\ ctl # None => keys = ctl /\ sock = ctl
  /\ aud # None => keys = aud /\ udp = aud

(* The Mac never listens to two connections at once, however the callbacks *)
(* of an old one trail behind (WiFiControlServer.swift:248-252).           *)
OneStream == Cardinality(Open) <= 1

(* The gateway is configured for the session of the active connection, or  *)
(* for none (WiFiControlServer.swift:215-229, 250, 266-282).               *)
SessionIsActive == announced # None => announced = active

(* There is one session at most, whatever order the callbacks come in.     *)
OneSession == OneStream /\ SessionIsActive

(* A device that is connected is announced to the rest of the Mac, unless  *)
(* the connection goes meanwhile (WiFiControlServer.swift:256-270).        *)
ConnectedIsAnnounced == up ~> ~up \/ announced = sock \/ conn[sock] = "closed"
=============================================================================
