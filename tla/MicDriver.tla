----------------------------- MODULE MicDriver -----------------------------
(***************************************************************************)
(* The virtual microphone: the socket client of the service, the server     *)
(* thread of the audio driver, the ring buffer between that thread and the  *)
(* I/O thread of CoreAudio, and the processes on both sides, which end and  *)
(* start again.  A step of the two driver threads ends at one of their      *)
(* atomic loads and stores, which is where they see each other.            *)
(*                                                                         *)
(* Samples are numbered as the service writes them; numbers stand for what *)
(* was said, and 0 for the silence a fresh ring holds.                      *)
(***************************************************************************)
EXTENDS Integers, Sequences

CONSTANTS
  Capacity,    \* samples of the ring
  ReadSize,    \* samples of an I/O cycle
  Word,        \* the indices wrap here: 2^64
  MaxSamples,  \* bound: samples written
  MaxBatch,    \* bound: samples of a message
  MaxStream,   \* bound: messages in the socket
  MaxRestarts  \* bound: ends of a process

ASSUME MicAssumption ==
  /\ {Capacity, ReadSize, MaxBatch, MaxStream} \subseteq Nat \ {0}
  /\ {MaxSamples, MaxRestarts, Word} \subseteq Nat /\ Word > MaxSamples + Capacity

VARIABLES
  agent,    \* CodexMicSocketClient: descriptor, clearPending, endpointDeadline
  talking,  \* a session sends its frames to the sink
  next,     \* the number of the last sample written
  stream,   \* messages in the socket, and the ends of connections
  server,   \* UnixAudioServer: not there, in accept, with a client, in write
  batch,    \* the message in write and what of it will be accepted
  ring,     \* storage_, writeIndex_ and readIndex_
  reader,   \* AudioRingBuffer.read under way: its step, read and copied
  clients,  \* gRunningClients > 0
  since,    \* the last sample written before the session began
  floor,    \* and before the session the ring was last used for
  given,    \* the samples CoreAudio was given last
  raced,    \* a clear fell into a read
  restarts  \* what is left of MaxRestarts

agentVars == <<agent, talking, next, since>>
ringVars == <<ring, reader, given, raced>>
micVars == <<agentVars, stream, server, batch, ringVars, clients, floor, restarts>>

FreshAgent == [descriptor |-> "closed", pending |-> FALSE, wait |-> "none"]
FreshRing == [slots |-> [i \in 0..Capacity - 1 |-> 0], w |-> 0, r |-> 0]
NoBatch == [first |-> 1, accepted |-> 0, since |-> 0]
Silence == [from |-> 0, to |-> 0]
NotReading == [step |-> "idle", read |-> 0, copied |-> 0]

MicTypeOK ==
  /\ agent \in [descriptor : {"closed", "open", "broken"}, pending : BOOLEAN,
                wait : {"none", "waiting", "late"}]
  /\ talking \in BOOLEAN /\ {next, since} \subseteq 0..MaxSamples
  /\ given \in [from : 0..MaxSamples, to : 0..MaxSamples]
  /\ server \in {"none", "accept", "client", "write"}
  /\ ring \in [slots : [0..Capacity - 1 -> 0..MaxSamples], w : 0..MaxSamples, r : 0..MaxSamples]
  /\ ring.r <= ring.w
  /\ reader \in [step : {"idle", "loaded", "copied"}, read : 0..MaxSamples, copied : 0..ReadSize]
  /\ clients \in BOOLEAN /\ raced \in BOOLEAN
  /\ floor \in 0..MaxSamples /\ restarts \in 0..MaxRestarts
  /\ Len(stream) <= MaxStream

MicInit ==
  /\ agent = FreshAgent /\ talking = FALSE /\ next = 0 /\ since = 0
  /\ stream = <<>> /\ server = "none" /\ batch = NoBatch
  /\ ring = FreshRing /\ reader = NotReading /\ clients = FALSE
  /\ floor = 0 /\ given = Silence /\ raced = FALSE /\ restarts = MaxRestarts

-----------------------------------------------------------------------------
(* The service: CodexMicSocketClient, under its lock.                      *)
Reachable == \/ agent.descriptor = "open"
             \/ agent.descriptor = "closed" /\ server # "none"

(* connectSessionIfNeededLocked: the CLER goes first.                      *)
Message(kind, n) == [kind |-> kind, first |-> next + 1, count |-> n, since |-> since']
Clear(a) == IF a.pending THEN <<Message("CLER", 0)>> ELSE <<>>
Connected(a) == [descriptor |-> "open", pending |-> FALSE, wait |-> "none"]
Sends(a, messages) ==
  /\ Len(stream \o Clear(a) \o messages) <= MaxStream
  /\ stream' = stream \o Clear(a) \o messages
  /\ agent' = Connected(a)

(* beginSession.                                                           *)
BegunUncleared(a) == [a EXCEPT !.wait = "waiting"]
Begun(a) == [a EXCEPT !.pending = TRUE, !.wait = "waiting"]

AgentRest == UNCHANGED <<server, batch, ringVars, clients, floor, restarts>>

Begin ==
  /\ ~talking /\ talking' = TRUE /\ since' = next
  /\ agent.descriptor # "broken"
  /\ IF Reachable THEN Sends(Begun(agent), <<>>)
                  ELSE agent' = Begun(agent) /\ UNCHANGED stream
  /\ UNCHANGED next /\ AgentRest

(* write: frames of a session, and over BLE the late ones after it.        *)
Write ==
  /\ Reachable
  /\ UNCHANGED since
  /\ \E n \in 1..MaxBatch :
       /\ next + n <= MaxSamples /\ next' = next + n
       /\ Sends(agent, <<Message("CMIC", n)>>)
  /\ UNCHANGED talking /\ AgentRest

(* A write without an endpoint: it waits for the driver in the first        *)
(* second, later it throws and the session fails.                          *)
WaitsForever == agent.wait # "none"
WaitsForEndpoint == agent.wait = "waiting"
WriteThrows ==
  /\ talking /\ agent.descriptor = "closed" /\ server = "none" /\ ~WaitsForEndpoint
  /\ talking' = FALSE
  /\ UNCHANGED <<agent, next, since, stream>> /\ AgentRest

(* endpointDeadline passes.                                                *)
DeadlinePasses ==
  /\ agent.wait = "waiting" /\ agent' = [agent EXCEPT !.wait = "late"]
  /\ UNCHANGED <<talking, next, since, stream>> /\ AgentRest

EndSession ==
  /\ talking /\ talking' = FALSE
  /\ UNCHANGED <<agent, next, since, stream>> /\ AgentRest

(* The process ends, launched again it starts afresh: at any time, and by   *)
(* the SIGPIPE of a write to a connection that broke, which nothing blocks. *)
HangUp == IF agent.descriptor = "open"
          THEN Append(stream, Message("EOF", 0)) ELSE stream
AgentGone ==
  /\ UNCHANGED since /\ Len(HangUp) <= MaxStream /\ stream' = HangUp
  /\ agent' = FreshAgent /\ talking' = FALSE
  /\ UNCHANGED <<next, server, batch, ringVars, clients, floor>>

AgentEnds == restarts > 0 /\ restarts' = restarts - 1 /\ AgentGone

BrokenPipe == agent.descriptor = "broken" /\ AgentGone /\ UNCHANGED restarts

-----------------------------------------------------------------------------
(* The server thread: run and handleClient.                                *)
Accept ==
  /\ server = "accept" /\ (agent.descriptor = "open" \/ stream # <<>>)
  /\ server' = "client"
  /\ UNCHANGED <<agentVars, stream, batch, ringVars, clients, floor, restarts>>

Handles(kind) == server = "client" /\ stream # <<>> /\ Head(stream).kind = kind /\ stream' = Tail(stream)

HangsUp ==
  /\ Handles("EOF") /\ server' = "accept"
  /\ UNCHANGED <<agentVars, batch, ringVars, clients, floor, restarts>>

(* AudioRingBuffer.clear: one load of the thread's own index, one store.   *)
ClearRing ==
  /\ Handles("CLER")
  /\ ring' = [ring EXCEPT !.r = ring.w]
  /\ floor' = Head(stream).since
  /\ raced' = (raced \/ reader.step # "idle")
  /\ UNCHANGED <<agentVars, server, batch, reader, given, clients, restarts>>

(* AudioRingBuffer.write, up to the load of readIndex_: size_t arithmetic. *)
Free == (Capacity - (ring.w - ring.r)) % Word
Lesser(a, b) == IF a < b THEN a ELSE b

WriteLoads ==
  /\ Handles("CMIC") /\ server' = "write"
  /\ batch' = [first |-> Head(stream).first, since |-> Head(stream).since,
               accepted |-> Lesser(Head(stream).count, Free)]
  /\ UNCHANGED <<agentVars, ringVars, clients, floor, restarts>>

(* The samples are stored and then published with writeIndex_.             *)
Stored(i) ==
  LET new == {k \in 0..batch.accepted - 1 : (ring.w + k) % Capacity = i}
  IN IF new = {} THEN ring.slots[i] ELSE batch.first + CHOOSE k \in new : \A l \in new : l <= k

WritePublishes ==
  /\ server = "write" /\ server' = "client" /\ batch' = NoBatch
  /\ ring' = [ring EXCEPT !.slots = [i \in 0..Capacity - 1 |-> Stored(i)],
                          !.w = @ + batch.accepted]
  /\ floor' = batch.since
  /\ UNCHANGED <<agentVars, stream, reader, given, raced, clients, restarts>>

Server == Accept \/ HangsUp \/ ClearRing \/ WriteLoads \/ WritePublishes

-----------------------------------------------------------------------------
(* CoreAudio: StartIO of the first client and StopIO of the last, the I/O   *)
(* cycles between them, and the end of the process that hosts the driver.   *)
StartIO ==
  /\ server # "none" /\ ~clients /\ clients' = TRUE
  /\ UNCHANGED <<agentVars, stream, server, batch, ringVars, floor, restarts>>

StopIO ==
  /\ clients /\ reader.step = "idle" /\ clients' = FALSE
  /\ UNCHANGED <<agentVars, stream, server, batch, ringVars, floor, restarts>>

ReadRest == UNCHANGED <<agentVars, stream, server, batch, raced, clients, floor, restarts>>

(* AudioRingBuffer.read: its own index first.                              *)
ReadLoads ==
  /\ clients /\ reader.step = "idle"
  /\ reader' = [step |-> "loaded", read |-> ring.r, copied |-> 0]
  /\ UNCHANGED <<ring, given>> /\ ReadRest

(* writeIndex_ and the copy; what a copy gets that a clear has overtaken    *)
(* and writes overlap does not matter to the properties.                   *)
ReadCopies ==
  /\ reader.step = "loaded"
  /\ LET n == Lesser(ReadSize, ring.w - reader.read)
     IN /\ reader' = [reader EXCEPT !.step = "copied", !.copied = n]
        /\ given' = IF n = 0 THEN given
                    ELSE [from |-> ring.slots[reader.read % Capacity],
                          to |-> ring.slots[(reader.read + n - 1) % Capacity]]
  /\ UNCHANGED ring /\ ReadRest

ReadForgets ==
  /\ reader.step = "copied" /\ reader' = NotReading
  /\ UNCHANGED <<ring, given>> /\ ReadRest
ReadPublishes ==
  /\ reader.step = "copied" /\ reader' = NotReading
  /\ ring' = [ring EXCEPT !.r = reader.read + reader.copied]
  /\ UNCHANGED given /\ ReadRest

(* Initialize, which starts the server.                                    *)
Initialize ==
  /\ server = "none" /\ server' = "accept"
  /\ UNCHANGED <<agentVars, stream, batch, ringVars, clients, floor, restarts>>

DriverEnds ==
  /\ server # "none" /\ server' = "none"
  /\ restarts > 0 /\ restarts' = restarts - 1
  /\ stream' = <<>> /\ batch' = NoBatch /\ ring' = FreshRing /\ reader' = NotReading
  /\ clients' = FALSE /\ raced' = FALSE
  /\ agent' = [agent EXCEPT !.descriptor = IF @ = "open" THEN "broken" ELSE @]
  /\ UNCHANGED <<talking, next, since, floor, given>>

-----------------------------------------------------------------------------
MicNext ==
  \/ Begin \/ Write \/ WriteThrows \/ DeadlinePasses \/ EndSession \/ AgentEnds \/ BrokenPipe
  \/ Server \/ StartIO \/ StopIO \/ ReadLoads \/ ReadCopies \/ ReadPublishes
  \/ Initialize \/ DriverEnds

(* The clock goes on, frames keep coming during a session, the server      *)
(* thread runs, and CoreAudio cycles while it has a client.                *)
MicFairness ==
  /\ WF_micVars(DeadlinePasses) /\ WF_micVars(WriteThrows) /\ WF_micVars(talking /\ BrokenPipe)
  /\ WF_micVars(Server)
  /\ WF_micVars(ReadLoads) /\ WF_micVars(ReadCopies) /\ WF_micVars(ReadPublishes)

MicSpec == MicInit /\ [][MicNext]_micVars /\ MicFairness

-----------------------------------------------------------------------------
(* As long as no clear falls into a read, the ring holds nothing from      *)
(* before the session that was cleared for, in the order it was said, and   *)
(* never more than fits: an older sample would be heard in the new dictation *)
(* (AudioRingBuffer.hpp:13-55, CodexMicSocketClient.swift:66-87;           *)
(* Tests/test_unix_audio_server.cpp:24-50).                                *)
RingHoldsSession ==
  raced \/
  /\ ring.w - ring.r <= Capacity
  /\ \A i \in ring.r..ring.w - 1 :
       /\ ring.slots[i % Capacity] > floor
       /\ i > ring.r => ring.slots[i % Capacity] > ring.slots[(i - 1) % Capacity]

(* CoreAudio gets no sample twice and none after a later one, over         *)
(* restarts of either side (AudioRingBuffer.hpp:26-38).                    *)
HeardOnce == [][given' # given => raced \/ given'.from > given.to]_micVars

(* A session that finds no driver is not left to record nothing: when the   *)
(* second it may wait is over it fails, or a driver has come               *)
(* (CodexMicSocketClient.swift:44-58, 89-95).                              *)
MissingDriverIsReported == talking /\ server = "none" ~> ~talking \/ server # "none"

(* While somebody records, what is in the ring is heard or cleared: no      *)
(* reader or writer waits for the other (AudioRingBuffer.hpp:26-38).       *)
RingDrains == ring.w > ring.r /\ clients ~> ring.w = ring.r \/ ~clients

(* After a clear nothing of what was there is left, as the tests assert     *)
(* (Tests/test_ring_buffer.cpp:24-25).                                     *)
ClearForgets == \A i \in ring.r..ring.w - 1 : ring.slots[i % Capacity] > floor
=============================================================================
