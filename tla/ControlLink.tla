---------------------------- MODULE ControlLink ----------------------------
(***************************************************************************)
(* Control messages from the Mac to the device.  The Mac numbers them and    *)
(* sends every one on both links; on the device the BLE host task and the    *)
(* Wi-Fi task each put what they receive through one sequence guard, which   *)
(* no lock protects, and into one queue, and the main loop resets the guard  *)
(* when it sees the link come or go.  The USB line counts as a link, but     *)
(* does not use the guard.  The Mac's process may end and start over with    *)
(* its numbers.                                                              *)
(***************************************************************************)
EXTENDS Integers, Sequences

CONSTANTS
  Links,       \* the transports: BLE and Wi-Fi
  QueueSize,   \* entries of control_queue
  LastNumber,  \* bound: the last number the process of an epoch sends
  MaxConnects  \* bound: connections made

ASSUME ControlAssumption ==
  /\ {QueueSize, MaxConnects} \subseteq Nat \ {0}
  /\ LastNumber \in [{1, 2} -> Nat \ {0}]

VARIABLES
  mac,       \* the running process and its outboundSequence
  macUp,     \* the links the Mac has
  chan,      \* what is under way on a link
  devUp,     \* the links the device has
  usb,       \* g_host_seen of a device in USB mode
  sampled,   \* previous_link_connected, and where the loop is
  guard,     \* inbound_sequences: initialized, last_accepted; resets counted
  task,      \* the receiving task of a link in handle_control
  queue,     \* control_queue
  heard,     \* the number handled last, and the epochs heard so far
  raced,     \* the guard changed between a task's check and its send
  dropped,   \* the epochs of messages that found the queue full
  gone,      \* history: the loop has seen the old process's links down
  connects   \* what is left of MaxConnects

macVars == <<mac, macUp, connects>>
loopVars == <<sampled, queue, heard>>
vars == <<macVars, chan, devUp, usb, loopVars, guard, task, raced, dropped, gone>>

Idle == [step |-> "idle"]
Nothing == [number |-> 0, resets |-> 0, epochs |-> {}]

Init ==
  /\ mac = [epoch |-> 1, number |-> 0] /\ macUp = {} /\ connects = MaxConnects
  /\ chan = [l \in Links |-> <<>>] /\ devUp = {} /\ usb = FALSE
  /\ sampled = [link |-> FALSE, at |-> "sample"]
  /\ guard = [initialized |-> FALSE, last |-> 0, resets |-> 0]
  /\ task = [l \in Links |-> Idle] /\ queue = <<>> /\ heard = Nothing
  /\ raced = FALSE /\ dropped = {} /\ gone = FALSE

----------------------------------------------------------------------------
(* The Mac.                                                                 *)
Connects(l) ==
  /\ l \notin macUp \cup devUp /\ connects > 0 /\ task[l] = Idle
  /\ macUp' = macUp \cup {l} /\ devUp' = devUp \cup {l} /\ connects' = connects - 1
  /\ UNCHANGED <<mac, chan, usb, loopVars, guard, task, raced, dropped, gone>>

\* one number, the same bytes on every link
Numbered == mac.number + 1

\* bound: the last number of the second process stands for its heartbeats to
\* come, every two seconds, so the loop has looked at the link before it
MaySend ==
  /\ macUp # {} /\ mac.number < LastNumber[mac.epoch]
  /\ mac.epoch = 2 /\ Numbered = LastNumber[2] => sampled.link
Sends ==
  /\ MaySend
  /\ mac' = [mac EXCEPT !.number = Numbered]
  /\ chan' = [l \in Links |-> IF l \in macUp
                              THEN Append(chan[l], [epoch |-> mac.epoch, number |-> Numbered])
                              ELSE chan[l]]
  /\ UNCHANGED <<macUp, connects, devUp, usb, loopVars, guard, task, raced, dropped, gone>>

\* the process ends, its connections with it, and starts over
Restarts ==
  /\ mac.epoch = 1 /\ mac' = [epoch |-> 2, number |-> 0] /\ macUp' = {}
  /\ UNCHANGED <<connects, chan, devUp, usb, loopVars, guard, task, raced, dropped, gone>>

\* bound: the links of the second process stay
Drops(l) ==
  /\ l \in macUp /\ mac.epoch = 1 /\ macUp' = macUp \ {l}
  /\ UNCHANGED <<mac, connects, chan, devUp, usb, loopVars, guard, task, raced, dropped, gone>>

----------------------------------------------------------------------------
(* The device.                                                              *)

\* it learns later, and of each link by itself, that the Mac has gone
Notices(l) ==
  /\ l \in devUp \ macUp /\ task[l] = Idle
  /\ devUp' = devUp \ {l} /\ chan' = [chan EXCEPT ![l] = <<>>]
  /\ UNCHANGED <<macVars, usb, loopVars, guard, task, raced, dropped, gone>>

\* cc_sequence_guard_accept reads the guard, then writes it
PassesEqual(m) == ~guard.initialized \/ m.number >= guard.last
Passes(m) == ~guard.initialized \/ m.number > guard.last
Checks(l) ==
  /\ l \in devUp /\ task[l] = Idle /\ chan[l] # <<>>
  /\ chan' = [chan EXCEPT ![l] = Tail(@)]
  /\ task' = [task EXCEPT ![l] = IF Passes(Head(chan[l]))
                                 THEN [step |-> "store", message |-> Head(chan[l]), saw |-> guard]
                                 ELSE Idle]
  /\ UNCHANGED <<macVars, devUp, usb, loopVars, guard, raced, dropped, gone>>

Stored(m) == [guard EXCEPT !.initialized = TRUE, !.last = m.number]
Stores(l) ==
  /\ task[l].step = "store"
  /\ guard' = Stored(task[l].message)
  /\ task' = [task EXCEPT ![l].step = "send", ![l].saw = guard']
  /\ raced' = (raced \/ guard # task[l].saw)
  /\ UNCHANGED <<macVars, chan, devUp, usb, loopVars, dropped, gone>>

\* xQueueSend without waiting
Queues(l) ==
  /\ task[l].step = "send" /\ task' = [task EXCEPT ![l] = Idle]
  /\ LET m == task[l].message
         item == [epoch |-> m.epoch, number |-> m.number, resets |-> task[l].saw.resets]
     IN IF Len(queue) < QueueSize
        THEN queue' = Append(queue, item) /\ UNCHANGED dropped
        ELSE dropped' = dropped \cup {m.epoch} /\ UNCHANGED queue
  /\ raced' = (raced \/ guard # task[l].saw)
  /\ UNCHANGED <<macVars, chan, devUp, usb, sampled, heard, guard, gone>>

\* a pass of the main loop: the USB line, the links, then the queue
HearsUsb ==
  /\ sampled.at = "sample" /\ ~usb /\ usb' = TRUE
  /\ UNCHANGED <<macVars, chan, devUp, loopVars, guard, task, raced, dropped, gone>>

Linked == usb \/ devUp # {}
ResetKeepsNumber == [guard EXCEPT !.resets = @ + 1]
Reset == [initialized |-> FALSE, last |-> 0, resets |-> guard.resets + 1]
Samples ==
  /\ sampled.at = "sample" /\ sampled' = [link |-> Linked, at |-> "drain"]
  /\ guard' = IF Linked # sampled.link THEN Reset ELSE guard
  /\ gone' = (gone \/ (mac.epoch = 2 /\ ~Linked))
  /\ UNCHANGED <<macVars, chan, devUp, usb, queue, heard, task, raced, dropped>>

Drains ==
  /\ sampled.at = "drain" /\ queue # <<>>
  /\ queue' = Tail(queue)
  /\ heard' = [number |-> Head(queue).number, resets |-> Head(queue).resets,
               epochs |-> heard.epochs \cup {Head(queue).epoch}]
  /\ UNCHANGED <<macVars, chan, devUp, usb, sampled, guard, task, raced, dropped, gone>>

PassEnds ==
  /\ sampled.at = "drain" /\ queue = <<>> /\ sampled' = [sampled EXCEPT !.at = "sample"]
  /\ UNCHANGED <<macVars, chan, devUp, usb, guard, queue, heard, task, raced, dropped, gone>>

TaskStep(l) == Checks(l) \/ Stores(l) \/ Queues(l)
Loop == Samples \/ Drains \/ PassEnds

Next ==
  \/ \E l \in Links : Connects(l) \/ Drops(l) \/ Notices(l) \/ TaskStep(l)
  \/ Sends \/ Restarts \/ HearsUsb \/ Loop

\* the loop and the tasks run, and the Mac sends a heartbeat every two seconds
Fairness ==
  /\ WF_vars(Loop) /\ WF_vars(Sends)
  /\ \A l \in Links : WF_vars(TaskStep(l)) /\ WF_vars(Notices(l))

Spec == Init /\ [][Next]_vars /\ Fairness

----------------------------------------------------------------------------
ControlTypeOK ==
  /\ mac \in [epoch : {1, 2}, number : Nat] /\ mac.number <= LastNumber[mac.epoch]
  /\ {macUp, devUp} \subseteq SUBSET Links /\ macUp \subseteq devUp
  /\ Len(queue) <= QueueSize /\ raced \in BOOLEAN /\ dropped \subseteq {1, 2}
  /\ sampled \in [link : BOOLEAN, at : {"sample", "drain"}]
  /\ usb \in BOOLEAN /\ gone \in BOOLEAN

\* Mirrored copies and old messages are not handled: between two resets of the
\* guard the numbers handled go up.  It takes the two tasks in the guard at
\* once to break this.
Handles == Len(queue') < Len(queue) /\ Head(queue).resets = heard.resets
HandledForward == [][Handles /\ ~raced => Head(queue).number > heard.number]_vars

\* A process that starts over with its numbers is heard, however far the old one
\* had got, on the links it keeps once the loop has seen those of the old one
\* down, unless the queue was full.  While the USB line or a link of the old one
\* lasts, the guard stays and refuses it until its numbers overtake
\* (app_main.c:601-611).
RestartIsHeard ==
  \A l \in Links : (gone /\ l \in macUp) ~> (2 \in heard.epochs \/ 2 \in dropped)

\* protocol/specification.md:64 "Sequences that repeat or move backwards are
\* rejected."
NumbersNeverRepeat == [][Handles => Head(queue).number > heard.number]_vars
=============================================================================
