---------------------------- MODULE ControlProofs ----------------------------
(***************************************************************************)
(* The control messages between the Mac and the device, for every choice   *)
(* of the constants.  The first part is about ControlLink, which carries   *)
(* them; the second is about DevicePrompt, whose prompts and selections    *)
(* they are.  The two specifications share nothing but this file.          *)
(*                                                                         *)
(* ControlLink: for any set of links, queue, numbering and number of       *)
(* connections, unless two tasks met in the guard, what the loop handles   *)
(* between two resets goes up.  The argument: a message's place is the     *)
(* number of resets before it and its own number.  Without a race the      *)
(* guard only moves forward in that order, so the places in the queue go   *)
(* up (Ordered), none of them is ahead of the guard (Behind), and a task   *)
(* that has stored its number and not yet sent it holds a place that       *)
(* nobody else has (TasksInv).                                             *)
(*                                                                         *)
(* DevicePrompt: for any set of links, and any number of dialogs, states,  *)
(* selections under way and links lost, the button that is pressed is the  *)
(* one the finger was put on, unless the prompt was replaced under it.  The *)
(* argument: a prompt gets a number that was never used (IdsIssued), so two *)
(* prompts of one number are the same prompt, wherever they are            *)
(* (PromptsAgree); a finger, or a selection, that carries the number of the *)
(* prompt the service has open therefore saw its buttons (FingerSees,      *)
(* SelectionsSeen); and a press closes the prompt, so the next number is   *)
(* higher than every number answered (AnswersGoUp).                        *)
(***************************************************************************)
EXTENDS ControlLink, DevicePrompt, WellFoundedInduction, NaturalsInduction, TLAPS

Message == [epoch : {1, 2}, number : Nat \ {0}]
Item == [epoch : {1, 2}, number : Nat \ {0}, resets : Nat]
Guards == [initialized : BOOLEAN, last : Nat, resets : Nat]
Tasks == {Idle} \cup [step : {"store", "send"}, message : Message, saw : Guards]

LinkTypes ==
  /\ mac \in [epoch : {1, 2}, number : Nat]
  /\ chan \in [Links -> Seq(Message)]
  /\ guard \in Guards
  /\ task \in [Links -> Tasks]
  /\ queue \in Seq(Item)
  /\ heard \in [number : Nat, resets : Nat, epochs : SUBSET {1, 2}]
  /\ raced \in BOOLEAN

(* Places, and their order; a guard that was just reset is at no number.   *)
Before(a, b) == a.resets < b.resets \/ (a.resets = b.resets /\ a.number < b.number)
Reached(a, g) ==
  a.resets < g.resets \/ (a.resets = g.resets /\ g.initialized /\ a.number <= g.last)
Place(t) == [number |-> t.message.number, resets |-> t.saw.resets]

Queued == 1..Len(queue)

Ordered ==
  /\ \A i, j \in Queued : i < j => Before(queue[i], queue[j])
  /\ heard.number # 0 => \A i \in Queued : Before(heard, queue[i])

Behind ==
  /\ \A i \in Queued : Reached(queue[i], guard)
  /\ heard.number # 0 => Reached(heard, guard)

(* A task that is about to send has a place that the guard has reached; if *)
(* the guard is still as it left it, nothing is in or past that place.     *)
SendInv(l) ==
  /\ task[l].saw.initialized /\ task[l].saw.last = task[l].message.number
  /\ Reached(Place(task[l]), guard)
  /\ task[l].saw = guard =>
       /\ \A i \in Queued : Before(queue[i], Place(task[l]))
       /\ heard.number # 0 => Before(heard, Place(task[l]))

TasksInv ==
  /\ \A l \in Links : task[l].step = "store" =>
       ~task[l].saw.initialized \/ task[l].message.number > task[l].saw.last
  /\ \A l \in Links : task[l].step = "send" => SendInv(l)
  /\ \A k, l \in Links : k # l /\ task[k].step = "send" /\ task[l].step = "send"
       => task[k].saw # task[l].saw

LinkInv == LinkTypes /\ (~raced => Ordered /\ Behind /\ TasksInv)

-----------------------------------------------------------------------------
(* Nothing is under way at first.                                          *)
LEMMA LinkInit == Init => LinkInv
<1> SUFFICES ASSUME Init PROVE LinkInv
  OBVIOUS
<1>1. LinkTypes
  <2>1. chan \in [Links -> Seq(Message)] /\ queue \in Seq(Item)
    BY DEF Init
  <2>2. task \in [Links -> Tasks]
    BY DEF Init, Tasks
  <2>3. /\ mac \in [epoch : {1, 2}, number : Nat] /\ guard \in Guards /\ raced \in BOOLEAN
        /\ heard \in [number : Nat, resets : Nat, epochs : SUBSET {1, 2}]
    BY DEF Init, Guards, Nothing
  <2> QED
    BY <2>1, <2>2, <2>3 DEF LinkTypes
<1>2. Ordered /\ Behind
  BY DEF Init, Ordered, Behind, Queued, Nothing
<1>3. \A l \in Links : task[l].step = "idle"
  BY DEF Init, Idle
<1>4. TasksInv
  BY <1>3 DEF TasksInv
<1> QED
  BY <1>1, <1>2, <1>4 DEF LinkInv

(* The types.                                                              *)
LEMMA TypesKept == LinkTypes /\ [Next]_vars => LinkTypes'
<1> SUFFICES ASSUME LinkTypes, [Next]_vars PROVE LinkTypes'
  OBVIOUS
<1> USE DEF LinkTypes, macVars, loopVars
<1>1. ASSUME NEW l \in Links, Connects(l) \/ Drops(l) \/ Notices(l) PROVE LinkTypes'
  <2>1. chan' \in [Links -> Seq(Message)]
    <3>1. <<>> \in Seq(Message)
      OBVIOUS
    <3> QED
      BY <1>1, <3>1 DEF Connects, Drops, Notices
  <2>2. UNCHANGED <<mac, guard, task, queue, heard, raced>>
    BY <1>1 DEF Connects, Drops, Notices
  <2> QED
    BY <2>1, <2>2
<1>2. ASSUME NEW l \in Links, Checks(l) PROVE LinkTypes'
  <2>1. Head(chan[l]) \in Message /\ Tail(chan[l]) \in Seq(Message)
    BY <1>2 DEF Checks
  <2> QED
    BY <1>2, <2>1 DEF Checks, Tasks
<1>3. ASSUME NEW l \in Links, Stores(l) PROVE LinkTypes'
  <2>0. task[l] \in [step : {"store", "send"}, message : Message, saw : Guards]
    BY <1>3 DEF Stores, Tasks, Idle
  <2>1. task[l].message \in Message /\ task[l].saw \in Guards
    BY <2>0
  <2>2. guard' \in Guards
    BY <1>3, <2>1 DEF Stores, Stored, Guards, Message
  <2>3. [task[l] EXCEPT !.step = "send", !.saw = guard'] \in Tasks
    BY <2>0, <2>2 DEF Tasks
  <2>4. task' = [task EXCEPT ![l] = [task[l] EXCEPT !.step = "send", !.saw = guard']]
    BY <1>3 DEF Stores
  <2>5. task' \in [Links -> Tasks] /\ raced' \in BOOLEAN
    <3> HIDE DEF Tasks
    <3> QED
      BY <1>3, <2>3, <2>4 DEF Stores
  <2> QED
    BY <1>3, <2>2, <2>5 DEF Stores
<1>4. ASSUME NEW l \in Links, Queues(l) PROVE LinkTypes'
  <2>1. task[l].message \in Message /\ task[l].saw \in Guards
    BY <1>4 DEF Queues, Tasks, Idle
  <2>2. [epoch |-> task[l].message.epoch, number |-> task[l].message.number,
         resets |-> task[l].saw.resets] \in Item
    BY <2>1 DEF Message, Guards, Item
  <2>3. task' \in [Links -> Tasks]
    BY <1>4 DEF Queues, Tasks
  <2>4. queue' \in Seq(Item)
    <3> DEFINE item == [epoch |-> task[l].message.epoch, number |-> task[l].message.number,
                        resets |-> task[l].saw.resets]
    <3>1. Append(queue, item) \in Seq(Item)
      BY <2>2
    <3>2. queue' = queue \/ queue' = Append(queue, item)
      BY <1>4 DEF Queues
    <3> QED
      BY <3>1, <3>2
  <2>5. raced' \in BOOLEAN /\ UNCHANGED <<mac, chan, guard, heard>>
    BY <1>4 DEF Queues
  <2> QED
    BY <2>3, <2>4, <2>5
<1>5. CASE Sends
  <2>1. /\ [epoch |-> mac.epoch, number |-> Numbered] \in Message
        /\ mac' \in [epoch : {1, 2}, number : Nat]
    <3>1. mac.epoch \in {1, 2} /\ Numbered \in Nat \ {0}
      BY DEF Numbered
    <3>2. [epoch |-> mac.epoch, number |-> Numbered] \in Message
      BY <3>1 DEF Message
    <3>3. mac' = [epoch |-> mac.epoch, number |-> Numbered]
      BY <1>5 DEF Sends
    <3> QED BY <3>1, <3>2, <3>3
  <2>2. chan' \in [Links -> Seq(Message)]
    BY <1>5, <2>1 DEF Sends
  <2>3. UNCHANGED <<guard, task, queue, heard, raced>>
    BY <1>5 DEF Sends
  <2> QED
    BY <2>1, <2>2, <2>3
<1>6. CASE Restarts \/ HearsUsb
  BY <1>6 DEF Restarts, HearsUsb
<1>7. CASE Samples \/ PassEnds
  <2>1. Reset \in Guards
    BY DEF Reset, Guards
  <2>2. guard' \in Guards
    BY <1>7, <2>1 DEF Samples, PassEnds
  <2>3. UNCHANGED <<mac, chan, task, queue, heard, raced>>
    BY <1>7 DEF Samples, PassEnds
  <2> QED
    BY <2>2, <2>3
<1>8. CASE Drains
  <2>1. Head(queue) \in Item /\ Tail(queue) \in Seq(Item)
    BY <1>8 DEF Drains
  <2> QED
    BY <1>8, <2>1 DEF Drains, Item
<1>9. CASE UNCHANGED vars
  BY <1>9 DEF vars
<1> QED
  BY <1>1, <1>2, <1>3, <1>4, <1>5, <1>6, <1>7, <1>8, <1>9 DEF Next, TaskStep, Loop

(* What a queued message is made of.                                       *)
LEMMA QueuedItems ==
  ASSUME queue \in Seq(Item)
  PROVE  \A i \in Queued : queue[i].resets \in Nat /\ queue[i].number \in Nat
<1>1. \A i \in Queued : queue[i] \in Item
  BY DEF Queued
<1> QED
  BY <1>1 DEF Item

(* Steps that touch neither guard, tasks nor messages handed on.           *)
LEMMA OthersKeep ==
  ASSUME Ordered /\ Behind /\ TasksInv, UNCHANGED <<guard, task, queue, heard>>
  PROVE  (Ordered /\ Behind /\ TasksInv)'
  BY DEF Ordered, Behind, TasksInv, SendInv, Queued, Reached, Before, Place

(* A task reads the guard.                                                 *)
LEMMA ChecksKeeps ==
  ASSUME LinkInv, ~raced, NEW l \in Links, Checks(l)
  PROVE  (Ordered /\ Behind /\ TasksInv)'
<1>1. UNCHANGED <<guard, queue, heard>> /\ Ordered /\ Behind /\ TasksInv
  BY DEF LinkInv, Checks, loopVars
<1>2. (Ordered /\ Behind)'
  BY <1>1 DEF Ordered, Behind, Queued, Reached, Before
<1>3. /\ \A k \in Links : k # l => task'[k] = task[k]
      /\ task'[l].step # "send"
      /\ task'[l].step = "store" =>
           ~task'[l].saw.initialized \/ task'[l].message.number > task'[l].saw.last
  BY DEF LinkInv, LinkTypes, Checks, Passes, Idle
<1>4. TasksInv'
  BY <1>1, <1>3 DEF TasksInv, SendInv, Queued, Reached, Before, Place
<1> QED
  BY <1>2, <1>4

(* A task writes the guard, which is as it was when it was read: the guard *)
(* goes to a place that is past all others.                                *)
LEMMA StoresKeeps ==
  ASSUME LinkInv, ~raced', NEW l \in Links, Stores(l)
  PROVE  (Ordered /\ Behind /\ TasksInv)'
<1> DEFINE n == task[l].message.number
<1>1. /\ ~raced /\ task[l].saw = guard /\ Ordered /\ Behind /\ TasksInv
      /\ UNCHANGED <<queue, heard>>
  BY DEF LinkInv, Stores, loopVars
<1>2. /\ task[l] \in [step : {"store", "send"}, message : Message, saw : Guards]
      /\ guard \in Guards /\ queue \in Seq(Item)
      /\ heard \in [number : Nat, resets : Nat, epochs : SUBSET {1, 2}]
  BY DEF LinkInv, LinkTypes, Stores, Tasks, Idle
<1>3. n \in Nat \ {0} /\ (~guard.initialized \/ n > guard.last)
  BY <1>1, <1>2 DEF TasksInv, Stores, Message
<1>4. guard' = [initialized |-> TRUE, last |-> n, resets |-> guard.resets]
  BY <1>2 DEF Stores, Stored, Guards
<1>5. /\ \A k \in Links : k # l => task'[k] = task[k]
      /\ task'[l] = [step |-> "send", message |-> task[l].message, saw |-> guard']
  BY <1>2 DEF LinkInv, LinkTypes, Stores
<1> HIDE DEF n
<1>6. ASSUME NEW a, a.resets \in Nat, a.number \in Nat, Reached(a, guard)
      PROVE  /\ a.resets < guard'.resets \/ (a.resets = guard'.resets /\ a.number < n)
             /\ Reached(a, guard')
  BY <1>2, <1>3, <1>4, <1>6 DEF Reached, Guards
<1>7. Place(task'[l]) = [number |-> n, resets |-> guard'.resets]
  BY <1>4, <1>5 DEF Place, n
<1>8. \A i \in Queued : queue[i].resets \in Nat /\ queue[i].number \in Nat
  BY <1>2, QueuedItems
<1>9. Ordered' /\ Behind'
  BY <1>1, <1>2, <1>6, <1>8 DEF Ordered, Behind, Queued, Before
<1>10. SendInv(l)'
  <2>1. task'[l].saw.initialized /\ task'[l].saw.last = task'[l].message.number
    BY <1>4, <1>5 DEF n
  <2>2. Reached(Place(task'[l]), guard')
    BY <1>2, <1>3, <1>4, <1>7 DEF Reached
  <2>3. \A i \in Queued : Before(queue[i], Place(task'[l]))
    BY <1>1, <1>6, <1>7, <1>8 DEF Before, Behind
  <2>4. heard.number # 0 => Before(heard, Place(task'[l]))
    BY <1>1, <1>2, <1>6, <1>7 DEF Before, Behind
  <2> QED
    BY <1>1, <2>1, <2>2, <2>3, <2>4 DEF SendInv, Queued
<1>11. ASSUME NEW k \in Links, k # l, task[k].step = "send"
       PROVE  task[k].saw # guard' /\ SendInv(k)'
  <2>1. task[k].message.number \in Nat /\ task[k].saw \in Guards
    BY <1>11 DEF LinkInv, LinkTypes, Tasks, Idle, Message
  <2>2. /\ task[k].saw.last = task[k].message.number /\ task[k].saw.initialized
        /\ Reached(Place(task[k]), guard)
    BY <1>1, <1>11 DEF TasksInv, SendInv
  <2>3. /\ task[k].saw.resets < guard'.resets
             \/ (task[k].saw.resets = guard'.resets /\ task[k].saw.last < n)
        /\ Reached(Place(task[k]), guard')
    BY <1>6, <2>1, <2>2 DEF Place, Guards
  <2>4. task[k].saw # guard'
    BY <1>2, <1>3, <1>4, <2>1, <2>3 DEF Guards
  <2> QED
    BY <1>5, <1>11, <2>2, <2>3, <2>4 DEF SendInv
<1>12. TasksInv'
  BY <1>1, <1>5, <1>10, <1>11 DEF TasksInv
<1> QED
  BY <1>9, <1>12

(* A task sends what it stored: its place is the last, and the other task  *)
(* does not have it.                                                       *)
LEMMA QueuesKeeps ==
  ASSUME LinkInv, ~raced', NEW l \in Links, Queues(l)
  PROVE  (Ordered /\ Behind /\ TasksInv)'
<1> DEFINE t == task[l]
           item == [epoch |-> t.message.epoch, number |-> t.message.number,
                    resets |-> t.saw.resets]
<1>1. /\ ~raced /\ t.saw = guard /\ t.step = "send" /\ Ordered /\ Behind /\ TasksInv
      /\ UNCHANGED <<guard, heard>>
  BY DEF LinkInv, Queues
<1>2. /\ queue \in Seq(Item) /\ t.message.number \in Nat /\ t.saw.resets \in Nat
      /\ heard \in [number : Nat, resets : Nat, epochs : SUBSET {1, 2}]
  BY <1>1 DEF LinkInv, LinkTypes, Tasks, Idle, Message, Guards
<1>3. /\ \A k \in Links : k # l => task'[k] = task[k]
      /\ task'[l].step = "idle"
  BY DEF LinkInv, LinkTypes, Queues, Idle
<1>4. queue' = queue \/ queue' = Append(queue, item)
  BY DEF Queues
<1>5. SendInv(l)
  BY <1>1 DEF TasksInv
<1>6. \A i \in Queued' : (i \in Queued /\ queue'[i] = queue[i])
                          \/ (i = Len(queue) + 1 /\ queue'[i] = item)
  BY <1>2, <1>4 DEF Queued
<1>7. item.number = t.message.number /\ item.resets = t.saw.resets
  OBVIOUS
<1> HIDE DEF item
<1>8. \A i \in Queued : Before(queue[i], item)
  BY <1>1, <1>5, <1>7 DEF SendInv, Place, Before
<1>9. heard.number # 0 => Before(heard, item)
  BY <1>1, <1>5, <1>7 DEF SendInv, Place, Before
<1>10. Reached(item, guard)
  BY <1>5, <1>7 DEF SendInv, Place, Reached
<1>11. Ordered'
  <2>1. ASSUME NEW i \in Queued', NEW j \in Queued', i < j
        PROVE  Before(queue'[i], queue'[j])
    <3>1. i \in Queued /\ queue'[i] = queue[i]
      BY <1>2, <1>4, <1>6, <2>1 DEF Queued
    <3> QED
      BY <1>1, <1>6, <1>8, <2>1, <3>1 DEF Ordered
  <2>2. heard.number # 0 => \A i \in Queued' : Before(heard, queue'[i])
    BY <1>1, <1>6, <1>9 DEF Ordered
  <2> QED
    BY <1>1, <2>1, <2>2 DEF Ordered
<1>12. Behind'
  BY <1>1, <1>6, <1>10 DEF Behind
<1>13. ASSUME NEW k \in Links, task'[k].step = "send"
       PROVE  SendInv(k)'
  <2>1. k # l /\ task'[k] = task[k]
    BY <1>3, <1>13
  <2>2. SendInv(k) /\ task[k].saw # guard
    BY <1>1, <1>13, <2>1 DEF TasksInv
  <2> QED
    BY <1>1, <2>1, <2>2 DEF SendInv
<1>14. TasksInv'
  BY <1>1, <1>3, <1>13 DEF TasksInv
<1> QED
  BY <1>11, <1>12, <1>14

(* The loop samples the links; a reset takes the guard past every place.   *)
LEMMA SamplesKeeps ==
  ASSUME LinkInv, ~raced, Samples
  PROVE  (Ordered /\ Behind /\ TasksInv)'
<1>1. UNCHANGED <<task, queue, heard>> /\ Ordered /\ Behind /\ TasksInv
  BY DEF LinkInv, Samples
<1>2. CASE guard' = guard
  BY <1>1, <1>2, OthersKeep
<1>3. CASE guard' = Reset
  <2>1. /\ guard \in Guards /\ queue \in Seq(Item)
        /\ heard \in [number : Nat, resets : Nat, epochs : SUBSET {1, 2}]
    BY DEF LinkInv, LinkTypes
  <2>2. guard'.resets = guard.resets + 1 /\ guard.resets \in Nat
    BY <1>3, <2>1 DEF Reset, Guards
  <2>3. ASSUME NEW a, a.resets \in Nat, Reached(a, guard)
        PROVE  a.resets < guard'.resets /\ Reached(a, guard')
    BY <2>2, <2>3 DEF Reached
  <2>4. \A i \in Queued : queue[i].resets \in Nat
    BY <2>1, QueuedItems
  <2>5. Ordered' /\ Behind'
    BY <1>1, <2>1, <2>3, <2>4 DEF Ordered, Behind, Queued, Before
  <2>6. ASSUME NEW k \in Links, task[k].step = "send"
        PROVE  SendInv(k)'
    <3>1. task[k].saw \in Guards
      BY <2>6 DEF LinkInv, LinkTypes, Tasks, Idle
    <3>2. SendInv(k)
      BY <1>1, <2>6 DEF TasksInv
    <3>3. Place(task[k]).resets = task[k].saw.resets /\ task[k].saw.resets \in Nat
      BY <3>1 DEF Place, Guards
    <3>4. task[k].saw.resets < guard'.resets /\ Reached(Place(task[k]), guard')
      BY <2>3, <3>2, <3>3 DEF SendInv
    <3>5. task[k].saw # guard'
      BY <2>2, <3>3, <3>4
    <3> QED
      BY <1>1, <3>2, <3>4, <3>5 DEF SendInv
  <2>7. TasksInv'
    BY <1>1, <2>6 DEF TasksInv
  <2> QED
    BY <2>5, <2>7
<1> QED
  BY <1>2, <1>3 DEF Samples

(* The loop handles the first message of the queue.                        *)
LEMMA DrainsKeeps ==
  ASSUME LinkInv, ~raced, Drains
  PROVE  (Ordered /\ Behind /\ TasksInv)'
<1>1. UNCHANGED <<guard, task>> /\ Ordered /\ Behind /\ TasksInv /\ queue \in Seq(Item)
  BY DEF LinkInv, LinkTypes, Drains
<1>2. \A i \in Queued' : i + 1 \in Queued /\ queue'[i] = queue[i + 1]
  BY <1>1 DEF Queued, Drains
<1>3. 1 \in Queued /\ heard'.number = queue[1].number /\ heard'.resets = queue[1].resets
  BY <1>1 DEF Queued, Drains
<1>4. Queued' \subseteq Nat \ {0} /\ Queued \subseteq Nat
  BY DEF Queued
<1>5. Ordered'
  <2>1. \A i, j \in Queued' : i < j => Before(queue'[i], queue'[j])
    BY <1>1, <1>2, <1>4 DEF Ordered
  <2>2. ASSUME NEW i \in Queued' PROVE Before(queue[1], queue'[i])
    <3>1. i + 1 \in Queued /\ queue'[i] = queue[i + 1] /\ 1 < i + 1
      BY <1>2, <1>4
    <3> QED
      BY <1>1, <1>3, <3>1 DEF Ordered
  <2> QED
    BY <1>3, <2>1, <2>2 DEF Ordered, Before
<1>6. Behind'
  BY <1>1, <1>2, <1>3 DEF Behind, Reached
<1>7. ASSUME NEW k \in Links, SendInv(k) PROVE SendInv(k)'
  BY <1>1, <1>2, <1>3, <1>7 DEF SendInv, Before
<1>8. TasksInv'
  BY <1>1, <1>7 DEF TasksInv
<1> QED
  BY <1>5, <1>6, <1>8

(* The invariant.                                                          *)
LEMMA LinkInvariant == Spec => []LinkInv
<1>1. LinkInv /\ [Next]_vars => LinkInv'
  <2> SUFFICES ASSUME LinkInv, [Next]_vars, ~raced' PROVE (Ordered /\ Behind /\ TasksInv)'
    BY TypesKept DEF LinkInv
  <2>1. ASSUME NEW l \in Links, Connects(l) \/ Drops(l) \/ Notices(l)
        PROVE  (Ordered /\ Behind /\ TasksInv)'
    BY <2>1, OthersKeep DEF LinkInv, Connects, Drops, Notices, loopVars
  <2>2. ASSUME NEW l \in Links, Checks(l) PROVE (Ordered /\ Behind /\ TasksInv)'
    <3>1. ~raced
      BY <2>2 DEF Checks
    <3> QED
      BY <2>2, <3>1, ChecksKeeps
  <2>3. ASSUME NEW l \in Links, Stores(l) \/ Queues(l) PROVE (Ordered /\ Behind /\ TasksInv)'
    BY <2>3, StoresKeeps, QueuesKeeps
  <2>4. CASE Sends \/ Restarts \/ HearsUsb \/ PassEnds \/ UNCHANGED vars
    BY <2>4, OthersKeep DEF LinkInv, Sends, Restarts, HearsUsb, PassEnds, vars, loopVars
  <2>5. CASE Samples
    <3>1. ~raced
      BY <2>5 DEF Samples
    <3> QED
      BY <2>5, <3>1, SamplesKeeps
  <2>6. CASE Drains
    <3>1. ~raced
      BY <2>6 DEF Drains
    <3> QED
      BY <2>6, <3>1, DrainsKeeps
  <2> QED
    BY <2>1, <2>2, <2>3, <2>4, <2>5, <2>6 DEF Next, TaskStep, Loop
<1> QED
  BY <1>1, LinkInit, PTL DEF Spec

(* Between two resets of the guard the numbers that the loop handles go    *)
(* up, as long as no two tasks were in the guard at once: neither the      *)
(* mirrored copy of a message nor an old one is handled                    *)
(* (app_main.c:218-281, 601-611).                                       *)
THEOREM AlwaysHandledForward == Spec => HandledForward
<1>1. LinkInv /\ [Next]_vars => [Handles /\ ~raced => Head(queue).number > heard.number]_vars
  <2> SUFFICES ASSUME LinkInv, Next, Handles, ~raced
               PROVE  Head(queue).number > heard.number
    OBVIOUS
  <2>0. queue \in Seq(Item) /\ heard.number \in Nat /\ heard.resets \in Nat
    BY DEF LinkInv, LinkTypes
  <2>1. Drains
    <3>1. ASSUME queue' = queue PROVE FALSE
      BY <2>0, <3>1 DEF Handles
    <3>2. ASSUME NEW l \in Links, Queues(l) PROVE FALSE
      <4>1. PICK item : queue' = queue \/ queue' = Append(queue, item)
        BY <3>2 DEF Queues
      <4> QED
        BY <2>0, <4>1 DEF Handles
    <3> QED
      BY <3>1, <3>2 DEF Next, TaskStep, Loop, Connects, Drops, Notices, Checks, Stores, Sends,
                        Restarts, HearsUsb, Samples, PassEnds, loopVars
  <2>2. 1 \in Queued /\ Head(queue) = queue[1]
    BY <2>0, <2>1 DEF Drains, Queued
  <2>3. heard.number # 0 => Before(heard, Head(queue))
    BY <2>2 DEF LinkInv, Ordered
  <2>4. Head(queue) \in Item
    BY <2>0, <2>1 DEF Drains
  <2>5. Head(queue).number \in Nat /\ Head(queue).number > 0
    BY <2>4 DEF Item
  <2> QED
    BY <2>0, <2>3, <2>5 DEF Handles, Before
<1> QED
  BY <1>1, LinkInvariant, PTL DEF Spec, HandledForward

(* The numbers of a process stay within its bound, a link of the Mac is a   *)
(* link of the device, and the queue never holds more than its size, though *)
(* two tasks fill it.                                                      *)
THEOREM ControlTypeCorrect == Spec => []ControlTypeOK
<1> DEFINE Inv == LinkTypes /\ ControlTypeOK
<1>1. Init => Inv
  <2> SUFFICES ASSUME Init PROVE Inv
    OBVIOUS
  <2>1. LinkTypes
    BY LinkInit DEF LinkInv
  <2>2. ControlTypeOK
    <3>1. mac \in [epoch : {1, 2}, number : Nat] /\ mac.epoch = 1 /\ mac.number = 0
      BY DEF Init
    <3>2. Len(queue) = 0 /\ QueueSize \in Nat /\ LastNumber[1] \in Nat
      BY ControlAssumption DEF Init
    <3>3. sampled \in [link : BOOLEAN, at : {"sample", "drain"}]
          /\ raced \in BOOLEAN /\ usb \in BOOLEAN /\ gone \in BOOLEAN
      BY DEF Init
    <3>4. {macUp, devUp} \subseteq SUBSET Links /\ macUp \subseteq devUp /\ dropped \subseteq {1, 2}
      BY DEF Init
    <3> QED BY <3>1, <3>2, <3>3, <3>4 DEF ControlTypeOK
  <2> QED BY <2>1, <2>2
<1>2. Inv /\ [Next]_vars => Inv'
  <2> SUFFICES ASSUME Inv, [Next]_vars PROVE ControlTypeOK'
    BY TypesKept
  <2> USE DEF ControlTypeOK, macVars, loopVars
  <2>0. mac.epoch \in {1, 2} /\ mac.number \in Nat /\ LastNumber[1] \in Nat /\ LastNumber[2] \in Nat
    BY ControlAssumption
  <2>1. ASSUME NEW l \in Links, Connects(l) \/ Drops(l) \/ Notices(l) PROVE ControlTypeOK'
    <3>1. UNCHANGED <<mac, queue, sampled, raced, dropped, usb, gone>>
      BY <2>1 DEF Connects, Drops, Notices
    <3>2. macUp' \subseteq Links /\ devUp' \subseteq Links /\ macUp' \subseteq devUp'
      <4>1. CASE Connects(l)
        BY <4>1 DEF Connects
      <4>2. CASE Drops(l)
        BY <4>2 DEF Drops
      <4>3. CASE Notices(l)
        BY <4>3 DEF Notices
      <4> QED BY <2>1, <4>1, <4>2, <4>3
    <3> QED BY <3>1, <3>2
  <2>2. ASSUME NEW l \in Links, Checks(l) \/ Stores(l) PROVE ControlTypeOK'
    BY <2>2 DEF Checks, Stores
  <2>3. ASSUME NEW l \in Links, Queues(l) PROVE ControlTypeOK'
    <3>1. task[l].message.epoch \in {1, 2} /\ queue \in Seq(Item)
      BY <2>3 DEF Queues, LinkTypes, Tasks, Idle, Message
    <3>2. Len(queue') <= QueueSize
      <4>1. QueueSize \in Nat
        BY ControlAssumption
      <4> QED BY <2>3, <3>1, <4>1 DEF Queues
    <3>3. dropped' \subseteq {1, 2}
      BY <2>3, <3>1 DEF Queues
    <3> QED BY <2>3, <3>2, <3>3 DEF Queues
  <2>4. ASSUME Sends PROVE ControlTypeOK'
    <3>1. mac' = [mac EXCEPT !.number = mac.number + 1]
          /\ mac.number < LastNumber[mac.epoch]
      BY <2>4 DEF Sends, MaySend, Numbered
    <3>2. mac' \in [epoch : {1, 2}, number : Nat] /\ mac'.number <= LastNumber[mac'.epoch]
      BY <2>0, <3>1
    <3> QED
      BY <2>4, <3>2 DEF Sends
  <2>5. ASSUME Restarts PROVE ControlTypeOK'
    <3>1. mac'.epoch = 2 /\ mac'.number = 0
          /\ mac' \in [epoch : {1, 2}, number : Nat]
      BY <2>5 DEF Restarts
    <3>2. mac'.number <= LastNumber[mac'.epoch]
      BY <2>0, <3>1
    <3> QED
      BY <2>5, <3>1, <3>2 DEF Restarts
  <2>6. ASSUME Loop PROVE ControlTypeOK'
    <3>1. queue \in Seq(Item) /\ QueueSize \in Nat
      BY ControlAssumption DEF LinkTypes
    <3>2. CASE Samples
      BY <3>2 DEF Samples, Linked
    <3>3. CASE Drains
      <4>1. Len(queue') <= QueueSize
        <5>1. queue # <<>> /\ queue' = Tail(queue)
          BY <3>3 DEF Drains
        <5>2. Len(Tail(queue)) = Len(queue) - 1 /\ Len(queue) \in Nat
          BY <3>1, <5>1
        <5> QED BY <3>1, <5>1, <5>2
      <4>2. UNCHANGED <<mac, macUp, devUp, sampled, raced, dropped, usb, gone>>
        BY <3>3 DEF Drains
      <4> QED BY <4>1, <4>2
    <3>4. CASE PassEnds
      BY <3>4 DEF PassEnds
    <3> QED BY <2>6, <3>2, <3>3, <3>4 DEF Loop
  <2>7. ASSUME HearsUsb PROVE ControlTypeOK'
    BY <2>7 DEF HearsUsb
  <2>8. CASE UNCHANGED vars
    BY <2>8 DEF vars
  <2> QED BY <2>1, <2>2, <2>3, <2>4, <2>5, <2>6, <2>7, <2>8 DEF Next, TaskStep
<1> QED BY <1>1, <1>2, PTL DEF Spec

-----------------------------------------------------------------------------
(* What a queue holds, and every prompt there is: the one the service has  *)
(* open, those on the device, and those under way to it.                   *)
Items(q) == {q[i] : i \in DOMAIN q}
Around == {service.prompt, pending, shown} \cup UNION {Items(down[c]) : c \in Channels}
(* The invariant.  A number is given once; what carries the number of the  *)
(* open prompt is that prompt.                                             *)
IdsIssued == \A p \in Around : p.id <= service.nextID
PromptsAgree == \A p \in Around : p.id = service.prompt.id => p = service.prompt
(* The open prompt is newer than every prompt that was answered.           *)
AnswersGoUp ==
  /\ answered.id <= service.nextID
  /\ service.prompt # NoPrompt => answered.id < service.prompt.id
(* A finger put on the open prompt saw the button it is on, and so did the *)
(* selection for it if the prompt was not replaced before the release; a    *)
(* high-risk button was held.                                              *)
FingerSees ==
  /\ finger.id <= service.nextID
  /\ finger # NoFinger /\ finger.id = service.prompt.id =>
       finger.seen = service.prompt.options[finger.index]
Seen(s) ==
  /\ s.id <= service.nextID
  /\ s.finger.id = s.id /\ s.id = service.prompt.id =>
       /\ s.finger.seen = service.prompt.options[s.index]
       /\ s.finger.seen \in HighRisk => s.held
SelectionsSeen == \A c \in Channels : \A s \in Items(up[c]) : Seen(s)
(* All of it.                                                              *)
PromptInv ==
  /\ PromptTypeOK /\ PromptOwnsScreen /\ PressIsChosen
  /\ IdsIssued /\ PromptsAgree /\ AnswersGoUp /\ FingerSees /\ SelectionsSeen

(* The state of the service in the middle of a step, and between two.      *)
Services == [revision : 0..MaxRevisions, current : {"none", "asks", "works", "expired"},
             pending : BOOLEAN, nextID : Nat, prompt : Prompts,
             promptRevision : 0..MaxRevisions, out : Seq(Prompts)]

USE PromptAssumption

(* A nonempty set of naturals has a least member: an inductive argument is *)
(* one about the least counterexample.                                     *)
LEMMA Least ==
  ASSUME NEW T, T \subseteq Nat, T # {}
  PROVE  \E n \in T : \A k \in T : n <= k
<1>1. PICK n \in T : \A k \in T : <<k, n>> \notin OpToRel(<, Nat)
  BY WFMin, NatLessThanWellFounded, Zenon
<1>2. ASSUME NEW k \in T
      PROVE  n <= k
  <2>1. k \in Nat /\ n \in Nat
    OBVIOUS
  <2>2. ~(k < n)
    BY <1>1, <2>1, Zenon DEF OpToRel
  <2> QED
    BY <2>1, <2>2
<1> QED
  BY <1>2

(* A solution of the recursion of Hooked up to the k-th event.             *)
Runs(g, k) == g = [n \in 0..k |-> IF n = 0 THEN service ELSE Drained(g[n - 1], hooks[n])]

(* The recursion has a solution of any length, so Hooked is one.           *)
LEMMA HookedRuns ==
  ASSUME Len(hooks) \in Nat
  PROVE  Runs(Hooked, Len(hooks))
<1> DEFINE Bad == {k \in Nat : ~\E g : Runs(g, k)}
<1>1. ASSUME Bad # {} PROVE FALSE
  <2>1. PICK k \in Bad : \A j \in Bad : k <= j
    BY <1>1, Least
  <2>2. CASE k = 0
    <3>1. Runs([n \in 0..0 |-> service], 0)
      BY DEF Runs
    <3> QED
      BY <2>2, <3>1
  <2>3. CASE k # 0
    <3>1. k - 1 \in Nat /\ k - 1 \notin Bad
      BY <2>1, <2>3
    <3>2. PICK g : Runs(g, k - 1)
      BY <3>1
    <3> DEFINE h == [n \in 0..k |-> IF n = k THEN Drained(g[k - 1], hooks[k]) ELSE g[n]]
    <3>3. \A n \in 0..k : h[n] = IF n = 0 THEN service ELSE Drained(h[n - 1], hooks[n])
      <4> TAKE n \in 0..k
      <4>1. CASE n = k
        BY <2>3, <3>1, <4>1
      <4>2. CASE n # k
        <5>1. n \in 0..k - 1
          BY <3>1, <4>2
        <5>2. g[n] = IF n = 0 THEN service ELSE Drained(g[n - 1], hooks[n])
          BY <3>2, <5>1 DEF Runs
        <5> QED
          BY <5>1, <5>2, <4>2
      <4> QED
        BY <4>1, <4>2
    <3>4. Runs(h, k)
      BY <3>3 DEF Runs
    <3> QED
      BY <3>4
  <2> QED
    BY <2>2, <2>3
<1>2. \E g : Runs(g, Len(hooks))
  BY <1>1
<1> QED
  BY <1>2, Zenon DEF Runs, Hooked

(* What Append, \o, Tail and Head do to what a queue holds.                *)
LEMMA QueueItems ==
  ASSUME NEW S
  PROVE
  /\ \A q \in Seq(S), p \in S :
       Append(q, p) \in Seq(S) /\ Items(Append(q, p)) = Items(q) \cup {p}
  /\ \A q, r \in Seq(S) :
       q \o r \in Seq(S) /\ Items(q \o r) = Items(q) \cup Items(r)
  /\ \A q \in Seq(S) : q # <<>> =>
       /\ Tail(q) \in Seq(S) /\ Items(Tail(q)) \subseteq Items(q)
       /\ Head(q) \in S /\ Head(q) \in Items(q)
<1>1. ASSUME NEW q \in Seq(S), NEW p \in S
      PROVE  Append(q, p) \in Seq(S) /\ Items(Append(q, p)) = Items(q) \cup {p}
  <2>1. /\ Append(q, p) \in Seq(S)
        /\ DOMAIN Append(q, p) = 1..Len(q) + 1 /\ DOMAIN q = 1..Len(q) /\ Len(q) \in Nat
        /\ \A i \in 1..Len(q) : Append(q, p)[i] = q[i]
        /\ Append(q, p)[Len(q) + 1] = p
    OBVIOUS
  <2>2. 1..Len(q) + 1 = 1..Len(q) \cup {Len(q) + 1}
    BY <2>1
  <2> QED
    BY <2>1, <2>2 DEF Items
<1>2. ASSUME NEW q \in Seq(S), NEW r \in Seq(S)
      PROVE  q \o r \in Seq(S) /\ Items(q \o r) = Items(q) \cup Items(r)
  <2>1. /\ q \o r \in Seq(S)
        /\ DOMAIN (q \o r) = 1..Len(q) + Len(r) /\ DOMAIN q = 1..Len(q) /\ DOMAIN r = 1..Len(r)
        /\ Len(q) \in Nat /\ Len(r) \in Nat
        /\ \A i \in 1..Len(q) + Len(r) :
             (q \o r)[i] = IF i <= Len(q) THEN q[i] ELSE r[i - Len(q)]
    OBVIOUS
  <2>2. ASSUME NEW x \in Items(q \o r) PROVE x \in Items(q) \cup Items(r)
    <3>1. PICK i \in 1..Len(q) + Len(r) : x = (q \o r)[i]
      BY <2>1 DEF Items
    <3>2. CASE i <= Len(q)
      BY <2>1, <3>1, <3>2 DEF Items
    <3>3. CASE ~(i <= Len(q))
      <4>1. i - Len(q) \in 1..Len(r)
        BY <2>1, <3>3
      <4> QED
        BY <2>1, <3>1, <3>3, <4>1 DEF Items
    <3> QED
      BY <3>2, <3>3
  <2>3. ASSUME NEW x \in Items(q) PROVE x \in Items(q \o r)
    <3>1. PICK i \in 1..Len(q) : x = q[i]
      BY <2>1 DEF Items
    <3>2. i \in 1..Len(q) + Len(r)
      BY <2>1
    <3> QED
      BY <2>1, <3>1, <3>2 DEF Items
  <2>4. ASSUME NEW x \in Items(r) PROVE x \in Items(q \o r)
    <3>1. PICK i \in 1..Len(r) : x = r[i]
      BY <2>1 DEF Items
    <3>2. i + Len(q) \in 1..Len(q) + Len(r) /\ ~(i + Len(q) <= Len(q))
          /\ i + Len(q) - Len(q) = i
      BY <2>1
    <3> QED
      BY <2>1, <3>1, <3>2 DEF Items
  <2> QED
    BY <2>1, <2>2, <2>3, <2>4
<1>3. ASSUME NEW q \in Seq(S), q # <<>>
      PROVE  /\ Tail(q) \in Seq(S) /\ Items(Tail(q)) \subseteq Items(q)
             /\ Head(q) \in S /\ Head(q) \in Items(q)
  BY <1>3 DEF Items
<1> QED
  BY <1>1, <1>2, <1>3

(* An offer has one or two buttons, and a prompt without a number has      *)
(* none.                                                                   *)
LEMMA OffersTyped ==
  /\ \A o \in Offers : o # <<>> /\ DOMAIN o \subseteq 1..2
                      /\ \A i \in DOMAIN o : o[i] \in Options
  /\ \A p \in Prompts : /\ p.id \in Nat /\ (p.id = 0 <=> p = NoPrompt)
                        /\ DOMAIN p.options \subseteq 1..2
                        /\ \A i \in DOMAIN p.options : p # NoPrompt /\ p.options[i] \in Options
<1>1. ASSUME NEW o \in Offers
      PROVE  o # <<>> /\ DOMAIN o \subseteq 1..2 /\ \A i \in DOMAIN o : o[i] \in Options
  <2>1. CASE o = <<"once", "always">>
    BY <2>1 DEF Options
  <2>2. CASE o = <<"always">>
    BY <2>2 DEF Options
  <2> QED
    BY <2>1, <2>2 DEF Offers
<1>2. ASSUME NEW p \in Prompts
      PROVE  /\ p.id \in Nat /\ (p.id = 0 <=> p = NoPrompt)
             /\ DOMAIN p.options \subseteq 1..2
             /\ \A i \in DOMAIN p.options : p # NoPrompt /\ p.options[i] \in Options
  <2>1. CASE p = NoPrompt
    BY <2>1 DEF NoPrompt
  <2>2. CASE p # NoPrompt
    <3>1. p \in [id : Nat \ {0}, options : Offers]
      BY <2>2 DEF Prompts
    <3> HIDE <1>2
    <3> QED
      BY <1>1, <2>2, <3>1 
  <2> QED
    BY <2>1, <2>2
<1> QED
  BY <1>1, <1>2

(* The service in the middle of a step: it may have closed its prompt, and *)
(* has sent nothing else.                                                  *)
Underway(m) ==
  /\ m \in Services
  /\ m.nextID = service.nextID /\ m.prompt \in {service.prompt, NoPrompt}
  /\ Items(m.out) \subseteq {NoPrompt}

(* What a step of the service may end in: it may have opened a prompt      *)
(* under the next number.                                                  *)
Settles(m) ==
  /\ m \in Services
  /\ Items(m.out) \subseteq {NoPrompt, m.prompt}
  /\ \/ m.nextID = service.nextID /\ m.prompt \in {service.prompt, NoPrompt}
     \/ m.nextID = service.nextID + 1 /\ m.prompt.id = m.nextID

(* Closing the prompt leaves the service underway.                         *)
LEMMA CloseKeeps ==
  ASSUME NEW m, Underway(m)
  PROVE  /\ Underway(ClosePrompt(m)) /\ ClosePrompt(m).revision = m.revision
         /\ ClosePrompt(m).prompt = NoPrompt
<1>0. NoPrompt \in Prompts /\ m \in Services
  BY DEF Prompts, Underway
<1>1. CASE m.prompt = NoPrompt
  BY <1>1 DEF ClosePrompt
<1>2. CASE m.prompt # NoPrompt
  <2> DEFINE n == ClosePrompt(m)
  <2>1. /\ n.prompt = NoPrompt /\ n.promptRevision = 0 /\ n.pending = FALSE
        /\ n.out = Append(m.out, NoPrompt)
        /\ n.nextID = m.nextID /\ n.revision = m.revision /\ n.current = m.current
        /\ n = [revision |-> m.revision, current |-> m.current, pending |-> FALSE,
                nextID |-> m.nextID, prompt |-> NoPrompt, promptRevision |-> 0,
                out |-> Append(m.out, NoPrompt)]
    BY <1>0, <1>2 DEF ClosePrompt, Services
  <2>2. m.out \in Seq(Prompts)
    BY <1>0 DEF Services
  <2>3. n.out \in Seq(Prompts) /\ Items(n.out) = Items(m.out) \cup {NoPrompt}
    BY <1>0, <2>1, <2>2, QueueItems
  <2>4. n \in Services
    BY <1>0, <2>1, <2>3 DEF Services
  <2> HIDE DEF n
  <2> QED
    BY <2>1, <2>3, <2>4 DEF Underway, n
<1> QED
  BY <1>1, <1>2

(* So does an event of the hooks, one revision later.                      *)
LEMMA DrainKeeps ==
  ASSUME NEW m, Underway(m), m.revision < MaxRevisions, NEW kind \in {"asks", "works"}
  PROVE  /\ Underway(Reduced(m, kind)) /\ Reduced(m, kind).revision = m.revision + 1
         /\ Underway(Drained(m, kind)) /\ Drained(m, kind).revision = m.revision + 1
<1> DEFINE n == Reduced(m, kind)
<1>1. m \in Services
  BY DEF Underway
<1>2. n = [m EXCEPT !.revision = m.revision + 1, !.current = kind]
  BY <1>1 DEF Reduced, Services
<1>3. /\ n \in Services
      /\ n.revision = m.revision + 1 /\ n.nextID = m.nextID
      /\ n.prompt = m.prompt /\ n.out = m.out
  <2>1. m.revision + 1 \in 0..MaxRevisions
    BY <1>1 DEF Services
  <2> HIDE DEF n
  <2> QED
    BY <1>1, <1>2, <2>1 DEF Services
<1>4. Underway(n) /\ n.revision = m.revision + 1
  BY <1>3 DEF Underway
<1>5. CASE kind = "asks"
  <2>1. Drained(m, kind) = [n EXCEPT !.pending = TRUE]
    BY <1>5 DEF Drained
  <2> HIDE DEF n
  <2>2. /\ Drained(m, kind) \in Services
        /\ Drained(m, kind).revision = n.revision /\ Drained(m, kind).nextID = n.nextID
        /\ Drained(m, kind).prompt = n.prompt /\ Drained(m, kind).out = n.out
    BY <1>3, <2>1 DEF Services
  <2>3. Underway(Drained(m, kind))
    BY <1>4, <2>2 DEF Underway
  <2> QED
    BY <1>4, <2>2, <2>3 DEF n
<1>6. CASE kind # "asks"
  <2>1. Drained(m, kind) = ClosePrompt(n)
    BY <1>6 DEF Drained
  <2> QED
    BY <1>4, <2>1, CloseKeeps
<1> QED
  BY <1>4, <1>5, <1>6

(* So does the whole inbox, however many events it holds.                  *)
LEMMA HookedKeeps ==
  ASSUME PromptTypeOK
  PROVE  Underway(Hooked[Len(hooks)])
<1>1. /\ Len(hooks) \in Nat /\ hooks \in Seq({"asks", "works"})
      /\ service.revision \in Nat /\ service.revision + Len(hooks) <= MaxRevisions
      /\ service \in Services
      /\ Underway(service)
  <2>1. service \in Services
    <3>1. <<>> \in Seq(Prompts)
      OBVIOUS
    <3> QED
      BY <3>1 DEF PromptTypeOK, Services
  <2>2. Items(service.out) = {}
    BY DEF PromptTypeOK, Items
  <2> QED
    BY <2>1, <2>2 DEF PromptTypeOK, Underway
<1>2. \A n \in 0..Len(hooks) :
        Hooked[n] = IF n = 0 THEN service ELSE Drained(Hooked[n - 1], hooks[n])
  BY <1>1, HookedRuns DEF Runs
<1> DEFINE Good(n) == Underway(Hooked[n]) /\ Hooked[n].revision = service.revision + n
           Bad == {n \in 0..Len(hooks) : ~Good(n)}
<1>3. ASSUME Bad # {} PROVE FALSE
  <2>0. Bad \subseteq Nat
    BY <1>1
  <2>1. PICK n \in Bad : \A k \in Bad : n <= k
    BY <1>3, <2>0, Least
  <2>2. n # 0
    BY <1>1, <1>2, <2>1
  <2>3. n - 1 \in 0..Len(hooks) /\ n - 1 \notin Bad /\ n \in 1..Len(hooks) /\ n \in Nat
    BY <1>1, <2>1, <2>2
  <2>4. Good(n - 1)
    BY <2>3
  <2>5. hooks[n] \in {"asks", "works"}
    BY <1>1, <2>3
  <2>6. Hooked[n - 1].revision < MaxRevisions /\ Hooked[n - 1].revision + 1 = service.revision + n
    BY <1>1, <2>3, <2>4
  <2>7. Good(n)
    BY <1>2, <2>2, <2>3, <2>4, <2>5, <2>6, DrainKeeps
  <2> QED
    BY <2>1, <2>7
<1> QED
  BY <1>1, <1>3

(* A poll may offer a dialog, under a number that was not used before.     *)
LEMMA PollSettles ==
  ASSUME PromptTypeOK, NEW m, Underway(m), NEW front \in BOOLEAN
  PROVE  Settles(PollApproval(m, front)) /\ PollApproval(m, front).revision = m.revision
<1>1. m \in Services
  BY DEF Underway
<1>2. \A n : Underway(n) => Settles(n)
  BY DEF Underway, Settles
<1>3. CASE m.prompt = NoPrompt /\ m.pending /\ front /\ Open
  <2> DEFINE prompt == [id |-> m.nextID + 1, options |-> dialog.options]
             n == OffersDialog(m, front)
  <2>1. prompt \in Prompts /\ prompt.id = m.nextID + 1
    <3>1. dialog.options \in Offers
      BY <1>3 DEF Open, PromptTypeOK
    <3>2. m.nextID + 1 \in Nat \ {0}
      BY <1>1 DEF Services
    <3> QED
      BY <3>1, <3>2 DEF Prompts
  <2>2. PollApproval(m, front) = n
    BY <1>3 DEF PollApproval
  <2>3. n = [m EXCEPT !.nextID = m.nextID + 1, !.prompt = prompt, !.pending = FALSE,
                      !.promptRevision = IF Current(m) THEN m.revision ELSE 0,
                      !.out = Append(m.out, prompt)]
    BY <1>1, <1>3 DEF OffersDialog, Services
  <2> HIDE DEF n, prompt
  <2>4. m.out \in Seq(Prompts) /\ m.nextID + 1 \in Nat
        /\ (IF Current(m) THEN m.revision ELSE 0) \in 0..MaxRevisions
    BY <1>1 DEF Services
  <2>5. Append(m.out, prompt) \in Seq(Prompts)
        /\ Items(Append(m.out, prompt)) = Items(m.out) \cup {prompt}
    BY <2>1, <2>4, QueueItems
  <2>6. n \in Services /\ n.revision = m.revision /\ n.nextID = m.nextID + 1
        /\ n.prompt = prompt /\ n.out = Append(m.out, prompt)
    BY <1>1, <2>1, <2>3, <2>4, <2>5 DEF Services
  <2> QED
    BY <2>1, <2>2, <2>5, <2>6 DEF Settles, Underway
<1>4. CASE ~(m.prompt = NoPrompt /\ m.pending /\ front /\ Open)
  <2>1. PollApproval(m, front) \in {m, ClosePrompt(m)}
    BY <1>4 DEF PollApproval, OffersDialog
  <2> QED
    BY <1>2, <2>1, CloseKeeps
<1> QED
  BY <1>3, <1>4

(* The service between two steps: everything is sent.                      *)
Idlers == [revision : 0..MaxRevisions, current : {"none", "asks", "works", "expired"},
           pending : BOOLEAN, nextID : Nat, prompt : Prompts,
           promptRevision : 0..MaxRevisions, out : {<<>>}]

(* A step of the service, as the device and the selections under way see   *)
(* it.                                                                     *)
ServiceMoves ==
  /\ service' \in Idlers
  /\ \/ service'.nextID = service.nextID /\ service'.prompt \in {service.prompt, NoPrompt}
     \/ service'.nextID = service.nextID + 1 /\ service'.prompt.id = service'.nextID
  /\ down' \in [Channels -> Seq(Prompts)]
  /\ \A c \in Channels : Items(down'[c]) \subseteq Items(down[c]) \cup {NoPrompt, service'.prompt}

(* What the service sends goes out on every link that is up.               *)
LEMMA DoesMoves ==
  ASSUME PromptTypeOK, NEW m, Settles(m), Does(m)
  PROVE  ServiceMoves /\ service'.revision = m.revision
<1>1. m \in Services /\ m.out \in Seq(Prompts)
  BY DEF Settles, Services
<1>2. service' = [m EXCEPT !.out = <<>>]
      /\ down' = [c \in Channels |-> IF c \in links THEN down[c] \o m.out ELSE down[c]]
  BY DEF Does
<1>3. service' \in Idlers /\ service'.revision = m.revision /\ service'.nextID = m.nextID
      /\ service'.prompt = m.prompt
  BY <1>1, <1>2 DEF Services, Idlers
<1>4. ASSUME NEW c \in Channels
      PROVE  /\ down'[c] \in Seq(Prompts)
             /\ Items(down'[c]) \subseteq Items(down[c]) \cup {NoPrompt, service'.prompt}
  <2>1. down[c] \in Seq(Prompts)
    BY DEF PromptTypeOK
  <2>2. down[c] \o m.out \in Seq(Prompts)
        /\ Items(down[c] \o m.out) = Items(down[c]) \cup Items(m.out)
    BY <1>1, <2>1, QueueItems
  <2>3. down'[c] \in {down[c], down[c] \o m.out}
    BY <1>2
  <2> QED
    BY <1>3, <2>1, <2>2, <2>3 DEF Settles
<1>5. down' \in [Channels -> Seq(Prompts)]
  BY <1>2, <1>4
<1> QED
  BY <1>3, <1>4, <1>5 DEF ServiceMoves, Settles

(* A prompt that is offered has a number of its own, so nothing under way  *)
(* can be taken for it.                                                    *)
LEMMA MovesKeep ==
  ASSUME PromptInv, ServiceMoves, UNCHANGED <<pending, shown, finger>>
  PROVE  /\ IdsIssued' /\ PromptsAgree' /\ FingerSees'
         /\ \A s \in Messages : Seen(s) => Seen(s)'
<1>1. /\ service.nextID \in Nat /\ service'.nextID \in Nat
      /\ service.prompt \in Prompts /\ service'.prompt \in Prompts /\ NoPrompt.id = 0
      /\ service'.nextID >= service.nextID
  BY DEF PromptInv, PromptTypeOK, ServiceMoves, Idlers, NoPrompt
<1>2. ASSUME NEW p \in Around'
      PROVE  p \in Around \/ p = NoPrompt \/ p = service'.prompt
  BY <1>2 DEF Around, ServiceMoves
<1>3. \A p \in Around : p.id <= service.nextID /\ p \in Prompts
  <2>1. \A c \in Channels : Items(down[c]) \subseteq Prompts
    <3>1. \A c \in Channels : down[c] \in Seq(Prompts)
      BY DEF PromptInv, PromptTypeOK
    <3> QED
      BY <3>1 DEF Items
  <2>2. {service.prompt, pending, shown} \subseteq Prompts
    BY DEF PromptInv, PromptTypeOK
  <2> QED
    BY <2>1, <2>2 DEF Around, PromptInv, IdsIssued
<1>4. service.prompt \in Around
  BY DEF Around
<1>5. \A p \in Prompts : p.id \in Nat /\ (p.id = 0 <=> p = NoPrompt)
  BY OffersTyped
<1>6. service'.prompt.id <= service'.nextID
  BY <1>1, <1>3, <1>4, <1>5 DEF ServiceMoves
<1>7. IdsIssued'
  <2> SUFFICES ASSUME NEW p \in Around' PROVE p.id <= service'.nextID
    BY DEF IdsIssued
  <2>1. CASE p \in Around
    <3>1. p.id <= service.nextID /\ p.id \in Nat
      BY <1>3, <1>5, <2>1
    <3> QED
      BY <1>1, <3>1
  <2> QED
    BY <1>1, <1>2, <1>6, <2>1
<1>8. PromptsAgree'
  <2> SUFFICES ASSUME NEW p \in Around', p.id = service'.prompt.id PROVE p = service'.prompt
    BY DEF PromptsAgree
  <2>1. p \in Prompts
    BY <1>1, <1>2, <1>3 DEF Prompts
  <2>2. CASE service'.prompt = NoPrompt
    BY <1>1, <1>5, <2>1, <2>2
  <2>3. CASE p \in Around /\ service'.prompt = service.prompt
    BY <2>3 DEF PromptInv, PromptsAgree
  <2>4. CASE p \in Around /\ service'.prompt.id = service.nextID + 1
    <3>1. p.id <= service.nextID /\ p.id \in Nat
      BY <1>3, <1>5, <2>4
    <3> QED
      BY <1>1, <2>4, <3>1
  <2>5. CASE p = NoPrompt
    BY <1>1, <1>5, <2>5
  <2> QED
    BY <1>2, <2>2, <2>3, <2>4, <2>5 DEF ServiceMoves
<1>9. ASSUME NEW s \in Messages, Seen(s)
      PROVE  Seen(s)'
  <2>1. s.id \in Nat \ {0} /\ s.id <= service.nextID
    BY <1>9 DEF Messages, Seen
  <2>2. s.id <= service'.nextID
    BY <1>1, <2>1
  <2>3. CASE service'.prompt = service.prompt
    BY <1>9, <2>2, <2>3 DEF Seen
  <2>4. CASE service'.prompt # service.prompt
    <3>1. service'.prompt.id = 0 \/ service'.prompt.id = service.nextID + 1
      BY <1>1, <2>4 DEF ServiceMoves
    <3>2. s.id # service'.prompt.id
      BY <1>1, <2>1, <3>1
    <3> QED
      BY <1>9, <2>2, <3>2 DEF Seen
  <2> QED
    BY <2>3, <2>4
<1>10. FingerSees'
  <2>1. finger.id \in Nat /\ (finger # NoFinger => finger.id # 0) /\ finger.id <= service.nextID
    BY DEF PromptInv, PromptTypeOK, FingerSees, Fingers, NoFinger
  <2>2. finger'.id <= service'.nextID
    BY <1>1, <2>1
  <2>3. CASE service'.prompt = service.prompt
    BY <2>2, <2>3 DEF PromptInv, FingerSees
  <2>4. CASE service'.prompt # service.prompt
    <3>1. service'.prompt.id = 0 \/ service'.prompt.id = service.nextID + 1
      BY <1>1, <2>4 DEF ServiceMoves
    <3>2. finger # NoFinger => finger.id # service'.prompt.id
      BY <1>1, <2>1, <3>1
    <3> QED
      BY <2>2, <3>2 DEF FingerSees
  <2> QED
    BY <2>3, <2>4
<1> QED
  BY <1>7, <1>8, <1>9, <1>10

(* Whatever Codex, the user and the service do keeps the invariant, if     *)
(* what they answer does.                                                  *)
LEMMA ActKeeps ==
  ASSUME PromptInv, ServiceMoves, UNCHANGED <<linkVars, uiVars>>,
         hooks' \in Seq({"asks", "works"}), service'.revision + Len(hooks') <= MaxRevisions,
         dialog' \in [number : 0..MaxDialogs, options : Offers \cup {<<>>}],
         up' \in [Channels -> Seq(Messages)],
         \A c \in Channels : Items(up'[c]) \subseteq Items(up[c]),
         answered' \in Answers,
         PressIsChosen', AnswersGoUp'
  PROVE  PromptInv'
<1>1. PromptTypeOK'
  BY DEF PromptInv, PromptTypeOK, ServiceMoves, Idlers, linkVars, uiVars
<1>2. PromptOwnsScreen'
  BY DEF PromptInv, PromptOwnsScreen, uiVars
<1>3. /\ IdsIssued' /\ PromptsAgree' /\ FingerSees'
      /\ \A s \in Messages : Seen(s) => Seen(s)'
  BY MovesKeep DEF uiVars
<1>4. SelectionsSeen'
  <2> SUFFICES ASSUME NEW c \in Channels, NEW s \in Items(up'[c]) PROVE Seen(s)'
    BY DEF SelectionsSeen
  <2>1. s \in Items(up[c]) /\ Seen(s)
    BY DEF PromptInv, SelectionsSeen
  <2>2. s \in Messages
    <3>1. up[c] \in Seq(Messages)
      BY DEF PromptInv, PromptTypeOK
    <3> QED
      BY <2>1, <3>1 DEF Items
  <2> QED
    BY <1>3, <2>1, <2>2
<1> QED
  BY <1>1, <1>2, <1>3, <1>4 DEF PromptInv

(* A step that does not press leaves the answer where it is.               *)
LEMMA AnswersStay ==
  ASSUME PromptInv, ServiceMoves, UNCHANGED answered
  PROVE  PressIsChosen' /\ AnswersGoUp'
<1>1. PressIsChosen'
  BY DEF PromptInv, PressIsChosen
<1>2. answered.id \in Nat /\ service.nextID \in Nat /\ service'.nextID \in Nat
      /\ answered.id <= service.nextID
  BY DEF PromptInv, PromptTypeOK, ServiceMoves, Idlers, AnswersGoUp, Answers
<1>3. answered.id <= service'.nextID
  BY <1>2 DEF ServiceMoves
<1>4. service'.prompt # NoPrompt => answered.id < service'.prompt.id
  BY <1>2 DEF ServiceMoves, PromptInv, AnswersGoUp
<1> QED
  BY <1>1, <1>3, <1>4 DEF AnswersGoUp

(* The hooks may report, if the bound leaves room for it.                  *)
LEMMA ReportKeeps ==
  ASSUME PromptTypeOK, NEW kind \in {"asks", "works"}, Reports(kind)
  PROVE  hooks' \in Seq({"asks", "works"}) /\ service.revision + Len(hooks') <= MaxRevisions
<1>1. hooks \in Seq({"asks", "works"}) /\ service.revision \in Nat
      /\ service.revision + Len(hooks) <= MaxRevisions
  BY DEF PromptTypeOK
<1>2. CASE hooks' = hooks
  BY <1>1, <1>2
<1>3. CASE Room /\ hooks' = Append(hooks, kind)
  <2>1. hooks' \in Seq({"asks", "works"}) /\ Len(hooks') = Len(hooks) + 1
    BY <1>1, <1>3
  <2> QED
    BY <1>1, <1>3, <2>1 DEF Room
<1> QED
  BY <1>2, <1>3 DEF Reports

(* A step without the service is a move in which it rests.                 *)
LEMMA RestMoves ==
  ASSUME PromptTypeOK, UNCHANGED <<service, down>>
  PROVE  ServiceMoves
BY DEF PromptTypeOK, ServiceMoves, Idlers

-----------------------------------------------------------------------------
(* A dialog that opens, or is answered at the Mac, changes no prompt.      *)
LEMMA CodexKeeps ==
  ASSUME PromptInv, Asks \/ UserAnswers
  PROVE  PromptInv'
<1>1. PromptTypeOK /\ UNCHANGED <<answered, service, linkVars, down, up, uiVars>>
  BY DEF Asks, UserAnswers, PromptInv
<1>2. ServiceMoves
  BY <1>1, RestMoves
<1>3. hooks' \in Seq({"asks", "works"}) /\ service.revision + Len(hooks') <= MaxRevisions
  BY <1>1, ReportKeeps DEF Asks, UserAnswers
<1>4. dialog' \in [number : 0..MaxDialogs, options : Offers \cup {<<>>}]
  <2>1. dialog \in [number : 0..MaxDialogs, options : Offers \cup {<<>>}]
    BY <1>1 DEF PromptTypeOK
  <2>2. CASE Asks
    <3>1. dialog.number + 1 \in 0..MaxDialogs
      BY <2>1, <2>2 DEF Asks
    <3>2. PICK o \in Offers : dialog' = [number |-> dialog.number + 1, options |-> o]
      BY <2>2 DEF Asks
    <3> QED
      BY <3>1, <3>2
  <2>3. CASE UserAnswers
    BY <2>1, <2>3 DEF UserAnswers, NowClosed
  <2> QED
    BY <2>2, <2>3
<1>5. PressIsChosen' /\ AnswersGoUp'
  BY <1>1, <1>2, AnswersStay
<1>6. /\ up' \in [Channels -> Seq(Messages)]
      /\ answered' \in Answers
      /\ service' = service /\ up' = up
  BY <1>1 DEF PromptTypeOK
<1> QED
  BY <1>1, <1>2, <1>3, <1>4, <1>5, <1>6, ActKeeps

(* The tick drains the inbox and polls.                                    *)
LEMMA TickKeeps ==
  ASSUME PromptInv, Tick
  PROVE  PromptInv'
<1>1. PromptTypeOK /\ hooks' = <<>> /\ UNCHANGED <<dialog, answered, linkVars, up, uiVars>>
  BY DEF Tick, PromptInv
<1>2. PICK front \in BOOLEAN : Does(PollApproval(Hooked[Len(hooks)], front))
  BY DEF Tick
<1>3. Underway(Hooked[Len(hooks)])
  BY <1>1, HookedKeeps
<1>4. Settles(PollApproval(Hooked[Len(hooks)], front))
  BY <1>1, <1>3, PollSettles
<1>5. ServiceMoves
  BY <1>1, <1>2, <1>4, DoesMoves
<1>6. PressIsChosen' /\ AnswersGoUp'
  BY <1>1, <1>5, AnswersStay
<1>7. hooks' \in Seq({"asks", "works"}) /\ service'.revision + Len(hooks') <= MaxRevisions
  <2>1. service'.revision \in 0..MaxRevisions
    BY <1>5 DEF ServiceMoves, Idlers
  <2> QED
    BY <1>1, <2>1
<1>8. /\ up' \in [Channels -> Seq(Messages)] /\ up' = up
      /\ answered' \in Answers
      /\ dialog' \in [number : 0..MaxDialogs, options : Offers \cup {<<>>}]
  BY <1>1 DEF PromptTypeOK
<1> QED
  BY <1>1, <1>5, <1>6, <1>7, <1>8, ActKeeps

(* The service between two steps is underway.                              *)
LEMMA IdleUnderway ==
  ASSUME PromptTypeOK
  PROVE  Underway(service) /\ service \in Services
<1>1. <<>> \in Seq(Prompts)
  OBVIOUS
<1>2. service \in Services
  BY <1>1 DEF PromptTypeOK, Services
<1>3. Items(service.out) = {}
  BY DEF PromptTypeOK, Items
<1> QED
  BY <1>2, <1>3 DEF Underway

(* The journal may close the prompt.                                       *)
LEMMA RolloutKeeps ==
  ASSUME PromptInv, PollRollout
  PROVE  PromptInv'
<1>1. PromptTypeOK /\ UNCHANGED <<codexVars, linkVars, up, uiVars>> /\ Room
  BY DEF PollRollout, PromptInv
<1>2. Underway(service) /\ service.revision \in Nat /\ Len(hooks) \in Nat
      /\ service.revision + Len(hooks) < MaxRevisions /\ service.revision < MaxRevisions
  BY <1>1, IdleUnderway DEF PromptTypeOK, Room
<1>3. PICK m : Does(m) /\ Underway(m) /\ m.revision = service.revision + 1
  <2>1. PICK kind \in {"asks", "works"} :
          LET m == Reduced(service, kind) IN
            Does(IF kind = "works" THEN ClosePrompt(m)
                 ELSE [m EXCEPT !.pending = @ \/ m.prompt = NoPrompt])
    BY DEF PollRollout
  <2> DEFINE m == Reduced(service, kind)
             q == [m EXCEPT !.pending = @ \/ m.prompt = NoPrompt]
  <2>2. Underway(m) /\ m.revision = service.revision + 1
    BY <1>2, DrainKeeps
  <2>3. Underway(ClosePrompt(m)) /\ ClosePrompt(m).revision = service.revision + 1
    BY <2>2, CloseKeeps
  <2>4. Does(IF kind = "works" THEN ClosePrompt(m) ELSE q)
    BY <2>1
  <2> HIDE DEF m
  <2>5. Underway(q) /\ q.revision = service.revision + 1
    BY <2>2 DEF Underway, Services
  <2> HIDE DEF q
  <2> QED
    BY <2>3, <2>4, <2>5
<1>4. Settles(m)
  BY <1>3 DEF Underway, Settles
<1>5. ServiceMoves /\ service'.revision = m.revision
  BY <1>1, <1>3, <1>4, DoesMoves
<1>6. PressIsChosen' /\ AnswersGoUp'
  BY <1>1, <1>5, AnswersStay DEF codexVars
<1>7. hooks' \in Seq({"asks", "works"}) /\ service'.revision + Len(hooks') <= MaxRevisions
  BY <1>1, <1>2, <1>3, <1>5 DEF codexVars, PromptTypeOK
<1>8. /\ up' \in [Channels -> Seq(Messages)] /\ up' = up
      /\ answered' \in Answers
      /\ dialog' \in [number : 0..MaxDialogs, options : Offers \cup {<<>>}]
  BY <1>1 DEF PromptTypeOK, codexVars
<1> QED
  BY <1>1, <1>5, <1>6, <1>7, <1>8, ActKeeps

(* A deadline changes neither the prompt nor its number.                   *)
LEMMA ExpiresKeeps ==
  ASSUME PromptInv, Expires
  PROVE  PromptInv'
<1>1. PromptTypeOK /\ UNCHANGED <<codexVars, linkVars, down, up, uiVars>>
  BY DEF Expires, PromptInv
<1>2. service' \in Idlers /\ service'.nextID = service.nextID
      /\ service'.prompt = service.prompt /\ service'.revision = service.revision
  BY <1>1 DEF Expires, PromptTypeOK, Idlers
<1>3. ServiceMoves
  BY <1>1, <1>2 DEF ServiceMoves, PromptTypeOK
<1>4. PressIsChosen' /\ AnswersGoUp'
  BY <1>1, <1>3, AnswersStay DEF codexVars
<1>5. /\ hooks' \in Seq({"asks", "works"}) /\ service'.revision + Len(hooks') <= MaxRevisions
      /\ up' \in [Channels -> Seq(Messages)] /\ up' = up
      /\ answered' \in Answers
      /\ dialog' \in [number : 0..MaxDialogs, options : Offers \cup {<<>>}]
  BY <1>1, <1>2 DEF PromptTypeOK, codexVars
<1> QED
  BY <1>1, <1>3, <1>4, <1>5, ActKeeps

(* A selection that is taken from a link is one the invariant knows.       *)
LEMMA ReceivesTakes ==
  ASSUME PromptInv, NEW c \in Channels, Receives(c)
  PROVE  /\ up' \in [Channels -> Seq(Messages)]
         /\ \A d \in Channels : Items(up'[d]) \subseteq Items(up[d])
         /\ Head(up[c]) \in Messages /\ Seen(Head(up[c]))
<1>1. up \in [Channels -> Seq(Messages)] /\ up[c] # <<>> /\ up' = [up EXCEPT ![c] = Tail(@)]
  BY DEF Receives, PromptInv, PromptTypeOK
<1>2. up[c] \in Seq(Messages)
  BY <1>1
<1>3. /\ Tail(up[c]) \in Seq(Messages) /\ Items(Tail(up[c])) \subseteq Items(up[c])
      /\ Head(up[c]) \in Messages /\ Head(up[c]) \in Items(up[c])
  BY <1>1, <1>2, QueueItems
<1>4. Seen(Head(up[c]))
  BY <1>3 DEF PromptInv, SelectionsSeen
<1> QED
  BY <1>1, <1>3, <1>4

(* A selection that is not accepted does nothing.                          *)
LEMMA IgnoresKeeps ==
  ASSUME PromptInv, Ignores
  PROVE  PromptInv'
<1>1. PromptTypeOK /\ UNCHANGED <<codexVars, service, down, linkVars, uiVars>>
  BY DEF Ignores, SelectionRest, PromptInv
<1>2. /\ up' \in [Channels -> Seq(Messages)]
      /\ \A d \in Channels : Items(up'[d]) \subseteq Items(up[d])
  BY ReceivesTakes DEF Ignores
<1>3. ServiceMoves
  BY <1>1, RestMoves
<1>4. PressIsChosen' /\ AnswersGoUp'
  BY <1>1, <1>3, AnswersStay DEF codexVars
<1>5. /\ hooks' \in Seq({"asks", "works"}) /\ service'.revision + Len(hooks') <= MaxRevisions
      /\ answered' \in Answers
      /\ dialog' \in [number : 0..MaxDialogs, options : Offers \cup {<<>>}]
  BY <1>1 DEF PromptTypeOK, codexVars
<1> QED
  BY <1>1, <1>2, <1>3, <1>4, <1>5, ActKeeps

(* Closing the prompt is a move of the service.                            *)
LEMMA ClosingMoves ==
  ASSUME PromptTypeOK, Does(ClosePrompt(service))
  PROVE  ServiceMoves /\ service'.revision = service.revision /\ service'.prompt = NoPrompt
         /\ service'.nextID = service.nextID
<1>1. Underway(ClosePrompt(service)) /\ ClosePrompt(service).revision = service.revision
      /\ ClosePrompt(service).prompt = NoPrompt
  BY IdleUnderway, CloseKeeps
<1>2. Settles(ClosePrompt(service))
  BY <1>1 DEF Underway, Settles
<1>3. service' = [ClosePrompt(service) EXCEPT !.out = <<>>] /\ ClosePrompt(service) \in Services
  BY <1>1 DEF Does, Underway
<1>4. service'.prompt = NoPrompt /\ service'.nextID = service.nextID
  BY <1>1, <1>3 DEF Services, Underway
<1> QED
  BY <1>1, <1>2, <1>4, DoesMoves

(* A press that fails closes the prompt.                                   *)
LEMMA CannotPressKeeps ==
  ASSUME PromptInv, CannotPress
  PROVE  PromptInv'
<1>1. PromptTypeOK /\ UNCHANGED <<codexVars, linkVars, uiVars>> /\ Does(ClosePrompt(service))
  BY DEF CannotPress, SelectionRest, PromptInv
<1>2. /\ up' \in [Channels -> Seq(Messages)]
      /\ \A d \in Channels : Items(up'[d]) \subseteq Items(up[d])
  BY ReceivesTakes DEF CannotPress
<1>3. ServiceMoves /\ service'.revision = service.revision
  BY <1>1, ClosingMoves
<1>4. PressIsChosen' /\ AnswersGoUp'
  BY <1>1, <1>3, AnswersStay DEF codexVars
<1>5. /\ hooks' \in Seq({"asks", "works"}) /\ service'.revision + Len(hooks') <= MaxRevisions
      /\ answered' \in Answers
      /\ dialog' \in [number : 0..MaxDialogs, options : Offers \cup {<<>>}]
  BY <1>1, <1>3 DEF PromptTypeOK, codexVars
<1> QED
  BY <1>1, <1>2, <1>3, <1>4, <1>5, ActKeeps

(* A press is for the button the finger was put on, unless the prompt was  *)
(* replaced, and its prompt is newer than the one answered before.         *)
LEMMA PressesKeeps ==
  ASSUME PromptInv, Presses
  PROVE  PromptInv' /\ answered'.id > answered.id
<1>1. PICK c \in Channels : /\ Receives(c) /\ MayPress(Head(up[c]))
                            /\ answered' = Pressed(Head(up[c]))
  BY DEF Presses
<1> DEFINE s == Head(up[c])
<1>2. /\ up' \in [Channels -> Seq(Messages)]
      /\ \A d \in Channels : Items(up'[d]) \subseteq Items(up[d])
      /\ s \in Messages /\ Seen(s)
  BY <1>1, ReceivesTakes
<1>3. PromptTypeOK /\ NowClosed /\ Reports("works") /\ Does(ClosePrompt(service))
      /\ UNCHANGED <<linkVars, uiVars>>
  BY DEF Presses, SelectionRest, PromptInv
<1>4. MayPress(s) /\ answered' = Pressed(s)
  BY <1>1
<1> HIDE DEF s
<1>5. service.prompt # NoPrompt /\ service.prompt.id = s.id
  BY <1>4 DEF MayPress, Accepted
<1>6. ServiceMoves /\ service'.revision = service.revision /\ service'.prompt = NoPrompt
      /\ service'.nextID = service.nextID
  BY <1>3, ClosingMoves
<1>7. answered'.id = s.id /\ PressIsChosen' /\ answered' \in Answers
  <2>1. s.finger.id = s.id => Chosen(s) = s.finger.seen /\ (Chosen(s) \in HighRisk => s.held)
    BY <1>2, <1>5 DEF Seen, Chosen
  <2>2. /\ answered'.id = s.id
        /\ answered'.replaced = (s.finger.id # s.id)
        /\ answered'.chosen = (Chosen(s) = s.finger.seen /\ (Chosen(s) \in HighRisk => s.held))
    BY <1>4 DEF Pressed
  <2>3. PressIsChosen'
    BY <2>1, <2>2, Zenon DEF PressIsChosen
  <2>4. s.id \in Nat /\ dialog.number \in 0..MaxDialogs
    BY <1>2, <1>3 DEF Messages, PromptTypeOK
  <2>5. s.held \in BOOLEAN
    BY <1>2 DEF Messages
  <2>6. answered' \in Answers
    BY <1>4, <2>4, <2>5 DEF Pressed, Answers
  <2> QED
    BY <2>2, <2>3, <2>6
<1>8. answered'.id > answered.id
  <2>1. answered.id < service.prompt.id /\ answered.id \in Nat
    BY <1>3, <1>5 DEF PromptInv, AnswersGoUp, PromptTypeOK, Answers
  <2>2. s.id \in Nat
    BY <1>2 DEF Messages
  <2> QED
    BY <1>5, <1>7, <2>1, <2>2
<1>9. PressIsChosen' /\ AnswersGoUp'
  <2>1. s.id <= service.nextID
    BY <1>2 DEF Seen
  <2> QED
    BY <1>6, <1>7, <2>1 DEF AnswersGoUp
<1>10. hooks' \in Seq({"asks", "works"}) /\ service'.revision + Len(hooks') <= MaxRevisions
  BY <1>3, <1>6, ReportKeeps
<1>11. dialog' \in [number : 0..MaxDialogs, options : Offers \cup {<<>>}]
  BY <1>3 DEF NowClosed, PromptTypeOK
<1> QED
  BY <1>2, <1>3, <1>6, <1>7, <1>8, <1>9, <1>10, <1>11, ActKeeps

(* A lost link takes along what is under way on it.                        *)
LEMMA DropKeeps ==
  ASSUME PromptInv, LinkDrops
  PROVE  PromptInv'
<1>1. PICK c \in links : /\ links' = links \ {c}
                         /\ down' = [down EXCEPT ![c] = <<>>] /\ up' = [up EXCEPT ![c] = <<>>]
  BY DEF LinkDrops
<1>2. PromptTypeOK /\ UNCHANGED <<codexVars, service, uiVars>>
      /\ drops > 0 /\ drops' = drops - 1 /\ lost' = TRUE
  BY DEF LinkDrops, PromptInv
<1>3. down \in [Channels -> Seq(Prompts)] /\ up \in [Channels -> Seq(Messages)]
      /\ c \in Channels
  BY <1>2 DEF PromptTypeOK
<1>4. PromptTypeOK'
  <2>1. down' \in [Channels -> Seq(Prompts)]
    <3>1. <<>> \in Seq(Prompts)
      OBVIOUS
    <3> QED
      BY <1>1, <1>3, <3>1
  <2>2. up' \in [Channels -> Seq(Messages)]
    <3>1. <<>> \in Seq(Messages)
      OBVIOUS
    <3> QED
      BY <1>1, <1>3, <3>1
  <2>3. links' \subseteq Channels /\ drops' \in 0..MaxDrops /\ lost' \in BOOLEAN
    <3>1. links \subseteq Channels /\ drops \in 0..MaxDrops /\ MaxDrops \in Nat
      BY <1>2 DEF PromptTypeOK
    <3>2. drops - 1 \in 0..MaxDrops
      BY <1>2, <3>1
    <3> QED BY <1>1, <1>2, <3>1, <3>2
  <2> QED
    BY <1>2, <2>1, <2>2, <2>3 DEF PromptTypeOK, codexVars, uiVars
<1>5. \A d \in Channels : Items(down'[d]) \subseteq Items(down[d])
                         /\ Items(up'[d]) \subseteq Items(up[d])
  BY <1>1, <1>3 DEF Items
<1>6. Around' \subseteq Around
  BY <1>2, <1>5 DEF Around, uiVars
<1>7. IdsIssued' /\ PromptsAgree'
  BY <1>2, <1>6 DEF PromptInv, IdsIssued, PromptsAgree
<1>8. SelectionsSeen'
  BY <1>2, <1>5 DEF PromptInv, SelectionsSeen, Seen
<1>9. PromptOwnsScreen' /\ PressIsChosen' /\ AnswersGoUp' /\ FingerSees'
  BY <1>2 DEF PromptInv, PromptOwnsScreen, PressIsChosen, AnswersGoUp, FingerSees, codexVars,
              uiVars
<1> QED
  BY <1>4, <1>7, <1>8, <1>9 DEF PromptInv

(* A prompt that finds no room is one less under way.                      *)
LEMMA OverflowsKeeps ==
  ASSUME PromptInv, Overflows
  PROVE  PromptInv'
<1>1. PICK c \in Channels : down[c] # <<>> /\ down' = [down EXCEPT ![c] = Tail(@)]
  BY DEF Overflows
<1>2. PromptTypeOK /\ UNCHANGED <<codexVars, service, links, up, uiVars>>
      /\ drops > 0 /\ drops' = drops - 1 /\ lost' = TRUE
  BY DEF Overflows, PromptInv
<1>3. down \in [Channels -> Seq(Prompts)] /\ down[c] \in Seq(Prompts)
  BY <1>2 DEF PromptTypeOK
<1>4. Tail(down[c]) \in Seq(Prompts) /\ Items(Tail(down[c])) \subseteq Items(down[c])
  BY <1>1, <1>3, QueueItems
<1>5. PromptTypeOK'
  <2>1. down' \in [Channels -> Seq(Prompts)]
    BY <1>1, <1>3, <1>4
  <2>2. drops' \in 0..MaxDrops
    BY <1>2 DEF PromptTypeOK
  <2> QED
    BY <1>2, <2>1, <2>2 DEF PromptTypeOK, codexVars, uiVars
<1>6. Around' \subseteq Around
  <2>1. \A d \in Channels : Items(down'[d]) \subseteq Items(down[d])
    BY <1>1, <1>3, <1>4
  <2> QED
    BY <1>2, <2>1 DEF Around, uiVars
<1>7. IdsIssued' /\ PromptsAgree'
  BY <1>2, <1>6 DEF PromptInv, IdsIssued, PromptsAgree
<1>8. SelectionsSeen'
  BY <1>2 DEF PromptInv, SelectionsSeen, Seen
<1>9. PromptOwnsScreen' /\ PressIsChosen' /\ AnswersGoUp' /\ FingerSees'
  BY <1>2 DEF PromptInv, PromptOwnsScreen, PressIsChosen, AnswersGoUp, FingerSees, codexVars,
              uiVars
<1> QED
  BY <1>5, <1>7, <1>8, <1>9 DEF PromptInv

(* What reaches the device is on its screen only in the Codex app.         *)
LEMMA DeliversKeeps ==
  ASSUME PromptInv, NEW c \in Channels, Delivers(c)
  PROVE  PromptInv'
<1>1. /\ down[c] # <<>> /\ down' = [down EXCEPT ![c] = Tail(@)]
      /\ pending' = Head(down[c])
      /\ shown' = IF app = "codex" THEN Head(down[c]) ELSE NoPrompt
      /\ UNCHANGED <<codexVars, service, linkVars, up, app, finger>>
  BY DEF Delivers, Projects
<1>2. PromptTypeOK /\ down \in [Channels -> Seq(Prompts)] /\ down[c] \in Seq(Prompts)
  BY DEF PromptInv, PromptTypeOK
<1>3. /\ Tail(down[c]) \in Seq(Prompts) /\ Items(Tail(down[c])) \subseteq Items(down[c])
      /\ Head(down[c]) \in Prompts /\ Head(down[c]) \in Items(down[c])
  BY <1>1, <1>2, QueueItems
<1>4. NoPrompt \in Prompts
  BY DEF Prompts
<1>5. PromptTypeOK'
  <2>1. down' \in [Channels -> Seq(Prompts)]
    BY <1>1, <1>2, <1>3
  <2>2. {pending', shown'} \subseteq Prompts
    BY <1>1, <1>3, <1>4
  <2> QED
    BY <1>1, <1>2, <2>1, <2>2 DEF PromptTypeOK, codexVars, linkVars
<1>6. Around' \subseteq Around \cup {NoPrompt}
  <2>1. \A d \in Channels : Items(down'[d]) \subseteq Items(down[d])
    BY <1>1, <1>2, <1>3
  <2>2. {pending', shown', service'.prompt} \subseteq Around \cup {NoPrompt}
    BY <1>1, <1>3 DEF Around
  <2> QED
    BY <2>1, <2>2 DEF Around
<1>7. /\ NoPrompt.id <= service.nextID
      /\ NoPrompt.id = service.prompt.id => NoPrompt = service.prompt
  <2>1. service.prompt \in Prompts /\ service.nextID \in Nat /\ NoPrompt.id = 0
    BY <1>2 DEF PromptTypeOK, NoPrompt
  <2> QED
    BY <2>1, OffersTyped
<1>8. IdsIssued' /\ PromptsAgree'
  BY <1>1, <1>6, <1>7 DEF PromptInv, IdsIssued, PromptsAgree
<1>9. SelectionsSeen' /\ PressIsChosen' /\ AnswersGoUp' /\ FingerSees'
  BY <1>1 DEF PromptInv, SelectionsSeen, Seen, PressIsChosen, AnswersGoUp, FingerSees, codexVars
<1>10. PromptOwnsScreen'
  BY <1>1 DEF PromptOwnsScreen
<1> QED
  BY <1>5, <1>8, <1>9, <1>10 DEF PromptInv

(* Touching and swiping show and send nothing new.                         *)
LEMMA TouchKeeps ==
  ASSUME PromptInv, Touches \/ Lifts \/ OpensCodex \/ LeavesCodex
  PROVE  PromptInv'
<1>1. PromptTypeOK /\ UNCHANGED <<codexVars, service, linkVars, down, up, pending>>
  BY DEF Touches, Lifts, OpensCodex, LeavesCodex, TouchRest, Moves, PromptInv
<1>2. shown' \in {shown, pending} /\ app' \in {"codex", "other"} /\ PromptOwnsScreen'
  BY <1>1 DEF Touches, Lifts, OpensCodex, LeavesCodex, TouchRest, Moves, PromptInv,
              PromptOwnsScreen, PromptTypeOK
<1>3. finger' \in Fingers /\ FingerSees'
  <2>1. CASE Touches
    <3>1. PICK i \in DOMAIN shown.options :
            finger' = [index |-> i, id |-> shown.id, seen |-> shown.options[i]]
      BY <2>1 DEF Touches
    <3>2. shown \in Prompts
      BY <1>1 DEF PromptTypeOK
    <3>3. i \in 1..2 /\ shown.options[i] \in Options /\ shown.id \in Nat \ {0}
      BY <3>2, OffersTyped
    <3>4. shown.id <= service.nextID /\ (shown.id = service.prompt.id => shown = service.prompt)
      BY DEF PromptInv, IdsIssued, PromptsAgree, Around
    <3> QED
      BY <1>1, <3>1, <3>3, <3>4 DEF FingerSees, Fingers
  <2>2. CASE Lifts \/ OpensCodex \/ LeavesCodex
    <3>1. finger' = NoFinger /\ NoFinger.id = 0
      BY <2>2 DEF Lifts, OpensCodex, LeavesCodex, Moves, NoFinger
    <3>2. service.nextID \in Nat
      BY <1>1 DEF PromptTypeOK
    <3> QED
      BY <1>1, <3>1, <3>2 DEF FingerSees, Fingers
  <2> QED
    BY <2>1, <2>2
<1>4. PromptTypeOK'
  BY <1>1, <1>2, <1>3 DEF PromptTypeOK, codexVars, linkVars
<1>5. Around' \subseteq Around
  BY <1>1, <1>2 DEF Around
<1>6. IdsIssued' /\ PromptsAgree' /\ AnswersGoUp' /\ PressIsChosen' /\ SelectionsSeen'
  BY <1>1, <1>5 DEF PromptInv, IdsIssued, PromptsAgree, AnswersGoUp, PressIsChosen,
                    SelectionsSeen, Seen, codexVars
<1> QED
  BY <1>2, <1>3, <1>4, <1>6 DEF PromptInv

(* A selection carries what the finger saw; a tap does not get past the    *)
(* hold a high-risk button asks for.                                       *)
LEMMA SelectsKeeps ==
  ASSUME PromptInv, Selects
  PROVE  PromptInv'
<1>1. PICK held \in BOOLEAN :
        /\ TakesEffect(held)
        /\ up' = [c \in Channels |-> IF c \in links THEN Append(up[c], Sent(held)) ELSE up[c]]
  BY DEF Selects
<1>2. PromptTypeOK /\ finger' = NoFinger /\ finger # NoFinger /\ finger \in Fingers
      /\ UNCHANGED <<codexVars, service, linkVars, down, app, pending, shown>>
  BY DEF Selects, TouchRest, PromptInv, PromptTypeOK
<1> DEFINE s == Sent(held)
<1>3. shown \in Prompts /\ finger.index \in DOMAIN shown.options
      /\ (shown.options[finger.index] \in HighRisk => held)
  BY <1>1, <1>2 DEF TakesEffect, PromptTypeOK
<1>4. shown.id \in Nat \ {0} /\ finger.index \in 1..2
  BY <1>3, OffersTyped
<1>5. /\ s.id = shown.id /\ s.index = finger.index /\ s.finger = finger
      /\ s.held = (held /\ finger.seen \in HighRisk) /\ s \in Messages
  BY <1>2, <1>4 DEF Sent, Messages
<1>6. Seen(s)
  <2>1. shown.id <= service.nextID /\ (shown.id = service.prompt.id => shown = service.prompt)
    BY DEF PromptInv, IdsIssued, PromptsAgree, Around
  <2>2. finger.id = service.prompt.id => finger.seen = service.prompt.options[finger.index]
    BY <1>2 DEF PromptInv, FingerSees
  <2> HIDE DEF s
  <2> QED
    BY <1>3, <1>5, <2>1, <2>2 DEF Seen
<1> HIDE DEF s
<1>7. ASSUME NEW c \in Channels
      PROVE  up'[c] \in Seq(Messages) /\ Items(up'[c]) \subseteq Items(up[c]) \cup {s}
  <2>1. up[c] \in Seq(Messages)
    BY <1>2 DEF PromptTypeOK
  <2>2. Append(up[c], s) \in Seq(Messages)
        /\ Items(Append(up[c], s)) = Items(up[c]) \cup {s}
    BY <1>5, <2>1, QueueItems
  <2>3. up'[c] \in {up[c], Append(up[c], s)}
    BY <1>1 DEF s
  <2> QED
    BY <2>1, <2>2, <2>3
<1>8. SelectionsSeen'
  <2> SUFFICES ASSUME NEW c \in Channels, NEW x \in Items(up'[c]) PROVE Seen(x)'
    BY DEF SelectionsSeen
  <2>1. Seen(x)
    BY <1>6, <1>7 DEF PromptInv, SelectionsSeen
  <2> QED
    BY <1>2, <2>1 DEF Seen
<1>9. PromptTypeOK'
  <2>1. up' \in [Channels -> Seq(Messages)]
    BY <1>1, <1>7
  <2> QED
    BY <1>2, <2>1 DEF PromptTypeOK, Fingers, codexVars, linkVars
<1>10. Around' = Around
  BY <1>2 DEF Around
<1>11. /\ IdsIssued' /\ PromptsAgree' /\ AnswersGoUp' /\ PressIsChosen'
       /\ PromptOwnsScreen'
  BY <1>2, <1>10 DEF PromptInv, IdsIssued, PromptsAgree, AnswersGoUp, PressIsChosen,
                     PromptOwnsScreen, codexVars
<1>12. FingerSees'
  <2>1. NoFinger.id = 0 /\ service.nextID \in Nat
    BY <1>2 DEF NoFinger, PromptTypeOK
  <2> QED
    BY <1>2, <2>1 DEF FingerSees
<1> QED
  BY <1>8, <1>9, <1>11, <1>12 DEF PromptInv

-----------------------------------------------------------------------------
(* Nothing is offered at first ...                                         *)
LEMMA PromptInitInv == PromptInit => PromptInv
<1> SUFFICES ASSUME PromptInit PROVE PromptInv
  OBVIOUS
<1> USE DEF PromptInit
<1>0. NoPrompt \in Prompts /\ NoPrompt.id = 0 /\ NoAnswer.id = 0 /\ NoAnswer.dialog = 0
      /\ NoAnswer.chosen = TRUE
  BY DEF Prompts, NoPrompt, NoAnswer
<1>1. PromptTypeOK
  <2>1. <<>> \in Seq({"asks", "works"}) /\ Len(<<>>) = 0 /\ <<>> \in Seq(Prompts)
        /\ <<>> \in Seq(Messages) /\ 0 \in 0..MaxRevisions /\ 0 \in 0..MaxDialogs
        /\ MaxDrops \in 0..MaxDrops /\ 0 + 0 <= MaxRevisions
    OBVIOUS
  <2>2. answered \in Answers
    BY <2>1 DEF NoAnswer, Answers
  <2>3. service \in Idlers /\ service.revision = 0
    BY <1>0, <2>1 DEF Idlers
  <2>4. dialog \in [number : 0..MaxDialogs, options : Offers \cup {<<>>}]
    BY <2>1
  <2>5. down \in [Channels -> Seq(Prompts)] /\ up \in [Channels -> Seq(Messages)]
    BY <2>1
  <2>6. hooks \in Seq({"asks", "works"}) /\ service.revision + Len(hooks) <= MaxRevisions
    BY <2>1, <2>3
  <2>7. links \subseteq Channels /\ lost \in BOOLEAN /\ drops \in 0..MaxDrops
    BY <2>1
  <2>8. app \in {"codex", "other"} /\ finger \in Fingers
    BY DEF Fingers
  <2>9. {pending, shown} \subseteq Prompts
    BY <1>0
  <2> HIDE DEF PromptInit
  <2> QED
    BY <2>2, <2>3, <2>4, <2>5, <2>6, <2>7, <2>8, <2>9 DEF PromptTypeOK, Idlers
<1>2. Around = {NoPrompt} /\ service.prompt = NoPrompt /\ service.nextID = 0
  BY DEF Around, Items
<1>3. IdsIssued /\ PromptsAgree
  BY <1>0, <1>2 DEF IdsIssued, PromptsAgree
<1>4. PressIsChosen /\ PromptOwnsScreen /\ AnswersGoUp
  BY <1>0, <1>2 DEF PressIsChosen, PromptOwnsScreen, AnswersGoUp
<1>5. SelectionsSeen
  BY DEF SelectionsSeen, Items
<1>6. FingerSees
  BY <1>2 DEF FingerSees, NoFinger
<1> QED
  BY <1>1, <1>3, <1>4, <1>5, <1>6 DEF PromptInv

(* ... every step keeps the invariant, and an answer that changes goes up  *)
(* ...                                                                     *)
LEMMA PromptStepInv ==
  PromptInv /\ [PromptNext]_promptVars =>
    PromptInv' /\ (answered' # answered => answered'.id > answered.id)
<1> SUFFICES ASSUME PromptInv, [PromptNext]_promptVars
             PROVE  PromptInv' /\ (answered' # answered => answered'.id > answered.id)
  OBVIOUS
<1>1. CASE Asks \/ UserAnswers
  BY <1>1, CodexKeeps DEF Asks, UserAnswers
<1>2. CASE Tick
  BY <1>2, TickKeeps DEF Tick
<1>3. CASE PollRollout
  BY <1>3, RolloutKeeps DEF PollRollout, codexVars
<1>4. CASE Expires
  BY <1>4, ExpiresKeeps DEF Expires, codexVars
<1>5. CASE Ignores
  BY <1>5, IgnoresKeeps DEF Ignores, codexVars
<1>6. CASE Presses
  BY <1>6, PressesKeeps
<1>7. CASE CannotPress
  BY <1>7, CannotPressKeeps DEF CannotPress, codexVars
<1>8. CASE LinkDrops
  BY <1>8, DropKeeps DEF LinkDrops, codexVars
<1>9. CASE \E c \in Channels : Delivers(c)
  BY <1>9, DeliversKeeps DEF Delivers, codexVars
<1>10. CASE Touches \/ Lifts \/ OpensCodex \/ LeavesCodex
  BY <1>10, TouchKeeps DEF Touches, Lifts, OpensCodex, LeavesCodex, TouchRest, Moves, codexVars
<1>11. CASE Selects
  BY <1>11, SelectsKeeps DEF Selects, TouchRest, codexVars
<1>12. CASE UNCHANGED promptVars
  BY <1>12 DEF promptVars, codexVars, linkVars, uiVars, PromptInv, PromptTypeOK,
               PromptOwnsScreen, PressIsChosen, IdsIssued, PromptsAgree, Around, AnswersGoUp,
               FingerSees, SelectionsSeen, Seen
<1>13. CASE Overflows
  BY <1>13, OverflowsKeeps DEF Overflows, codexVars
<1> QED
  BY <1>1, <1>2, <1>3, <1>4, <1>5, <1>6, <1>7, <1>8, <1>9, <1>10, <1>11, <1>12, <1>13
     DEF PromptNext, Selection

(* ... so it always holds.                                                 *)
LEMMA PromptInvariant == PromptSpec => []PromptInv
<1>1. PromptInv /\ [PromptNext]_promptVars => PromptInv'
  BY PromptStepInv
<1> QED
  BY <1>1, PromptInitInv, PTL DEF PromptSpec

(* Every variable keeps its type: the device never shows a prompt without  *)
(* buttons, and nothing stays unsent between two steps of the service.     *)
THEOREM PromptTypesKept == PromptSpec => []PromptTypeOK
<1>1. PromptInv => PromptTypeOK
  BY DEF PromptInv
<1> QED
  BY <1>1, PromptInvariant, PTL

(* The button the service presses in the dialog of Codex is the one the    *)
(* finger was put on, and a high-risk one was held, whatever was lost,     *)
(* mirrored or late in between, unless another prompt replaced the one     *)
(* under the finger (CompanionService.swift:695-716, device_ui.c:213-224). *)
THEOREM PressAlwaysChosen == PromptSpec => []PressIsChosen
<1>1. PromptInv => PressIsChosen
  BY DEF PromptInv
<1> QED
  BY <1>1, PromptInvariant, PTL

(* A prompt locks the screen of the device only in the Codex app and only  *)
(* while it is pending (device_ui.c:1900-1930).                            *)
THEOREM PromptAlwaysOwnsScreen == PromptSpec => []PromptOwnsScreen
<1>1. PromptInv => PromptOwnsScreen
  BY DEF PromptInv
<1> QED
  BY <1>1, PromptInvariant, PTL

(* A prompt answers at most one dialog: the second copy of a selection     *)
(* finds the prompt closed, and the next dialog has a new number           *)
(* (CompanionService.swift:699-716).                                       *)
THEOREM AlwaysAnsweredOnce == PromptSpec => AnsweredOnce
<1>1. PromptInv /\ [PromptNext]_promptVars =>
        [answered' # answered => answered'.id > answered.id]_promptVars
  BY PromptStepInv
<1> QED
  BY <1>1, PromptInvariant, PTL DEF PromptSpec, AnsweredOnce
=============================================================================
