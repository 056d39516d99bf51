-------------------------- MODULE BlePairingProofs --------------------------
(***************************************************************************)
(* For any number of retries and faults: a key the device holds is never   *)
(* replaced by another one, and a Mac that calls the device connected over *)
(* a link that is up has its key there and both its subscriptions, unless  *)
(* the pairing was reset under that link.                                  *)
(*                                                                         *)
(* The argument for the second: an attempt is at one of five stages, told  *)
(* apart by who is connected, what CoreBluetooth still works on and what   *)
(* waits for the main actor (CallInv).  A link that is lost leaves its     *)
(* disconnection at the end of the queue, and no new attempt begins before *)
(* the queue is empty; so nothing that an old link reported can be counted *)
(* for a new one, and while a link is up every report that is counted, or  *)
(* still waits, is true of it (Linked), until a reset of the pairing makes  *)
(* it history.                                                             *)
(***************************************************************************)
EXTENDS BlePairing, TLAPS

(* Flash, memory and the write under way never hold two different keys,    *)
(* except that a host which nobody remembers may have left its key in      *)
(* flash.                                                                  *)
KeysAgree ==
  /\ key # "None" => flash.key \in {key, "None"}
  /\ gatt.step # "idle" => gatt.host # "None" /\ key \in {"None", gatt.host}
  /\ gatt.step \in {"name", "publish"} => flash.key \in {gatt.host, "None"}

StorageOK ==
  /\ flash \in [key : Keys, name : Keys]
  /\ gatt \in [step : {"idle", "key", "name", "publish"}, host : Keys]

(* What is neither flash, memory, the write nor the power keeps the keys.  *)
LEMMA KeysRest ==
  ASSUME StorageOK, KeysAgree, UNCHANGED <<flash, key, gatt>>
  PROVE  StorageOK' /\ KeysAgree'
  BY DEF StorageOK, KeysAgree

(* Every step keeps the keys in agreement and replaces none.               *)
LEMMA KeysKept ==
  ASSUME StorageOK, KeysAgree, [Next]_vars
  PROVE  StorageOK' /\ KeysAgree' /\ (key # "None" => key' \in {key, "None"})
<1> USE DEF StorageOK, KeysAgree, Keys, Hosts, flashVars, Idle
<1>1. CASE \/ LinkLost \/ Encrypts \/ OtherConnects \/ OtherLeaves \/ WriteUnencrypted
           \/ WriteRefused \/ RadioStep \/ CannotConnect \/ UNCHANGED vars
  BY <1>1, KeysRest DEF LinkLost, Encrypts, OtherConnects, OtherLeaves, WriteUnencrypted,
       WriteRefused, GattRest, RadioStep, Subscribes, Discovers, Connects, CannotConnect, vars
<1>2. CASE Finds \/ MacStep \/ RetryDue \/ RescanDue \/ Reconnect
  BY <1>2, KeysRest DEF Finds, MacStep, RetryDue, RescanDue, Reconnect, MacRest,
       HandlesConnected, HandlesCharacteristics, HandlesFailure, HandlesSubscribed,
       HandlesKeyTaken, HandlesInsecure, GivesUp, HandlesDisconnected, HandlesCannotConnect
<1>3. CASE PowerCut
  BY <1>3 DEF PowerCut
<1>4. CASE WriteTaken
  BY <1>4 DEF WriteTaken, GattRest
<1>5. CASE SavesKey
  BY <1>5 DEF SavesKey, SaveRest
<1>6. CASE SavesName
  BY <1>6 DEF SavesName, SaveRest
<1>7. CASE SaveFails \/ Publishes
  BY <1>7 DEF SaveFails, Publishes, Done, SaveRest
<1>8. CASE Erases
  BY <1>8 DEF Erases
<1>9. CASE Forgets
  BY <1>9 DEF Forgets
<1>10. CASE Terminates \/ LinkEnds
  BY <1>10, KeysRest DEF Terminates, LinkEnds
<1> QED
  BY <1>1, <1>2, <1>3, <1>4, <1>5, <1>6, <1>7, <1>8, <1>9, <1>10 DEF Next, GattStep

(* A key is replaced only by way of none, whatever is cut off, fails or    *)
(* runs in between, for any number of retries and faults.                  *)
THEOREM NeverReplaced == Spec => SecretNeverReplaced
<1>1. Init => StorageOK /\ KeysAgree
  BY DEF Init, StorageOK, KeysAgree, Keys, Hosts, Idle
<1>2. StorageOK /\ KeysAgree /\ [Next]_vars => (StorageOK /\ KeysAgree)'
  BY KeysKept
<1>3. StorageOK /\ KeysAgree /\ [Next]_vars => [key # "None" => key' \in {key, "None"}]_vars
  BY KeysKept
<1> QED
  BY <1>1, <1>2, <1>3, PTL DEF Spec, SecretNeverReplaced

-----------------------------------------------------------------------------
(* What waits for the main actor.                                          *)
Reported == {"Connected", "Characteristics", "DiscoveryFailed", "CannotConnect", "Disconnected",
             "control", "audio", "KeyInsecure", "KeyRefused", "KeyFailed", "KeyTaken"}

TasksOK == tasks \in Seq(Reported)

(* A step posts one task, takes one, takes one and posts another, or does  *)
(* nothing to the queue.                                                   *)
LEMMA QueueMoves ==
  ASSUME [Next]_vars
  PROVE  \/ UNCHANGED tasks
         \/ \E kind \in Reported : Post(kind)
         \/ \E kind \in Reported : Takes(kind)
         \/ GivesUp
<1> USE DEF Reported
<1>1. CASE LinkLost \/ PowerCut \/ OtherLeaves \/ LinkEnds \/ Reconnect
  BY <1>1 DEF LinkLost, PowerCut, OtherLeaves, LinkEnds, Reconnect, Drops
<1>2. CASE Encrypts \/ OtherConnects \/ Erases \/ Forgets \/ Terminates
  BY <1>2 DEF Encrypts, OtherConnects, Erases, Forgets, Terminates
<1>3. CASE GattStep \/ SaveFails
  BY <1>3 DEF GattStep, WriteUnencrypted, WriteRefused, WriteTaken, SavesKey, SavesName,
              Publishes, SaveFails, Done, Answer
<1>4. CASE RadioStep \/ CannotConnect
  BY <1>4 DEF RadioStep, Subscribes, Discovers, Connects, CannotConnect
<1>5. CASE Finds \/ RetryDue \/ RescanDue \/ UNCHANGED vars
  BY <1>5 DEF Finds, RetryDue, RescanDue, vars
<1>6. CASE MacStep
  BY <1>6 DEF MacStep, HandlesConnected, HandlesCharacteristics, HandlesFailure,
       HandlesSubscribed, HandlesKeyTaken, HandlesInsecure, HandlesDisconnected,
       HandlesCannotConnect
<1> QED
  BY <1>1, <1>2, <1>3, <1>4, <1>5, <1>6 DEF Next

(* What the queue holds after a task was posted.                           *)
LEMMA Posted ==
  ASSUME TasksOK, NEW kind \in Reported, Post(kind)
  PROVE  /\ TasksOK' /\ Len(tasks') = Len(tasks) + 1 /\ Len(tasks) \in Nat
         /\ \A i \in 1..Len(tasks) : tasks'[i] = tasks[i]
         /\ tasks'[Len(tasks) + 1] = kind
  BY DEF TasksOK, Post

(* What it holds after its head was taken.                                 *)
LEMMA Taken ==
  ASSUME TasksOK, NEW kind \in Reported, Takes(kind)
  PROVE  /\ TasksOK' /\ Len(tasks') = Len(tasks) - 1 /\ Len(tasks) \in Nat \ {0}
         /\ tasks[1] = kind
         /\ \A i \in 1..Len(tasks') : tasks'[i] = tasks[i + 1]
  BY DEF TasksOK, Takes

(* The queue is typed.                                                     *)
LEMMA QueueTyped ==
  ASSUME TasksOK, [Next]_vars
  PROVE  TasksOK'
<1>1. CASE GivesUp
  <2>1. Tail(tasks) \in Seq(Reported)
    BY <1>1 DEF GivesUp, TasksOK
  <2>2. "Disconnected" \in Reported
    BY DEF Reported
  <2> QED
    BY <1>1, <2>1, <2>2 DEF GivesUp, TasksOK
<1>2. CASE UNCHANGED tasks
  BY <1>2 DEF TasksOK
<1> QED
  BY <1>1, <1>2, Posted, Taken, QueueMoves

(* The types of what the device has in memory, and of what the Mac has.    *)
DeviceOK ==
  /\ key \in Keys /\ name \in Keys
  /\ peer \in Keys /\ encrypted \in BOOLEAN /\ subs \subseteq {"control", "audio"}
  /\ ending \in BOOLEAN /\ unpaired \in BOOLEAN
  /\ reset \in {"idle", "erased", "forgotten"}

MacOK ==
  /\ state \in {"scanning", "connecting", "connected", "failed"}
  /\ target \in BOOLEAN /\ ready \subseteq {"control", "audio", "key"}
  /\ retries \in 0..MaxRetries /\ timers \subseteq {"retry", "rescan"}
  /\ asked \subseteq {"connect", "gatt", "control", "audio", "key"}
  /\ faults \in 0..MaxFaults

(* Every step keeps the types of the device.                               *)
LEMMA DeviceTyped ==
  ASSUME StorageOK, DeviceOK, [Next]_vars
  PROVE  DeviceOK'
<1> USE DEF DeviceOK, Keys, Hosts, Released
<1>0. flash.key \in Keys /\ flash.name \in Keys /\ gatt.host \in Keys
  BY DEF StorageOK
<1>1. CASE LinkLost
  BY <1>1 DEF LinkLost, Drops, flashVars, centralVars
<1>2. CASE PowerCut
  BY <1>0, <1>2 DEF PowerCut, Drops, centralVars
<1>3. CASE Encrypts
  BY <1>3 DEF Encrypts, flashVars, centralVars
<1>4. CASE OtherConnects
  BY <1>4 DEF OtherConnects, flashVars, centralVars
<1>5. CASE OtherLeaves
  BY <1>5 DEF OtherLeaves, Drops, flashVars, centralVars
<1>6. CASE WriteUnencrypted \/ WriteRefused
  BY <1>6 DEF WriteUnencrypted, WriteRefused, GattRest, flashVars, linkVars, centralVars
<1>7. CASE WriteTaken
  BY <1>7 DEF WriteTaken, GattRest, flashVars, linkVars, centralVars
<1>8. CASE SavesKey \/ SavesName
  BY <1>8 DEF SavesKey, SavesName, SaveRest, linkVars, centralVars
<1>9. CASE SaveFails
  BY <1>9 DEF SaveFails, SaveRest, Done, linkVars, centralVars
<1>10. CASE Publishes
  BY <1>0, <1>10 DEF Publishes, Done, linkVars, centralVars
<1>11. CASE Subscribes
  BY <1>11 DEF Subscribes, flashVars, centralVars
<1>12. CASE Discovers \/ Connects \/ CannotConnect
  BY <1>12 DEF Discovers, Connects, CannotConnect, flashVars, linkVars, centralVars
<1>13. CASE Erases
  BY <1>13 DEF Erases, linkVars, centralVars
<1>14. CASE Forgets
  BY <1>14 DEF Forgets, centralVars
<1>15. CASE Finds \/ RetryDue \/ RescanDue
  BY <1>15 DEF Finds, RetryDue, RescanDue, LinkRest, MacRest, flashVars, linkVars
<1>16. CASE HandlesConnected \/ HandlesCharacteristics \/ HandlesFailure
  BY <1>16 DEF HandlesConnected, HandlesCharacteristics, HandlesFailure, LinkRest,
               MacRest, flashVars, linkVars, centralVars
<1>17. CASE HandlesSubscribed \/ HandlesKeyTaken \/ HandlesInsecure
  BY <1>17 DEF HandlesSubscribed, HandlesKeyTaken, HandlesInsecure, Becomes, LinkRest,
               MacRest, flashVars, linkVars
<1>18. CASE GivesUp
  BY <1>18 DEF GivesUp, MacRest, flashVars
<1>19. CASE HandlesDisconnected \/ HandlesCannotConnect
  BY <1>19 DEF HandlesDisconnected, HandlesCannotConnect, LinkRest, MacRest,
               flashVars, linkVars
<1>20. CASE Reconnect
  BY <1>20 DEF Reconnect, Drops, flashVars, centralVars
<1>21. CASE UNCHANGED vars
  BY <1>21 DEF vars, flashVars, linkVars, centralVars
<1>22. CASE Terminates
  BY <1>22 DEF Terminates, flashVars, centralVars
<1>23. CASE LinkEnds
  BY <1>23 DEF LinkEnds, Drops, flashVars, centralVars
<1> QED
  BY <1>1, <1>2, <1>3, <1>4, <1>5, <1>6, <1>7, <1>8, <1>9, <1>10, <1>11, <1>12, <1>13,
     <1>14, <1>15, <1>16, <1>17, <1>18, <1>19, <1>20, <1>21, <1>22, <1>23
  DEF Next, GattStep, RadioStep, MacStep

(* Every step keeps the types of the Mac.                                  *)
LEMMA MacTyped ==
  ASSUME MacOK, [Next]_vars
  PROVE  MacOK'
<1> USE RetriesAssumption DEF MacOK, Fault
<1>1. CASE LinkLost
  BY <1>1 DEF LinkLost, Drops, flashVars, centralVars
<1>2. CASE PowerCut
  BY <1>2 DEF PowerCut, Drops, centralVars
<1>3. CASE Encrypts
  BY <1>3 DEF Encrypts, flashVars, centralVars
<1>4. CASE OtherConnects
  BY <1>4 DEF OtherConnects, flashVars, centralVars
<1>5. CASE OtherLeaves
  BY <1>5 DEF OtherLeaves, Drops, flashVars, centralVars
<1>6. CASE WriteUnencrypted \/ WriteRefused
  BY <1>6 DEF WriteUnencrypted, WriteRefused, GattRest, flashVars, linkVars, centralVars
<1>7. CASE WriteTaken
  BY <1>7 DEF WriteTaken, GattRest, flashVars, linkVars, centralVars
<1>8. CASE SavesKey \/ SavesName
  BY <1>8 DEF SavesKey, SavesName, SaveRest, linkVars, centralVars
<1>9. CASE SaveFails
  BY <1>9 DEF SaveFails, SaveRest, Done, linkVars, centralVars
<1>10. CASE Publishes
  BY <1>10 DEF Publishes, Done, linkVars, centralVars
<1>11. CASE Subscribes
  BY <1>11 DEF Subscribes, flashVars, centralVars
<1>12. CASE Discovers
  <2>1. UNCHANGED centralVars /\ asked' = asked \ {"gatt"} /\ (UNCHANGED faults \/ Fault)
    BY <1>12 DEF Discovers
  <2> QED
    BY <2>1 DEF centralVars
<1>13. CASE Connects \/ CannotConnect
  <2>1. UNCHANGED centralVars /\ asked' = asked \ {"connect"} /\ (UNCHANGED faults \/ Fault)
    BY <1>13 DEF Connects, CannotConnect
  <2> QED
    BY <2>1 DEF centralVars
<1>14. CASE Erases \/ Forgets \/ Terminates \/ UNCHANGED vars
  BY <1>14 DEF Erases, Forgets, Terminates, vars, linkVars, centralVars
<1>15. CASE LinkEnds \/ Reconnect
  <2>1. UNCHANGED centralVars /\ asked' = {} /\ (UNCHANGED faults \/ Fault)
    BY <1>15 DEF LinkEnds, Reconnect, Drops
  <2> QED
    BY <2>1 DEF centralVars
<1>16. CASE Finds
  BY <1>16 DEF Finds, LinkRest, MacRest
<1>17. CASE RetryDue
  BY <1>17 DEF RetryDue, LinkRest, MacRest
<1>18. CASE RescanDue
  BY <1>18 DEF RescanDue, LinkRest, MacRest
<1>19. CASE HandlesConnected
  BY <1>19 DEF HandlesConnected, LinkRest, MacRest, centralVars
<1>20. CASE HandlesCharacteristics
  BY <1>20 DEF HandlesCharacteristics, LinkRest, MacRest
<1>21. CASE HandlesFailure
  BY <1>21 DEF HandlesFailure, LinkRest, MacRest
<1>22. CASE HandlesSubscribed
  BY <1>22 DEF HandlesSubscribed, Becomes, LinkRest, MacRest
<1>23. CASE HandlesKeyTaken
  BY <1>23 DEF HandlesKeyTaken, Becomes, LinkRest, MacRest
<1>24. CASE HandlesInsecure
  BY <1>24 DEF HandlesInsecure, LinkRest, MacRest
<1>25. CASE GivesUp
  BY <1>25 DEF GivesUp, MacRest
<1>26. CASE HandlesDisconnected
  <2>1. timers' = timers \ {"retry"} /\ UNCHANGED <<asked, faults>>
    BY <1>26 DEF HandlesDisconnected, MacRest
  <2>2. CASE target
    <3>1. ready' = {} /\ retries' = 0 /\ target' = FALSE /\ state' = "scanning"
      BY <1>26, <2>2 DEF HandlesDisconnected
    <3>2. 0 \in 0..MaxRetries
      OBVIOUS
    <3> QED
      BY <2>1, <3>1, <3>2
  <2>3. CASE ~target
    BY <1>26, <2>1, <2>3 DEF HandlesDisconnected
  <2> QED
    BY <2>2, <2>3
<1>27. CASE HandlesCannotConnect
  BY <1>27 DEF HandlesCannotConnect, LinkRest, MacRest
<1> QED
  BY <1>1, <1>2, <1>3, <1>4, <1>5, <1>6, <1>7, <1>8, <1>9, <1>10, <1>11, <1>12, <1>13,
     <1>14, <1>15, <1>16, <1>17, <1>18, <1>19, <1>20, <1>21, <1>22, <1>23, <1>24, <1>25,
     <1>26, <1>27
  DEF Next, GattStep, RadioStep, MacStep

Typed == StorageOK /\ KeysAgree /\ DeviceOK /\ MacOK /\ TasksOK

(* Every step keeps all types.                                             *)
LEMMA TypedInvariant == Spec => []Typed
<1>1. Init => Typed
  <2>0. Init => StorageOK /\ KeysAgree
    BY DEF Init, StorageOK, KeysAgree, Keys, Hosts, Idle
  <2>1. Init => DeviceOK
    BY DEF Init, DeviceOK, Keys, Hosts
  <2>2. ASSUME Init PROVE MacOK
    <3>1. /\ state = "scanning" /\ target = FALSE /\ ready = {} /\ timers = {} /\ asked = {}
          /\ retries = 0 /\ faults = MaxFaults
      BY <2>2 DEF Init
    <3>2. 0 \in 0..MaxRetries /\ MaxFaults \in 0..MaxFaults
      BY RetriesAssumption
    <3> QED
      BY <3>1, <3>2 DEF MacOK
  <2>3. Init => TasksOK
    BY DEF Init, TasksOK
  <2> QED
    BY <2>0, <2>1, <2>2, <2>3 DEF Typed
<1>2. Typed /\ [Next]_vars => Typed'
  BY KeysKept, DeviceTyped, MacTyped, QueueTyped DEF Typed
<1> QED
  BY <1>1, <1>2, PTL DEF Spec

(* Every variable of device, link and Mac keeps its type, and the retries  *)
(* and faults their bounds (ble_transport.c, CompanionBLECentral.swift).   *)
THEOREM PairingTypesKept == Spec => []PairingTypeOK
<1>1. Typed => PairingTypeOK
  BY DEF Typed, StorageOK, DeviceOK, MacOK, PairingTypeOK
<1> QED
  BY <1>1, TypedInvariant, PTL

-----------------------------------------------------------------------------
(* The stages of an attempt to connect.                                    *)
Queued(kind) == \E i \in DOMAIN tasks : tasks[i] = kind
Alone == peer # "Mac" /\ asked = {}

(* Nothing is under way; of an old link only its end may still be queued.  *)
Waiting ==
  /\ Alone /\ ~target /\ "rescan" \notin timers /\ ready = {} /\ state = "scanning"
  /\ \A i \in DOMAIN tasks : tasks[i] = "Disconnected"

Calling ==
  /\ peer # "Mac" /\ asked = {"connect"} /\ tasks = <<>>
  /\ target /\ "rescan" \notin timers /\ ready = {} /\ state = "connecting"

(* The call failed: its task or its timer will look for the device again.  *)
Refused ==
  /\ Alone /\ target /\ ready = {} /\ state # "connected"
  /\ \/ tasks = <<"CannotConnect">> /\ "rescan" \notin timers
     \/ tasks = <<>>

(* The link went, and its end is the last thing it reported.               *)
Lost ==
  /\ Alone /\ target /\ "rescan" \notin timers
  /\ Queued("Disconnected") /\ ~Queued("CannotConnect")
  /\ \A i, j \in DOMAIN tasks :
       i < j /\ tasks[i] = "Disconnected" => tasks[j] = "Disconnected"

(* What is counted or reported of the link is true of it, unless a reset   *)
(* has forgotten it since.                                                 *)
Truthful ==
  unpaired \/
    /\ \A what \in {"control", "audio"} : what \in ready \/ Queued(what) => what \in subs
    /\ "key" \in ready \/ Queued("KeyTaken") => key = "Mac"

Linked ==
  /\ peer = "Mac" /\ "connect" \notin asked /\ target /\ "rescan" \notin timers
  /\ ~Queued("Disconnected") /\ ~Queued("CannotConnect")
  /\ gatt.step # "idle" => gatt.host = "Mac"
  /\ Truthful

CallInv ==
  /\ Waiting \/ Calling \/ Refused \/ Lost \/ Linked
  /\ state = "connected" => ready = {"control", "audio", "key"}

-----------------------------------------------------------------------------
(* What a task that is posted, or taken, means for those that are queued.  *)
LEMMA PostedQueued ==
  ASSUME TasksOK, NEW kind \in Reported, Post(kind)
  PROVE  \A k : Queued(k)' <=> Queued(k) \/ k = kind
<1>1. /\ DOMAIN tasks = 1..Len(tasks) /\ DOMAIN tasks' = 1..Len(tasks) + 1 /\ Len(tasks) \in Nat
      /\ \A i \in 1..Len(tasks) : tasks'[i] = tasks[i]
      /\ tasks'[Len(tasks) + 1] = kind
  BY Posted DEF TasksOK
<1> SUFFICES ASSUME NEW k PROVE Queued(k)' <=> Queued(k) \/ k = kind
  OBVIOUS
<1>2. ASSUME Queued(k)' PROVE Queued(k) \/ k = kind
  <2>1. PICK i \in 1..Len(tasks) + 1 : tasks'[i] = k
    BY <1>1, <1>2 DEF Queued
  <2>2. CASE i \in 1..Len(tasks)
    BY <1>1, <2>1, <2>2 DEF Queued
  <2>3. CASE i = Len(tasks) + 1
    BY <1>1, <2>1, <2>3
  <2> QED
    BY <1>1, <2>2, <2>3
<1>3. ASSUME Queued(k) PROVE Queued(k)'
  <2>1. PICK i \in 1..Len(tasks) : tasks[i] = k
    BY <1>1, <1>3 DEF Queued
  <2>2. i \in 1..Len(tasks) + 1 /\ tasks'[i] = k
    BY <1>1, <2>1
  <2> QED
    BY <1>1, <2>2 DEF Queued
<1>4. Queued(kind)'
  <2>1. Len(tasks) + 1 \in 1..Len(tasks) + 1
    BY <1>1
  <2> QED
    BY <1>1, <2>1 DEF Queued
<1> QED
  BY <1>2, <1>3, <1>4

(* The same for a task that is taken.                                      *)
LEMMA TakenQueued ==
  ASSUME TasksOK, NEW kind \in Reported, Takes(kind)
  PROVE  /\ Queued(kind)
         /\ \A k : Queued(k)' => Queued(k)
         /\ \A k : Queued(k) /\ k # kind => Queued(k)'
<1>1. /\ DOMAIN tasks = 1..Len(tasks) /\ DOMAIN tasks' = 1..Len(tasks')
      /\ Len(tasks') = Len(tasks) - 1 /\ Len(tasks) \in Nat \ {0}
      /\ tasks[1] = kind
      /\ \A i \in 1..Len(tasks') : tasks'[i] = tasks[i + 1]
  BY Taken DEF TasksOK
<1>2. Queued(kind)
  <2>1. 1 \in 1..Len(tasks)
    BY <1>1
  <2> QED
    BY <1>1, <2>1 DEF Queued
<1>3. ASSUME NEW k, Queued(k)' PROVE Queued(k)
  <2>1. PICK i \in 1..Len(tasks') : tasks'[i] = k
    BY <1>1, <1>3 DEF Queued
  <2>2. i + 1 \in 1..Len(tasks) /\ tasks[i + 1] = k
    BY <1>1, <2>1
  <2> QED
    BY <1>1, <2>2 DEF Queued
<1>4. ASSUME NEW k, Queued(k), k # kind PROVE Queued(k)'
  <2>1. PICK i \in 1..Len(tasks) : tasks[i] = k
    BY <1>1, <1>4 DEF Queued
  <2>2. i # 1
    BY <1>1, <1>4, <2>1
  <2>3. i - 1 \in 1..Len(tasks')
    BY <1>1, <2>1, <2>2
  <2>4. tasks'[i - 1] = tasks[(i - 1) + 1] /\ (i - 1) + 1 = i
    BY <1>1, <2>1, <2>3
  <2> QED
    BY <1>1, <2>1, <2>3, <2>4 DEF Queued
<1> QED
  BY <1>2, <1>3, <1>4

-----------------------------------------------------------------------------
(* A step that touches nothing an attempt depends on.                      *)
LEMMA QuietKeeps ==
  ASSUME CallInv, UNCHANGED <<peer, subs, unpaired, key, asked, tasks, centralVars>>,
         peer = "Mac" /\ (gatt.step # "idle" => gatt.host = "Mac") =>
           (gatt'.step # "idle" => gatt'.host = "Mac")
  PROVE  CallInv'
<1> USE DEF CallInv, centralVars
<1>1. Waiting => Waiting'
  BY DEF Waiting, Alone
<1>2. Calling => Calling'
  BY DEF Calling
<1>3. Refused => Refused'
  BY DEF Refused, Alone
<1>4. Lost => Lost'
  BY DEF Lost, Alone, Queued
<1>5. Linked => Linked'
  BY DEF Linked, Truthful, Queued
<1> QED
  BY <1>1, <1>2, <1>3, <1>4, <1>5

(* A reset forgets the key and the subscriptions: on a link that is up the *)
(* reports become history.                                                 *)
LEMMA ForgetsKeeps ==
  ASSUME CallInv, Forgets
  PROVE  CallInv'
<1> USE DEF CallInv
<1>0. UNCHANGED <<peer, gatt, asked, tasks, centralVars>> /\ unpaired' = (peer # "None")
  BY DEF Forgets
<1> USE DEF centralVars
<1>1. Waiting => Waiting'
  BY <1>0 DEF Waiting, Alone
<1>2. Calling => Calling'
  BY <1>0 DEF Calling
<1>3. Refused => Refused'
  BY <1>0 DEF Refused, Alone
<1>4. Lost => Lost'
  BY <1>0 DEF Lost, Alone, Queued
<1>5. Linked => Linked'
  BY <1>0 DEF Linked, Truthful, Queued
<1> QED
  BY <1>0, <1>1, <1>2, <1>3, <1>4, <1>5

(* Another host connects.                                                  *)
LEMMA OtherKeeps ==
  ASSUME CallInv, OtherConnects
  PROVE  CallInv'
<1> USE DEF CallInv, centralVars, OtherConnects
<1>1. ~Calling /\ ~Linked
  BY DEF Calling, Linked
<1>2. Waiting => Waiting'
  BY DEF Waiting, Alone
<1>3. Refused => Refused'
  BY DEF Refused, Alone
<1>4. Lost => Lost'
  BY DEF Lost, Alone, Queued
<1> QED
  BY <1>1, <1>2, <1>3, <1>4

(* The link, or what was asked for, is dropped: the end of an attempt that *)
(* was called or linked is queued.                                         *)
LEMMA DropsKeep ==
  ASSUME CallInv, TasksOK, Drops, UNCHANGED centralVars
  PROVE  CallInv'
<1> USE DEF CallInv, centralVars
<1>1. peer' # "Mac" /\ asked' = {}
  BY DEF Drops, Released
<1>2. ASSUME Waiting \/ Refused \/ Lost PROVE UNCHANGED tasks
  BY <1>2 DEF Drops, Waiting, Refused, Lost, Alone
<1>3. Waiting => Waiting'
  BY <1>1, <1>2 DEF Waiting, Alone
<1>4. Refused => Refused'
  BY <1>1, <1>2 DEF Refused, Alone
<1>5. Lost => Lost'
  BY <1>1, <1>2 DEF Lost, Alone, Queued
<1>6. ASSUME Calling \/ Linked PROVE Lost'
  <2>1. Post("Disconnected") /\ "Disconnected" \in Reported
    BY <1>6 DEF Drops, Calling, Linked, Reported
  <2>2. \A k : Queued(k)' <=> Queued(k) \/ k = "Disconnected"
    BY <2>1, PostedQueued
  <2>3. ~Queued("Disconnected") /\ ~Queued("CannotConnect") /\ target /\ "rescan" \notin timers
    BY <1>6 DEF Calling, Linked, Queued
  <2>4. Queued("Disconnected")' /\ ~Queued("CannotConnect")'
    BY <2>2, <2>3
  <2>5. \A i \in 1..Len(tasks) : tasks'[i] # "Disconnected"
    BY <2>1, <2>3, Posted DEF Queued, TasksOK
  <2>6. DOMAIN tasks' = 1..Len(tasks) + 1 /\ Len(tasks) \in Nat
    BY <2>1, Posted DEF TasksOK
  <2>7. ASSUME NEW i \in DOMAIN tasks', NEW j \in DOMAIN tasks', i < j,
               tasks'[i] = "Disconnected"
        PROVE  FALSE
    <3>1. i \in 1..Len(tasks)
      BY <2>6, <2>7
    <3> QED
      BY <2>5, <2>7, <3>1
  <2> QED
    BY <1>1, <2>3, <2>4, <2>7 DEF Lost, Alone
<1> QED
  BY <1>3, <1>4, <1>5, <1>6

(* A provisioning write ends: its answer is heard only on the link of the  *)
(* Mac, and says that the key was taken only when the key of the Mac is    *)
(* there.                                                                  *)
LEMMA AnswerKeeps ==
  ASSUME CallInv, TasksOK, NEW kind \in {"KeyInsecure", "KeyRefused", "KeyFailed", "KeyTaken"},
         Answer(kind), asked' = asked \ {"key"}, UNCHANGED <<peer, subs, unpaired, centralVars>>,
         gatt' \in {gatt, Idle},
         peer = "Mac" => key' = key \/ key' = "Mac",
         peer = "Mac" /\ Linked /\ kind = "KeyTaken" => key' = "Mac"
  PROVE  CallInv'
<1> USE DEF CallInv, centralVars
<1>1. CASE peer # "Mac"
  <2>1. UNCHANGED tasks /\ ~Linked
    BY <1>1 DEF Answer, Linked
  <2>2. Waiting => Waiting'
    BY <1>1, <2>1 DEF Waiting, Alone
  <2>3. Calling => Calling'
    BY <1>1, <2>1 DEF Calling
  <2>4. Refused => Refused'
    BY <1>1, <2>1 DEF Refused, Alone
  <2>5. Lost => Lost'
    BY <1>1, <2>1 DEF Lost, Alone, Queued
  <2> QED
    BY <2>1, <2>2, <2>3, <2>4, <2>5
<1>2. CASE peer = "Mac"
  <2>1. Linked /\ Post(kind) /\ kind \in Reported
    BY <1>2 DEF Answer, Reported, Waiting, Calling, Refused, Lost, Alone
  <2>2. \A k : Queued(k)' <=> Queued(k) \/ k = kind
    BY <2>1, PostedQueued
  <2>3. gatt'.step # "idle" => gatt'.host = "Mac"
    BY <2>1 DEF Linked, Idle
  <2>4. Truthful'
    BY <1>2, <2>1, <2>2 DEF Linked, Truthful
  <2>5. ~Queued("Disconnected")' /\ ~Queued("CannotConnect")'
    BY <2>1, <2>2 DEF Linked
  <2> QED
    BY <2>1, <2>3, <2>4, <2>5 DEF Linked
<1> QED
  BY <1>1, <1>2

(* The radio answers.                                                      *)
LEMMA RadioKeeps ==
  ASSUME CallInv, TasksOK, RadioStep \/ CannotConnect
  PROVE  CallInv'
<1> USE DEF CallInv, centralVars
<1>1. ASSUME peer = "Mac" PROVE Linked
  BY <1>1 DEF Waiting, Calling, Refused, Lost, Alone
<1>2. ASSUME "connect" \in asked PROVE Calling
  BY <1>2 DEF Waiting, Refused, Lost, Linked, Alone
<1>3. CASE Subscribes
  <2>1. PICK what \in {"control", "audio"} :
          subs' = subs \cup {what} /\ asked' = asked \ {what} /\ Post(what)
    BY <1>3 DEF Subscribes
  <2>2. \A k : Queued(k)' <=> Queued(k) \/ k = what
    BY <2>1, PostedQueued DEF Reported
  <2>3. Linked /\ UNCHANGED <<peer, unpaired, gatt, key, centralVars>>
    BY <1>1, <1>3 DEF Subscribes, flashVars
  <2>4. Truthful'
    BY <2>1, <2>2, <2>3 DEF Linked, Truthful
  <2>5. ~Queued("Disconnected")' /\ ~Queued("CannotConnect")'
    BY <2>2, <2>3 DEF Linked
  <2> QED
    BY <2>1, <2>3, <2>4, <2>5 DEF Linked
<1>4. CASE Discovers
  <2>1. PICK kind \in {"Characteristics", "DiscoveryFailed"} : Post(kind)
    BY <1>4 DEF Discovers
  <2>2. \A k : Queued(k)' <=> Queued(k) \/ k = kind
    BY <2>1, PostedQueued DEF Reported
  <2>3. /\ Linked /\ UNCHANGED <<peer, subs, unpaired, gatt, key, centralVars>>
        /\ asked' = asked \ {"gatt"}
    BY <1>1, <1>4 DEF Discovers, flashVars, linkVars
  <2>4. Truthful'
    BY <2>1, <2>2, <2>3 DEF Linked, Truthful
  <2>5. ~Queued("Disconnected")' /\ ~Queued("CannotConnect")'
    BY <2>1, <2>2, <2>3 DEF Linked
  <2> QED
    BY <2>3, <2>4, <2>5 DEF Linked
<1>5. CASE Connects
  <2>1. /\ Calling /\ Post("Connected") /\ "Connected" \in Reported
        /\ peer' = "Mac" /\ asked' = asked \ {"connect"} /\ gatt' = Idle
        /\ UNCHANGED <<subs, key, centralVars>>
    BY <1>2, <1>5 DEF Connects, flashVars, Reported
  <2>2. \A k : Queued(k)' <=> Queued(k) \/ k = "Connected"
    BY <2>1, PostedQueued
  <2>3. (\A k : ~Queued(k)) /\ ready = {}
    BY <2>1 DEF Calling, Queued
  <2>4. Truthful' /\ ~Queued("Disconnected")' /\ ~Queued("CannotConnect")'
    BY <2>1, <2>2, <2>3 DEF Truthful
  <2> QED
    BY <2>1, <2>4 DEF Linked, Calling, Idle
<1>6. CASE CannotConnect
  <2>1. /\ Calling /\ tasks' = <<"CannotConnect">> /\ asked' = {}
        /\ UNCHANGED <<peer, centralVars>>
    BY <1>2, <1>6 DEF CannotConnect, Post, Calling, linkVars
  <2> QED
    BY <2>1 DEF Calling, Refused, Alone
<1> QED
  BY <1>3, <1>4, <1>5, <1>6 DEF RadioStep

-----------------------------------------------------------------------------
(* A handler of what a link reported, other than its end: it may count     *)
(* what it was told, and ask for more on a link that is up.                *)
LEMMA ReportKeeps ==
  ASSUME CallInv, TasksOK,
         NEW kind \in Reported \ {"Disconnected", "CannotConnect"}, Takes(kind),
         UNCHANGED <<peer, subs, unpaired, key, gatt, target>>,
         "rescan" \in timers' => "rescan" \in timers,
         "connect" \in asked' => "connect" \in asked,
         peer # "Mac" => asked' = asked,
         \A what \in ready' : what \in ready \/ what = kind \/ (what = "key" /\ kind = "KeyTaken"),
         state' = "connected" => ready' = {"control", "audio", "key"}
  PROVE  CallInv'
<1>1. /\ Queued(kind)
      /\ \A k : Queued(k)' => Queued(k)
      /\ \A k : Queued(k) /\ k # kind => Queued(k)'
  BY TakenQueued
<1>2. ~Waiting /\ ~Calling /\ ~Refused
  BY <1>1 DEF Waiting, Calling, Refused, Queued
<1>3. ASSUME Lost PROVE Lost'
  <2>1. Queued("Disconnected")' /\ ~Queued("CannotConnect")'
    BY <1>1, <1>3 DEF Lost
  <2>2. \A i, j \in DOMAIN tasks' :
          i < j /\ tasks'[i] = "Disconnected" => tasks'[j] = "Disconnected"
    <3>1. /\ DOMAIN tasks = 1..Len(tasks) /\ DOMAIN tasks' = 1..Len(tasks')
          /\ Len(tasks') = Len(tasks) - 1 /\ Len(tasks) \in Nat \ {0}
          /\ \A i \in 1..Len(tasks') : tasks'[i] = tasks[i + 1]
      BY Taken DEF TasksOK
    <3> SUFFICES ASSUME NEW i \in 1..Len(tasks'), NEW j \in 1..Len(tasks'), i < j,
                        tasks'[i] = "Disconnected"
                 PROVE  tasks'[j] = "Disconnected"
      BY <3>1
    <3>2. /\ i + 1 \in DOMAIN tasks /\ j + 1 \in DOMAIN tasks /\ i + 1 < j + 1
          /\ tasks'[i] = tasks[i + 1] /\ tasks'[j] = tasks[j + 1]
      BY <3>1
    <3> QED
      BY <1>3, <3>2 DEF Lost
  <2> QED
    BY <1>3, <2>1, <2>2 DEF Lost, Alone
<1>4. ASSUME Linked PROVE Linked'
  <2>1. \/ unpaired'
        \/ \A what \in {"control", "audio"} : what \in ready' \/ Queued(what)' => what \in subs'
    BY <1>1, <1>4 DEF Linked, Truthful
  <2>2. unpaired' \/ ("key" \in ready' \/ Queued("KeyTaken")' => key' = "Mac")
    <3>1. kind # "key"
      BY DEF Reported
    <3>2. "key" \in ready' => "key" \in ready \/ Queued("KeyTaken")
      BY <1>1, <3>1
    <3> QED
      BY <1>1, <1>4, <3>2 DEF Linked, Truthful
  <2>3. ~Queued("Disconnected")' /\ ~Queued("CannotConnect")'
    BY <1>1, <1>4 DEF Linked
  <2> QED
    BY <1>4, <2>1, <2>2, <2>3 DEF Linked, Truthful
<1> QED
  BY <1>2, <1>3, <1>4 DEF CallInv

(* The handlers it is about.                                               *)
LEMMA ReportsKeep ==
  ASSUME CallInv, TasksOK, MacOK,
         \/ HandlesConnected \/ HandlesCharacteristics \/ HandlesFailure
         \/ HandlesSubscribed \/ HandlesKeyTaken \/ HandlesInsecure
  PROVE  CallInv'
<1> DEFINE Counts(kind) ==
             /\ Takes(kind)
             /\ UNCHANGED <<peer, subs, unpaired, key, gatt, target>>
             /\ "rescan" \in timers' => "rescan" \in timers
             /\ "connect" \in asked' => "connect" \in asked
             /\ peer # "Mac" => asked' = asked
             /\ \A what \in ready' : \/ what \in ready \/ what = kind
                                     \/ what = "key" /\ kind = "KeyTaken"
             /\ state' = "connected" => ready' = {"control", "audio", "key"}
<1> SUFFICES \E kind \in Reported \ {"Disconnected", "CannotConnect"} : Counts(kind)
  <2>1. PICK kind \in Reported \ {"Disconnected", "CannotConnect"} : Counts(kind)
    OBVIOUS
  <2> QED
    BY <2>1, ReportKeeps
<1>0. state = "connected" => ready = {"control", "audio", "key"}
  BY DEF CallInv
<1> USE DEF MacRest, LinkRest, flashVars, linkVars, centralVars
<1>1. CASE HandlesConnected
  <2>1. Counts("Connected")
    BY <1>0, <1>1 DEF HandlesConnected
  <2> QED
    BY <2>1 DEF Reported
<1>2. CASE HandlesCharacteristics
  <2>1. Counts("Characteristics")
    BY <1>2 DEF HandlesCharacteristics
  <2> QED
    BY <2>1 DEF Reported
<1>3. CASE HandlesFailure
  <2>1. PICK kind \in {"DiscoveryFailed", "KeyRefused", "KeyFailed"} : Takes(kind)
    BY <1>3 DEF HandlesFailure
  <2>2. Counts(kind)
    BY <1>3, <2>1 DEF HandlesFailure
  <2> QED
    BY <2>2 DEF Reported
<1>4. CASE HandlesSubscribed
  <2>1. PICK kind \in {"control", "audio"} : Takes(kind) /\ Becomes(ready \cup {kind})
    BY <1>4 DEF HandlesSubscribed
  <2>2. state' = "connected" => ready' = {"control", "audio", "key"}
    BY <1>0, <2>1 DEF Becomes, MacOK
  <2>3. Counts(kind)
    BY <1>4, <2>1, <2>2 DEF HandlesSubscribed, Becomes
  <2> QED
    BY <2>3 DEF Reported
<1>5. CASE HandlesKeyTaken
  <2>1. state' = "connected" => ready' = {"control", "audio", "key"}
    BY <1>0, <1>5 DEF HandlesKeyTaken, Becomes, MacOK
  <2>2. Counts("KeyTaken")
    BY <1>5, <2>1 DEF HandlesKeyTaken, Becomes
  <2> QED
    BY <2>2 DEF Reported
<1>6. CASE HandlesInsecure
  <2>1. Counts("KeyInsecure")
    BY <1>6 DEF HandlesInsecure
  <2> QED
    BY <2>1 DEF Reported
<1> QED
  BY <1>1, <1>2, <1>3, <1>4, <1>5, <1>6

(* The Mac ends an attempt itself, or hears that it ended.                 *)
LEMMA EndsKeep ==
  ASSUME CallInv, TasksOK, GivesUp \/ HandlesDisconnected \/ HandlesCannotConnect
  PROVE  CallInv'
<1> USE DEF CallInv
<1>1. CASE GivesUp
  <2>1. /\ tasks # <<>> /\ Head(tasks) = "KeyInsecure"
        /\ tasks' = Append(Tail(tasks), "Disconnected")
        /\ peer' = "None" /\ asked' = {} /\ state' = "failed"
        /\ UNCHANGED <<target, ready, timers>>
    BY <1>1 DEF GivesUp, Released
  <2>2. /\ DOMAIN tasks = 1..Len(tasks) /\ Len(tasks) \in Nat \ {0} /\ tasks[1] = "KeyInsecure"
        /\ DOMAIN tasks' = 1..Len(tasks) /\ tasks'[Len(tasks)] = "Disconnected"
        /\ \A i \in 1..Len(tasks) - 1 : tasks'[i] = tasks[i + 1]
    BY <2>1 DEF TasksOK, Reported
  <2>0. Len(tasks) \in Nat
    BY <2>2
  <2>3. 1 \in DOMAIN tasks
    BY <2>2
  <2>4. Lost \/ Linked
    BY <2>1, <2>2, <2>3 DEF Waiting, Calling, Refused
  <2>5. Queued("Disconnected")'
    BY <2>2 DEF Queued
  <2>6. ~Queued("CannotConnect")'
    <3>1. \A i \in 1..Len(tasks) : tasks[i] # "CannotConnect"
      BY <2>2, <2>4 DEF Lost, Linked, Queued
    <3> SUFFICES ASSUME NEW i \in 1..Len(tasks) PROVE tasks'[i] # "CannotConnect"
      BY <2>2 DEF Queued
    <3>2. CASE i = Len(tasks)
      BY <2>2, <3>2
    <3>3. CASE i # Len(tasks)
      <4>1. i \in 1..Len(tasks) - 1 /\ i + 1 \in 1..Len(tasks)
        BY <2>0, <3>3
      <4> QED
        BY <2>2, <3>1, <4>1
    <3> QED
      BY <3>2, <3>3
  <2>7. ASSUME NEW i \in 1..Len(tasks), NEW j \in 1..Len(tasks), i < j,
               tasks'[i] = "Disconnected"
        PROVE  tasks'[j] = "Disconnected"
    <3>1. CASE j = Len(tasks)
      BY <2>2, <3>1
    <3>2. CASE j # Len(tasks)
      <4>1. /\ i \in 1..Len(tasks) - 1 /\ i + 1 \in DOMAIN tasks
            /\ j \in 1..Len(tasks) - 1 /\ j + 1 \in DOMAIN tasks /\ i + 1 < j + 1
        <5>1. /\ i \in 1..Len(tasks) - 1 /\ i + 1 \in 1..Len(tasks)
              /\ j \in 1..Len(tasks) - 1 /\ j + 1 \in 1..Len(tasks) /\ i + 1 < j + 1
          BY <2>0, <2>7, <3>2
        <5> QED
          BY <2>2, <5>1
      <4>2. tasks[i + 1] = "Disconnected"
        BY <2>2, <2>7, <4>1
      <4>3. Lost
        BY <2>4, <4>1, <4>2 DEF Linked, Queued
      <4> QED
        BY <2>2, <4>1, <4>2, <4>3 DEF Lost
    <3> QED
      BY <3>1, <3>2
  <2> QED
    BY <2>1, <2>2, <2>4, <2>5, <2>6, <2>7 DEF Lost, Linked, Alone
<1>2. CASE HandlesDisconnected
  <2>1. /\ Takes("Disconnected") /\ "Disconnected" \in Reported
        /\ UNCHANGED <<asked, peer>> /\ timers' = timers \ {"retry"}
        /\ IF target
           THEN ready' = {} /\ target' = FALSE /\ state' = "scanning"
           ELSE UNCHANGED <<ready, target, state>>
    BY <1>2 DEF HandlesDisconnected, LinkRest, MacRest, linkVars, Reported
  <2>2. /\ Queued("Disconnected") /\ tasks[1] = "Disconnected"
        /\ DOMAIN tasks = 1..Len(tasks) /\ DOMAIN tasks' = 1..Len(tasks')
        /\ Len(tasks') = Len(tasks) - 1 /\ Len(tasks) \in Nat \ {0}
        /\ \A i \in 1..Len(tasks') : tasks'[i] = tasks[i + 1]
    BY <2>1, Taken, TakenQueued DEF TasksOK
  <2>3. Waiting \/ Lost
    BY <2>2 DEF Calling, Refused, Linked, Queued
  <2>4. \A i \in DOMAIN tasks' : tasks'[i] = "Disconnected"
    <3> SUFFICES ASSUME NEW i \in 1..Len(tasks') PROVE tasks'[i] = "Disconnected"
      BY <2>2
    <3>1. 1 \in DOMAIN tasks /\ i + 1 \in DOMAIN tasks /\ 1 < i + 1
      BY <2>2
    <3>2. tasks[i + 1] = "Disconnected"
      BY <2>2, <2>3, <3>1 DEF Waiting, Lost
    <3> QED
      BY <2>2, <3>2
  <2>5. "rescan" \notin timers' /\ Alone'
    BY <2>1, <2>3 DEF Waiting, Lost, Alone
  <2>6. ~target' /\ ready' = {} /\ state' = "scanning"
    BY <2>1, <2>3 DEF Waiting, Lost
  <2> QED
    BY <2>4, <2>5, <2>6 DEF Waiting
<1>3. CASE HandlesCannotConnect
  <2>1. /\ Takes("CannotConnect") /\ "CannotConnect" \in Reported
        /\ UNCHANGED <<asked, peer, target, ready>> /\ state' = "failed"
    BY <1>3 DEF HandlesCannotConnect, LinkRest, MacRest, linkVars, Reported
  <2>2. Queued("CannotConnect")
    BY <2>1, TakenQueued
  <2>3. Refused
    BY <2>2 DEF Waiting, Calling, Lost, Linked, Queued
  <2>4. tasks' = <<>>
    BY <2>1, <2>3 DEF Refused, Takes
  <2> QED
    BY <2>1, <2>3, <2>4 DEF Refused, Alone
<1> QED
  BY <1>1, <1>2, <1>3

(* The Mac finds the device, or one of its timers is due.                  *)
LEMMA TimersKeep ==
  ASSUME CallInv, Finds \/ RetryDue \/ RescanDue
  PROVE  CallInv'
<1> USE DEF CallInv, LinkRest, MacRest, linkVars, flashVars
<1>1. CASE Finds
  <2>1. Waiting
    BY <1>1 DEF Finds, Calling, Refused, Lost, Linked
  <2> QED
    BY <1>1, <2>1 DEF Finds, Waiting, Calling, Alone
<1>2. CASE RetryDue
  <2>1. /\ "rescan" \in timers' <=> "rescan" \in timers
        /\ "connect" \in asked' <=> "connect" \in asked
        /\ peer # "Mac" => asked' = asked
        /\ UNCHANGED <<state, target, ready, tasks, peer, subs, unpaired, key, gatt>>
    BY <1>2 DEF RetryDue
  <2>2. Waiting => Waiting'
    BY <2>1 DEF Waiting, Alone
  <2>3. Calling => Calling'
    BY <2>1 DEF Calling
  <2>4. Refused => Refused'
    BY <2>1 DEF Refused, Alone
  <2>5. Lost => Lost'
    BY <2>1 DEF Lost, Alone, Queued
  <2>6. Linked => Linked'
    BY <2>1 DEF Linked, Truthful, Queued
  <2> QED
    BY <2>1, <2>2, <2>3, <2>4, <2>5, <2>6
<1>3. CASE RescanDue
  <2>1. Refused /\ tasks = <<>> /\ state # "connected"
    BY <1>3 DEF RescanDue, Waiting, Calling, Lost, Linked, Refused
  <2>2. Waiting'
    BY <1>3, <2>1 DEF RescanDue, Refused, Waiting, Alone
  <2> QED
    BY <2>2 DEF Waiting
<1> QED
  BY <1>1, <1>2, <1>3

-----------------------------------------------------------------------------
(* The invariant: each step keeps it.                                      *)
LEMMA CallKept ==
  ASSUME Typed, CallInv, [Next]_vars
  PROVE  CallInv'
<1>1. TasksOK /\ KeysAgree /\ MacOK
  BY DEF Typed
<1> USE DEF flashVars, linkVars
<1>2. CASE Encrypts \/ Erases \/ Terminates \/ UNCHANGED vars
  BY <1>2, QuietKeeps DEF Encrypts, Erases, Terminates, vars
<1>3. CASE WriteTaken \/ SavesKey \/ SavesName
  <2>1. UNCHANGED <<peer, subs, unpaired, key, asked, tasks, centralVars>>
    BY <1>3 DEF WriteTaken, SavesKey, SavesName, GattRest, SaveRest
  <2>2. peer = "Mac" /\ (gatt.step # "idle" => gatt.host = "Mac") =>
          (gatt'.step # "idle" => gatt'.host = "Mac")
    <3>1. CASE WriteTaken
      BY <3>1 DEF WriteTaken, Waits
    <3>2. CASE SavesKey \/ SavesName
      BY <3>2 DEF SavesKey, SavesName, Typed, StorageOK
    <3> QED
      BY <1>3, <3>1, <3>2
  <2> QED
    BY <2>1, <2>2, QuietKeeps
<1>4. CASE LinkLost \/ PowerCut \/ OtherLeaves \/ LinkEnds \/ Reconnect
  BY <1>1, <1>4, DropsKeep DEF LinkLost, PowerCut, OtherLeaves, LinkEnds, Reconnect
<1>5. CASE WriteUnencrypted \/ WriteRefused
  <2>1. PICK kind \in {"KeyInsecure", "KeyRefused"} : Answer(kind)
    BY <1>5 DEF WriteUnencrypted, WriteRefused
  <2>2. asked' = asked \ {"key"} /\ UNCHANGED <<peer, subs, unpaired, key, gatt, centralVars>>
    BY <1>5 DEF WriteUnencrypted, WriteRefused, GattRest
  <2> QED
    BY <1>1, <2>1, <2>2, AnswerKeeps
<1>6. CASE SaveFails
  <2>1. /\ Answer(IF key = "None" THEN "KeyFailed" ELSE "KeyTaken")
        /\ asked' = asked \ {"key"} /\ gatt' = Idle /\ gatt.step # "idle"
        /\ UNCHANGED <<peer, subs, unpaired, key, centralVars>>
    BY <1>6 DEF SaveFails, Done, SaveRest
  <2>2. Linked /\ key # "None" => key = "Mac"
    BY <1>1, <2>1 DEF Linked, KeysAgree
  <2>3. CASE key = "None"
    BY <1>1, <2>1, <2>3, AnswerKeeps
  <2>4. CASE key # "None"
    BY <1>1, <2>1, <2>2, <2>4, AnswerKeeps
  <2> QED
    BY <2>3, <2>4
<1>7. CASE Publishes
  <2>1. /\ Answer("KeyTaken")
        /\ asked' = asked \ {"key"} /\ gatt' = Idle /\ gatt.step # "idle"
        /\ key' = gatt.host /\ UNCHANGED <<peer, subs, unpaired, centralVars>>
    BY <1>7 DEF Publishes, Done
  <2>2. Linked => key' = "Mac"
    BY <2>1 DEF Linked
  <2>3. peer = "Mac" => Linked
    BY DEF CallInv, Waiting, Calling, Refused, Lost, Alone
  <2> QED
    BY <1>1, <2>1, <2>2, <2>3, AnswerKeeps
<1>8. CASE OtherConnects
  BY <1>8, OtherKeeps
<1>9. CASE RadioStep \/ CannotConnect
  BY <1>1, <1>9, RadioKeeps
<1>10. CASE MacStep
  BY <1>1, <1>10, ReportsKeep, EndsKeep DEF MacStep
<1>11. CASE Finds \/ RetryDue \/ RescanDue
  BY <1>11, TimersKeep
<1>12. CASE Forgets
  BY <1>12, ForgetsKeeps
<1> QED
  BY <1>2, <1>3, <1>4, <1>5, <1>6, <1>7, <1>8, <1>9, <1>10, <1>11, <1>12 DEF Next, GattStep

(* A Mac that calls the device connected over a link that is up shares its *)
(* key with the device and has both its subscriptions, however links and   *)
(* power go and come, unless the pairing was reset under that link         *)
(* (CompanionBLECentral.swift:283-285, 507-525; ble_transport.c:398-407).  *)
THEOREM ConnectedAlwaysPaired == Spec => []ConnectedIsPaired
<1>1. Init => CallInv
  BY DEF Init, CallInv, Waiting, Alone
<1>2. Typed /\ CallInv /\ [Next]_vars => CallInv'
  BY CallKept
<1>3. Typed /\ CallInv => ConnectedIsPaired
  <2> SUFFICES ASSUME Typed, CallInv, state = "connected", peer = "Mac", ~unpaired
               PROVE  key = "Mac" /\ subs = {"control", "audio"}
    BY DEF ConnectedIsPaired
  <2>1. Linked /\ ready = {"control", "audio", "key"}
    BY DEF CallInv, Waiting, Calling, Refused, Lost, Alone
  <2>2. subs \subseteq {"control", "audio"}
    BY DEF Typed, DeviceOK
  <2> QED
    BY <2>1, <2>2 DEF Linked, Truthful
<1> QED
  BY <1>1, <1>2, <1>3, TypedInvariant, PTL DEF Spec
=============================================================================
