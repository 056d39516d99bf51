----------------------------- MODULE BlePairing -----------------------------
(***************************************************************************)
(* How a Mac and the device get and keep a key in common over BLE: the GATT *)
(* server of the device with the key it keeps in flash, and the central of *)
(* the Mac that scans, connects, subscribes and writes its key.            *)
(*                                                                         *)
(* The device runs GATT callbacks on one task and the reset of the pairing *)
(* on another, with no lock between them, and may lose power at any step.  *)
(* The Mac runs on its main actor: every callback of CoreBluetooth becomes *)
(* a task at the end of a queue.  CoreBluetooth and the radio are external: *)
(* requests are answered while the link is up, in any order.               *)
(*                                                                         *)
(* "Mac" is the key of this Mac and "Other" that of any other host, which   *)
(* talks to the device only while it is free.                              *)
(***************************************************************************)
EXTENDS Naturals, Sequences, FiniteSets

CONSTANTS
  MaxRetries,  \* maximumProvisioningRetries
  MaxFaults    \* bound: lost links, power cuts, resets and failed writes

ASSUME RetriesAssumption == MaxRetries \in Nat \ {0} /\ MaxFaults \in Nat

Hosts == {"Mac", "Other"}
Keys == Hosts \cup {"None"}

VARIABLES
  flash,      \* the NVS namespace cc_security: its key and whose name it has
  key,        \* has_hmac_key and hmac_key
  name,       \* paired_host
  peer,       \* connection_handle, by the host behind it
  encrypted,  \* the state of that connection
  subs,       \* control_subscribed, audio_subscribed
  ending,     \* ble_gap_terminate was accepted: its disconnection is to come
  unpaired,   \* history: the pairing was reset under this connection
  gatt,       \* the step of a provisioning write on the host task
  reset,      \* the step of cc_ble_clear_pairing
  state,      \* CompanionBLECentral.state
  target,     \* peripheral is set
  ready,      \* readiness
  retries,    \* provisioningRetryCount
  timers,     \* the delayed tasks that wait: a retry, a new scan
  asked,      \* requests CoreBluetooth still works on
  tasks,      \* callbacks that wait for the main actor
  faults      \* what is left of MaxFaults

flashVars == <<flash, key, name>>
linkVars == <<peer, encrypted, subs, ending, unpaired>>
centralVars == <<state, target, ready, retries, timers>>
vars == <<flashVars, linkVars, gatt, reset, centralVars, asked, tasks, faults>>

PairingTypeOK ==
  /\ flash \in [key : Keys, name : Keys] /\ key \in Keys /\ name \in Keys
  /\ peer \in Keys /\ encrypted \in BOOLEAN /\ subs \subseteq {"control", "audio"}
  /\ ending \in BOOLEAN /\ unpaired \in BOOLEAN
  /\ gatt \in [step : {"idle", "key", "name", "publish"}, host : Keys]
  /\ reset \in {"idle", "erased", "forgotten"}
  /\ state \in {"scanning", "connecting", "connected", "failed"}
  /\ target \in BOOLEAN /\ ready \subseteq {"control", "audio", "key"}
  /\ retries \in 0..MaxRetries /\ timers \subseteq {"retry", "rescan"}
  /\ asked \subseteq {"connect", "gatt", "control", "audio", "key"}
  /\ faults \in 0..MaxFaults

Idle == [step |-> "idle", host |-> "None"]

Init ==
  /\ flash = [key |-> "None", name |-> "None"] /\ key = "None" /\ name = "None"
  /\ peer = "None" /\ encrypted = FALSE /\ subs = {} /\ ending = FALSE /\ unpaired = FALSE
  /\ gatt = Idle /\ reset = "idle"
  /\ state = "scanning" /\ target = FALSE /\ ready = {} /\ retries = 0 /\ timers = {}
  /\ asked = {} /\ tasks = <<>> /\ faults = MaxFaults

-----------------------------------------------------------------------------
Fault == faults > 0 /\ faults' = faults - 1
Post(kind) == tasks' = Append(tasks, kind)

(* gap_event, BLE_GAP_EVENT_DISCONNECT, with what the Mac hears of it.     *)
Released ==
  peer' = "None" /\ encrypted' = FALSE /\ subs' = {} /\ ending' = FALSE /\ unpaired' = FALSE
Drops ==
  /\ Released
  /\ asked' = {}
  /\ IF peer = "Mac" \/ "connect" \in asked THEN Post("Disconnected") ELSE UNCHANGED tasks

LinkLost ==
  /\ peer # "None" /\ Fault /\ Drops
  /\ UNCHANGED <<flashVars, gatt, reset, centralVars>>

(* load_hmac_key: a key without a name counts as a legacy host.            *)
PowerCut ==
  /\ Fault /\ Drops
  /\ key' = flash.key /\ name' = IF flash.key = "None" THEN "None" ELSE flash.name
  /\ gatt' = Idle /\ reset' = "idle"
  /\ UNCHANGED <<flash, centralVars>>

Encrypts ==
  /\ peer # "None" /\ ~encrypted /\ encrypted' = TRUE
  /\ UNCHANGED <<flashVars, peer, subs, ending, unpaired, gatt, reset, centralVars, asked, tasks,
                 faults>>

(* Another host takes the device while it advertises.                      *)
OtherConnects ==
  /\ peer = "None" /\ "connect" \notin asked /\ Fault
  /\ peer' = "Other"
  /\ UNCHANGED <<flashVars, encrypted, subs, ending, unpaired, gatt, reset, centralVars, asked,
                 tasks>>

OtherLeaves ==
  /\ peer = "Other" /\ Drops
  /\ UNCHANGED <<flashVars, gatt, reset, centralVars, faults>>

-----------------------------------------------------------------------------
(* gatt_access: a provisioning write.                                      *)
Answer(kind) == IF peer = "Mac" THEN Post(kind) ELSE UNCHANGED tasks
Waits(host) == peer = host /\ gatt = Idle /\ (host = "Mac" => "key" \in asked)
GattRest == UNCHANGED <<flashVars, linkVars, reset, centralVars, faults>>

WriteUnencrypted ==
  /\ Waits("Mac") /\ ~encrypted
  /\ asked' = asked \ {"key"} /\ Answer("KeyInsecure")
  /\ UNCHANGED gatt /\ GattRest

WriteRefused ==
  /\ \E host \in Hosts : Waits(host) /\ encrypted /\ key \notin {"None", host}
  /\ asked' = asked \ {"key"} /\ Answer("KeyRefused")
  /\ UNCHANGED gatt /\ GattRest

TakesAny ==
  /\ \E host \in Hosts : Waits(host) /\ encrypted
                           /\ gatt' = [step |-> "key", host |-> host]
  /\ UNCHANGED <<asked, tasks>> /\ GattRest
WriteTaken ==
  /\ \E host \in Hosts :
       Waits(host) /\ encrypted /\ key \in {"None", host}
         /\ gatt' = [step |-> "key", host |-> host]
  /\ UNCHANGED <<asked, tasks>> /\ GattRest

(* save_host_profile, one item of flash at a time; the first that fails    *)
(* ends it.  A write of the key that is held already succeeds all the same. *)
Done(kind) == gatt' = Idle /\ asked' = asked \ {"key"} /\ Answer(kind)
SaveRest == UNCHANGED <<key, name, linkVars, reset, centralVars>>

SavesKey ==
  /\ gatt.step = "key"
  /\ flash' = [flash EXCEPT !.key = gatt.host] /\ gatt' = [gatt EXCEPT !.step = "name"]
  /\ UNCHANGED <<asked, tasks, faults>> /\ SaveRest

SavesName ==
  /\ gatt.step = "name"
  /\ flash' = [flash EXCEPT !.name = gatt.host] /\ gatt' = [gatt EXCEPT !.step = "publish"]
  /\ UNCHANGED <<asked, tasks, faults>> /\ SaveRest

SaveFailsQuietly ==
  /\ gatt.step \in {"key", "name"} /\ Fault
  /\ Done("KeyTaken")
  /\ UNCHANGED flash /\ SaveRest
SaveFails ==
  /\ gatt.step \in {"key", "name"} /\ Fault
  /\ Done(IF key = "None" THEN "KeyFailed" ELSE "KeyTaken")
  /\ UNCHANGED flash /\ SaveRest

Publishes ==
  /\ gatt.step = "publish"
  /\ key' = gatt.host /\ name' = gatt.host
  /\ Done("KeyTaken")
  /\ UNCHANGED <<flash, linkVars, reset, centralVars, faults>>

GattStep == WriteUnencrypted \/ WriteRefused \/ WriteTaken \/ SavesKey \/ SavesName \/ Publishes

(* A request that the stack of the device answers by itself.               *)
Subscribes ==
  /\ peer = "Mac"
  /\ \E what \in asked \cap {"control", "audio"} :
       subs' = subs \cup {what} /\ asked' = asked \ {what} /\ Post(what)
  /\ UNCHANGED <<flashVars, peer, encrypted, ending, unpaired, gatt, reset, centralVars, faults>>

Discovers ==
  /\ peer = "Mac" /\ "gatt" \in asked /\ asked' = asked \ {"gatt"}
  /\ \/ Post("Characteristics") /\ UNCHANGED faults
     \/ Post("DiscoveryFailed") /\ Fault
  /\ UNCHANGED <<flashVars, linkVars, gatt, reset, centralVars>>

Connects ==
  /\ "connect" \in asked /\ peer = "None" /\ gatt = Idle
  /\ asked' = asked \ {"connect"} /\ peer' = "Mac" /\ Post("Connected")
  /\ UNCHANGED <<flashVars, encrypted, subs, ending, unpaired, gatt, reset, centralVars, faults>>

CannotConnect ==
  /\ "connect" \in asked /\ Fault
  /\ asked' = asked \ {"connect"} /\ Post("CannotConnect")
  /\ UNCHANGED <<flashVars, linkVars, gatt, reset, centralVars>>

RadioStep == Subscribes \/ Discovers \/ Connects

-----------------------------------------------------------------------------
(* cc_ble_clear_pairing: the flash first, then the memory, then the link.  *)
(* An erase that fails leaves the rest of the flash as it is.              *)
Erases ==
  /\ reset = "idle" /\ Fault
  /\ reset' = "erased"
  /\ flash' \in {[key |-> "None", name |-> "None"], [flash EXCEPT !.key = "None"], flash}
  /\ UNCHANGED <<key, name, linkVars, gatt, centralVars, asked, tasks>>

(* The link stays up: nobody has told the Mac yet.                         *)
Forgets ==
  /\ reset = "erased" /\ reset' = "forgotten"
  /\ key' = "None" /\ name' = "None" /\ subs' = {} /\ unpaired' = (peer # "None")
  /\ UNCHANGED <<flash, peer, encrypted, ending, gatt, centralVars, asked, tasks, faults>>

(* Whoever is connected now is sent away; a refusal goes unnoticed.        *)
Terminates ==
  /\ reset = "forgotten" /\ reset' = "idle"
  /\ ending' \in {ending, peer # "None"}
  /\ UNCHANGED <<flashVars, peer, encrypted, subs, unpaired, gatt, centralVars, asked, tasks,
                 faults>>

LinkEnds ==
  /\ ending /\ Drops
  /\ UNCHANGED <<flashVars, gatt, reset, centralVars, faults>>

-----------------------------------------------------------------------------
(* The central of the Mac.                                                 *)
Takes(kind) == tasks # <<>> /\ Head(tasks) = kind /\ tasks' = Tail(tasks)
MacRest == UNCHANGED <<flashVars, gatt, reset, faults>>
LinkRest == UNCHANGED linkVars

(* didDiscover: the device advertises while nobody holds it; the task of   *)
(* the advertisement runs after those that wait already.                   *)
Finds ==
  /\ state = "scanning" /\ ~target /\ peer = "None" /\ tasks = <<>>
  /\ target' = TRUE /\ state' = "connecting" /\ asked' = {"connect"}
  /\ UNCHANGED <<ready, retries, timers, tasks>> /\ LinkRest /\ MacRest

HandlesConnected ==
  /\ Takes("Connected")
  /\ asked' = asked \cup (IF peer = "Mac" THEN {"gatt"} ELSE {})
  /\ UNCHANGED centralVars /\ LinkRest /\ MacRest

(* didDiscoverCharacteristicsFor.                                          *)
HandlesCharacteristics ==
  /\ Takes("Characteristics")
  /\ ready' = {} /\ retries' = 0 /\ state' = "connecting"
  /\ asked' = IF peer = "Mac" THEN {"control", "audio", "key"} ELSE asked
  /\ UNCHANGED <<target, timers>> /\ LinkRest /\ MacRest

(* A service or characteristic is missing, or a write failed for good: the *)
(* central stays connected and does nothing more.                          *)
HandlesFailure ==
  /\ Takes("DiscoveryFailed") \/ Takes("KeyRefused") \/ Takes("KeyFailed")
  /\ state' = "failed"
  /\ UNCHANGED <<target, ready, retries, timers, asked>> /\ LinkRest /\ MacRest

Becomes(r) == ready' = r /\ state' = IF r = {"control", "audio", "key"} THEN "connected" ELSE state

HandlesSubscribed ==
  /\ \E what \in {"control", "audio"} : Takes(what) /\ Becomes(ready \cup {what})
  /\ UNCHANGED <<target, retries, timers, asked>> /\ LinkRest /\ MacRest

HandlesKeyTaken ==
  /\ Takes("KeyTaken")
  /\ retries' = 0 /\ Becomes(ready \cup {"key"})
  /\ UNCHANGED <<target, timers, asked>> /\ LinkRest /\ MacRest

(* retryProvisioningAfterSecurityHandshake, after 1 s at most MaxRetries   *)
(* times; then the connection is given up.                                 *)
HandlesInsecure ==
  /\ Takes("KeyInsecure") /\ retries < MaxRetries
  /\ retries' = retries + 1 /\ timers' = timers \cup {"retry"} /\ state' = "connecting"
  /\ UNCHANGED <<target, ready, asked>> /\ LinkRest /\ MacRest

GivesUp ==
  /\ tasks # <<>> /\ Head(tasks) = "KeyInsecure" /\ retries = MaxRetries
  /\ state' = "failed"
  /\ Released /\ asked' = {}
  /\ tasks' = Append(Tail(tasks), "Disconnected")
  /\ UNCHANGED <<target, ready, retries, timers>> /\ MacRest

RetryDue ==
  /\ "retry" \in timers /\ timers' = timers \ {"retry"}
  /\ asked' = IF target /\ "key" \notin ready /\ peer = "Mac" THEN asked \cup {"key"} ELSE asked
  /\ UNCHANGED <<state, target, ready, retries, tasks>> /\ LinkRest /\ MacRest

(* didDisconnectPeripheral.  A retry that waits finds other                *)
(* characteristics when it is due, and does nothing.                       *)
RetryOutlives ==
  /\ Takes("Disconnected")
  /\ IF target
     THEN ready' = {} /\ retries' = 0 /\ target' = FALSE /\ state' = "scanning"
     ELSE UNCHANGED <<ready, retries, target, state>>
  /\ UNCHANGED <<timers, asked>> /\ LinkRest /\ MacRest
HandlesDisconnected ==
  /\ Takes("Disconnected")
  /\ IF target
     THEN ready' = {} /\ retries' = 0 /\ target' = FALSE /\ state' = "scanning"
     ELSE UNCHANGED <<ready, retries, target, state>>
  /\ timers' = timers \ {"retry"}
  /\ UNCHANGED asked /\ LinkRest /\ MacRest

(* didFailToConnect and resumeScanningAfterConnectionFailure, after 2 s.   *)
HandlesCannotConnect ==
  /\ Takes("CannotConnect")
  /\ state' = "failed" /\ timers' = timers \cup {"rescan"}
  /\ UNCHANGED <<target, ready, retries, asked>> /\ LinkRest /\ MacRest

RescanDue ==
  /\ "rescan" \in timers /\ timers' = timers \ {"rescan"}
  /\ IF state # "connected" THEN target' = FALSE /\ state' = "scanning"
     ELSE UNCHANGED <<target, state>>
  /\ UNCHANGED <<ready, retries, asked, tasks>> /\ LinkRest /\ MacRest

(* reconnect, from the liveness timer of the service while connected or    *)
(* from the user at any time.                                              *)
Reconnect ==
  /\ target /\ Fault
  /\ Drops
  /\ UNCHANGED <<flashVars, gatt, reset, centralVars>>

MacStep ==
  \/ HandlesConnected \/ HandlesCharacteristics \/ HandlesFailure \/ HandlesSubscribed
  \/ HandlesKeyTaken \/ HandlesInsecure \/ GivesUp \/ HandlesDisconnected
  \/ HandlesCannotConnect

-----------------------------------------------------------------------------
Next ==
  \/ LinkLost \/ PowerCut \/ Encrypts \/ OtherConnects \/ OtherLeaves
  \/ GattStep \/ SaveFails \/ RadioStep \/ CannotConnect \/ Erases
  \/ Forgets \/ Terminates \/ LinkEnds
  \/ Finds \/ MacStep \/ RetryDue \/ RescanDue \/ Reconnect

(* Tasks run, timers end, the radio answers, other hosts leave.  Nothing   *)
(* promises that a link is encrypted before the retries are used up.       *)
Fairness ==
  /\ WF_vars(GattStep) /\ WF_vars(RadioStep) /\ WF_vars(MacStep)
  /\ WF_vars(Forgets) /\ WF_vars(Terminates) /\ WF_vars(LinkEnds)
  /\ WF_vars(Finds) /\ WF_vars(RetryDue) /\ WF_vars(RescanDue) /\ WF_vars(OtherLeaves)

Spec == Init /\ [][Next]_vars /\ Fairness

-----------------------------------------------------------------------------
(* A key the device holds is never replaced by another one: it has to be   *)
(* forgotten first, whatever was cut off or failed in between              *)
(* (ble_transport.c:61-98, 135-150, 380-405).                              *)
SecretNeverReplaced == [][key # "None" => key' \in {key, "None"}]_vars

(* A Mac that calls the device connected, over a link that is still up,    *)
(* shares its key with the device and is subscribed to both its streams,   *)
(* unless the pairing was reset under that very link: the reset forgets    *)
(* the key first and the disconnection comes later, or, if the termination *)
(* is refused, not at all (CompanionBLECentral.swift:283-285, 507-525,     *)
(* 569-571; ble_transport.c:398-407).                                      *)
ConnectedIsPaired ==
  state = "connected" /\ peer = "Mac" /\ ~unpaired =>
    key = "Mac" /\ subs = {"control", "audio"}

(* An attempt to connect ends, and a failed one is followed by a new scan  *)
(* unless the link it failed on is still up                                *)
(* (CompanionBLECentral.swift:315-353, 440-472).                           *)
AttemptsEnd ==
  /\ state = "connecting" ~> state # "connecting"
  /\ state = "failed" ~> state # "failed" \/ peer = "Mac"

=============================================================================
