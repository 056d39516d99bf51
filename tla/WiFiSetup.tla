----------------------------- MODULE WiFiSetup -----------------------------
(***************************************************************************)
(* How the device gets onto a Wi-Fi network: the model of wifi_state.c and *)
(* the three tasks of wifi_manager.c that change it.  The setup task opens *)
(* the hotspot and its web page, the web server takes the credentials, and *)
(* the event task hears from the station driver.  No lock orders them, so  *)
(* each is split at the calls that another task can act between.           *)
(*                                                                         *)
(* The driver is external: it joins, fails or loses a network when it      *)
(* likes, may refuse any call, and posts an event for every end.  A        *)
(* network it has joined may never give it an address, which no event      *)
(* tells and no timeout of the code ends.                                  *)
(***************************************************************************)
EXTENDS Naturals, Sequences, SequencesExt

CONSTANTS
  MaxEvents,  \* bound: events waiting for the event task
  MaxTries    \* bound: forms submitted, setups opened and networks lost

ASSUME BoundsAssumption == MaxEvents \in Nat \ {0} /\ MaxTries \in Nat

VARIABLES
  state,      \* g_model.state
  hint,       \* g_portal_hint, by its meaning
  station,    \* the station of the driver: idle, joining, associated with a
              \* network, or joined with an address of it
  saved,      \* the driver's flash holds a network name
  ap,         \* the driver also runs the hotspot (WIFI_MODE_APSTA)
  portal,     \* g_portal
  reconnect,  \* g_reconnect_after_disconnect
  events,     \* the queue of the default event loop
  setup,      \* the step of wifi_setup_task
  web,        \* the step of portal_configure
  handler,    \* the step of wifi_event_handler
  tries       \* what is left of MaxTries

driverVars == <<station, saved, ap>>
setupVars == <<state, hint, driverVars, portal, reconnect, events, setup, web, handler, tries>>

States == {"Unconfigured", "SoftAP", "Connecting", "Connected", "Failed"}

SetupTypeOK ==
  /\ state \in States
  /\ hint \in {"None", "Setup", "NoSetup", "Connecting", "Connected", "Failed"}
  /\ station \in {"Idle", "Joining", "Associated", "Joined"}
  /\ saved \in BOOLEAN /\ ap \in BOOLEAN /\ portal \in BOOLEAN /\ reconnect \in BOOLEAN
  /\ events \in BoundedSeq({"Disconnected", "GotIp"}, MaxEvents)
  /\ setup \in {"idle", "begin", "hotspot", "open"}
  /\ web \in {"idle", "stored", "refused"}
  /\ handler \in {"idle", "retire"}
  /\ tries \in 0..MaxTries

-----------------------------------------------------------------------------
(* cc_wifi_event: the state after an event.                                *)
After(event) ==
  CASE event = "BeginProvisioning" -> "SoftAP"
    [] event = "CredentialsAccepted" ->
         IF state \in {"SoftAP", "Unconfigured", "Failed"} THEN "Connecting" ELSE state
    [] event = "GotIp" -> IF state = "Connecting" THEN "Connected" ELSE state
    [] event = "ConnectionFailed" -> IF state = "Connecting" THEN "Failed" ELSE state

ConnectionFails == state' = After("ConnectionFailed") /\ hint' = "Failed"

(* cc_wifi_start at boot: a stored network is joined at once, and a refusal *)
(* of the driver is not looked at.  A restart comes back to one of these.  *)
SetupInit ==
  /\ saved \in BOOLEAN
  /\ state = IF saved THEN "Connecting" ELSE "Unconfigured"
  /\ hint = IF saved THEN "Connecting" ELSE "None"
  /\ station \in IF saved THEN {"Joining", "Idle"} ELSE {"Idle"}
  /\ ap = FALSE /\ portal = FALSE /\ reconnect = FALSE
  /\ events = <<>> /\ setup = "idle" /\ web = "idle" /\ handler = "idle"
  /\ tries = MaxTries

-----------------------------------------------------------------------------
(* The driver.                                                             *)
PostEvent(event) == Len(events) < MaxEvents /\ events' = Append(events, event)

DriverRest == UNCHANGED <<state, hint, saved, ap, portal, reconnect, setup, web, handler>>

Associates ==
  /\ station = "Joining" /\ station' = "Associated"
  /\ UNCHANGED <<events, tries>> /\ DriverRest

GetsAddress ==
  /\ station = "Associated" /\ station' = "Joined"
  /\ PostEvent("GotIp")
  /\ UNCHANGED tries /\ DriverRest

CannotJoin ==
  /\ station = "Joining" /\ station' = "Idle"
  /\ PostEvent("Disconnected")
  /\ UNCHANGED tries /\ DriverRest

LosesNetwork ==
  /\ station \in {"Associated", "Joined"} /\ station' = "Idle"
  /\ tries > 0 /\ tries' = tries - 1
  /\ PostEvent("Disconnected")
  /\ DriverRest

-----------------------------------------------------------------------------
(* begin_wifi_setup and wifi_setup_task: one at a time, by                 *)
(* wifi_setup_pending.                                                     *)
OpenSetup ==
  /\ setup = "idle" /\ tries > 0
  /\ setup' = "begin" /\ tries' = tries - 1
  /\ UNCHANGED <<state, hint, driverVars, portal, reconnect, events, web, handler>>

(* cc_wifi_begin_provisioning refuses when memory is short or the driver   *)
(* fails, and then when the server does; the hotspot stays on.             *)
NoHotspot ==
  /\ setup = "begin" /\ setup' = "idle"
  /\ hint' \in {hint, "NoSetup"}
  /\ UNCHANGED <<state, driverVars, portal, reconnect, events, web, handler, tries>>

OpenHotspot ==
  /\ setup = "begin" /\ setup' \in {"hotspot", "idle"}
  /\ ap' = TRUE
  /\ UNCHANGED <<state, hint, station, saved, portal, reconnect, events, web, handler, tries>>

OpenPortal ==
  /\ setup = "hotspot"
  /\ \/ setup' = "open" /\ portal' = TRUE
     \/ setup' = "idle" /\ ~portal /\ UNCHANGED portal
  /\ UNCHANGED <<state, hint, driverVars, reconnect, events, web, handler, tries>>

ShowSetup ==
  /\ setup = "open" /\ setup' = "idle"
  /\ state' = After("BeginProvisioning") /\ hint' = "Setup"
  /\ UNCHANGED <<driverVars, portal, reconnect, events, web, handler, tries>>

SetupStep == NoHotspot \/ OpenHotspot \/ OpenPortal \/ ShowSetup

-----------------------------------------------------------------------------
(* portal_configure: a form that is refused changes nothing but the host   *)
(* address; one that is accepted is stored, then the station is moved over. *)
(* The page is served to the hotspot and to the network of the station.    *)
Configure ==
  /\ portal /\ (ap \/ station = "Joined") /\ web = "idle" /\ tries > 0
  /\ tries' = tries - 1
  /\ web' = "stored" /\ saved' = TRUE
  /\ state' = After("CredentialsAccepted") /\ hint' = "Connecting"
  /\ reconnect' = TRUE
  /\ UNCHANGED <<station, ap, portal, events, setup, handler>>

WebRest == UNCHANGED <<saved, ap, portal, setup, handler, tries>>

Disconnects ==
  /\ web = "stored" /\ station # "Idle"
  /\ web' = "idle" /\ station' = "Idle"
  /\ PostEvent("Disconnected")
  /\ UNCHANGED <<state, hint, reconnect>> /\ WebRest

(* ESP_ERR_WIFI_NOT_CONNECT.                                               *)
KeepsReconnect ==
  /\ web = "stored" /\ station = "Idle"
  /\ web' = "idle"
  /\ \/ station' = "Joining" /\ UNCHANGED <<state, hint>>
     \/ station' = station /\ ConnectionFails
  /\ UNCHANGED <<reconnect, events>> /\ WebRest
ConnectsAtOnce ==
  /\ web = "stored" /\ station = "Idle"
  /\ web' = "idle" /\ reconnect' = FALSE
  /\ \/ station' = "Joining" /\ UNCHANGED <<state, hint>>
     \/ station' = station /\ ConnectionFails
  /\ UNCHANGED events /\ WebRest

DriverRefuses ==
  /\ web = "stored"
  /\ web' = "idle" /\ reconnect' = FALSE
  /\ ConnectionFails
  /\ UNCHANGED <<station, events>> /\ WebRest

WebStep == Disconnects \/ ConnectsAtOnce \/ DriverRefuses

-----------------------------------------------------------------------------
(* wifi_event_handler.                                                     *)
HandlerRest == UNCHANGED <<saved, setup, web, tries>>

Next1(event) ==
  handler = "idle" /\ events # <<>> /\ Head(events) = event /\ events' = Tail(events)

LostWhileMoving ==
  /\ Next1("Disconnected") /\ reconnect
  /\ reconnect' = FALSE
  /\ \/ station = "Idle" /\ station' = "Joining" /\ UNCHANGED <<state, hint>>
     \/ station' = station /\ ConnectionFails
  /\ UNCHANGED <<ap, portal, handler>> /\ HandlerRest

LostIsIgnored ==
  /\ Next1("Disconnected") /\ ~reconnect
  /\ UNCHANGED <<state, hint, station, ap, portal, reconnect, handler>> /\ HandlerRest
Lost ==
  /\ Next1("Disconnected") /\ ~reconnect
  /\ IF state \in {"Connecting", "Connected"} THEN ConnectionFails ELSE UNCHANGED <<state, hint>>
  /\ UNCHANGED <<station, ap, portal, reconnect, handler>> /\ HandlerRest

GotIp ==
  /\ Next1("GotIp")
  /\ state' = After("GotIp") /\ hint' = "Connected"
  /\ handler' = "retire"
  /\ UNCHANGED <<station, ap, portal, reconnect>> /\ HandlerRest

(* httpd_stop waits for a request that is being served.  The hotspot       *)
(* exists once a setup has asked for it; going back to station mode then    *)
(* changes nothing when it is off already.                                 *)
KeepsPortal ==
  /\ handler = "retire" /\ web = "idle"
  /\ handler' = "idle" /\ ap' = FALSE
  /\ UNCHANGED <<state, hint, station, portal, reconnect, events>> /\ HandlerRest
RetirePortal ==
  /\ handler = "retire" /\ web = "idle"
  /\ handler' = "idle" /\ portal' = FALSE /\ ap' = FALSE
  /\ UNCHANGED <<state, hint, station, reconnect, events>> /\ HandlerRest

HandlerStep == LostWhileMoving \/ Lost \/ GotIp \/ RetirePortal

-----------------------------------------------------------------------------
SetupNext ==
  \/ Associates \/ GetsAddress \/ CannotJoin \/ LosesNetwork
  \/ OpenSetup \/ SetupStep \/ Configure \/ WebStep \/ HandlerStep

(* The tasks are scheduled and the driver ends every attempt to join; the  *)
(* user and the network, with the addresses it may give, are free.         *)
SetupFairness ==
  /\ WF_setupVars(SetupStep) /\ WF_setupVars(WebStep) /\ WF_setupVars(HandlerStep)
  /\ WF_setupVars(Associates \/ CannotJoin)

SetupSpec == SetupInit /\ [][SetupNext]_setupVars /\ SetupFairness

-----------------------------------------------------------------------------
(* A flag that waits for the disconnection of a move gets one, so it never *)
(* outlives the move and eats the loss of a network long after.  It may be *)
(* a loss nobody asked for that was still queued when the form came, which *)
(* is then taken for the end of the move (wifi_manager.c:179-196, 209-216). *)
ReconnectIsAwaited ==
  reconnect => web = "stored" \/ "Disconnected" \in Range(events)

(* The web page that takes credentials is gone once the device is online,  *)
(* whatever the three tasks did meanwhile (wifi_manager.c:222-229).        *)
PortalIsRetired ==
  state = "Connected" /\ handler = "idle" /\ setup = "idle" => ~portal

(* A device that is connecting and that the driver still works for ends up *)
(* connected or with an error on its screen, also when the user sends the  *)
(* form again or opens the setup meanwhile.  Only a network that takes the *)
(* station and never gives it an address leaves it connecting, for ever    *)
(* (wifi_manager.c:173-230).                                               *)
ConnectingEnds ==
  state = "Connecting" /\ (station # "Idle" \/ events # <<>>)
    ~> state # "Connecting" \/ [](station = "Associated")

(* A station that reports its address makes the device connected, so that  *)
(* the transport task can start discovery (wifi_state.c:41-43).            *)
AddressConnects == hint = "Connected" /\ setup = "idle" => state = "Connected"
=============================================================================
