--------------------------- MODULE BorrowedVoice ---------------------------
(***************************************************************************)
(* What a voice session may do to the user's Mac: it borrows the default   *)
(* input device, and perhaps a key, when it opens; it lets go of the key   *)
(* when it closes; and it returns the device when it has settled.  A new   *)
(* session may open while the last one settles.                            *)
(***************************************************************************)
CONSTANTS OwnMic, Routes

VARIABLES session, mic, key
vars == <<session, mic, key>>

Init == session = "none" /\ mic = OwnMic /\ key = FALSE

Open ==
  /\ session \in {"none", "settling"}
  /\ session' = "open"
  /\ mic' \in Routes
  /\ key' \in BOOLEAN

Close ==
  /\ session = "open"
  /\ session' = "settling"
  /\ key' = FALSE
  /\ UNCHANGED mic

(* A session that has closed settles; one that fails returns all at once.  *)
Return ==
  /\ session \in {"open", "settling"}
  /\ session' = "none"
  /\ mic' = OwnMic
  /\ key' = FALSE

Next == Open \/ Close \/ Return

(* Nothing stays borrowed by a session that has closed.                    *)
LeaveSettling == session = "settling" /\ (Open \/ Return)
Spec == Init /\ [][Next]_vars /\ WF_vars(LeaveSettling)
=============================================================================
