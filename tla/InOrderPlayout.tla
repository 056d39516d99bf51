--------------------------- MODULE InOrderPlayout ---------------------------
(***************************************************************************)
(* What the listener of a session hears: during a press, frames of a       *)
(* numbered stream, each once and never backwards, with silence in the     *)
(* place of frames that did not come.                                      *)
(***************************************************************************)
EXTENDS Naturals

CONSTANT Frames

VARIABLES
  open,   \* a press is being played
  last,   \* the place of the stream that was played last, 0 at its start
  silent, \* that place was filled with silence
  heard   \* the frames of this session that were played
vars == <<open, last, silent, heard>>

Init == open = FALSE /\ last = 0 /\ silent = FALSE /\ heard = {}

Open == open' = TRUE /\ last' = 0 /\ silent' = FALSE /\ UNCHANGED heard
Close == open' = FALSE /\ last' = 0 /\ silent' = FALSE /\ UNCHANGED heard

Play(n) ==
  /\ open /\ n > last /\ n \notin heard
  /\ last' = n /\ silent' = FALSE
  /\ heard' = heard \cup {n}
  /\ UNCHANGED open
Conceal(n) ==
  /\ open /\ n > last
  /\ last' = n /\ silent' = TRUE
  /\ UNCHANGED <<open, heard>>

(* A new session numbers its frames anew.                                  *)
NewSession == open' = FALSE /\ last' = 0 /\ silent' = FALSE /\ heard' = {}

Next ==
  \/ Open \/ Close \/ NewSession
  \/ \E n \in Frames : Play(n) \/ Conceal(n)
Spec == Init /\ [][Next]_vars
=============================================================================
