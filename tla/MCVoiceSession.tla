--------------------------- MODULE MCVoiceSession ---------------------------
(* Two profiles: a held key that brings its own input source and restores  *)
(* the user's, and one whose stop shortcut is missing and which restores   *)
(* nothing.                                                                *)
EXTENDS VoiceSession

MCProfiles ==
  {[mode |-> "hold", stop |-> FALSE, target |-> "VoiceInput", restore |-> TRUE],
   [mode |-> "separate", stop |-> FALSE, target |-> NoInput, restore |-> FALSE]}
MCHoldProfile ==
  {[mode |-> "hold", stop |-> FALSE, target |-> "VoiceInput", restore |-> TRUE]}
=============================================================================
