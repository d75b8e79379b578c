----------------------------- MODULE MCDialogs -----------------------------
(* A channel added by hand; playlists with two rows that can be saved, one whose
   link is not in lower case, and one without a name. *)
EXTENDS Dialogs, TLC

CONSTANTS ch, e1, e2, upper, bad
=============================================================================
