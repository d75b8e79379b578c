-------------------------- MODULE MCPlaylistFetch --------------------------
(* PlaylistPromise with named clients and time-to-lives of one and two ticks. *)
EXTENDS PlaylistPromise

CONSTANTS c1, c2
=============================================================================
