--------------------------- MODULE MCPlaylistTabs ---------------------------
(* Two playlists, one of which may be saved by the user; one other text to type,
   and both values of each setting. *)
EXTENDS PlaylistTabs
=============================================================================
