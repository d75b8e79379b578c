--------------------------- MODULE MCBufferMonitor ---------------------------
(* BufferMonitor with values small enough to explore. *)
EXTENDS BufferMonitor
=============================================================================
