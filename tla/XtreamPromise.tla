--------------------------- MODULE XtreamPromise ---------------------------
(***************************************************************************)
(* XtreamPlaylists implements ServedCatalog as ManualChannels does.  The   *)
(* sweep is a client that changes the catalog once for each playlist and   *)
(* rebuilds once at its end; a kill and the start that follows are a       *)
(* Restart, since the list is rebuilt before the sweep begins.             *)
(***************************************************************************)
EXTENDS XtreamPlaylists, CatalogPromise

allPromiseVars == <<allVars, best, due>>

XtreamPromiseInit ==
  /\ XtreamInit
  /\ best = [w \in Views |-> 0]
  /\ due = [c \in Handlers |-> 0]

XtreamPromiseSpec == XtreamPromiseInit /\ [][XtreamNext /\ Record]_allPromiseVars

\* The sweep's goroutine is scheduled, and each of its requests ends within the
\* client's timeout.
FairXtreamSpec == XtreamPromiseSpec /\ WF_allVars(SweepStep)
=============================================================================
