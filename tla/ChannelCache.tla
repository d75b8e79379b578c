---------------------------- MODULE ChannelCache ----------------------------
(***************************************************************************)
(* channelStore of main.go: the read-side cache in front of the catalog.   *)
(* Every handler that changes the channels table ends with rebuild(),      *)
(* which runs unserialised in that handler's goroutine:                    *)
(*   - ListChannels reads the table, outside any lock;                     *)
(*   - the JSON/gzip payload, its ETag and the count are swapped under mu; *)
(*   - afterRebuild then replaces the proxy's host -> header map, again    *)
(*     outside the lock.                                                   *)
(* Several handlers may stand between these steps at once.  This module    *)
(* holds the table, the cache and those three steps; ManualChannels and    *)
(* XtreamPlaylists add the handlers.                                       *)
(***************************************************************************)
EXTENDS CatalogRows

CONSTANTS
  Handlers, \* goroutines that change the catalog: one per request in flight
  Sweeper   \* the goroutine of the startup sweep; a handler only where it is modelled

VARIABLES
  db,        \* the channels table
  pc,        \* pc[c]: the step handler c takes next
  listed,    \* listed[c]: the table as c's rebuild read it
  cached,    \* the payload served by GET /api/channels, as the rows it shows
  headers,   \* the proxy's host -> header overrides
  epoch,     \* history: number of committed changes of the table
  reordered  \* history: a rebuild published a list older than the published one

cacheVars == <<listed, cached, headers, reordered>>

\* A read of the table, stamped with the number of changes it has seen.
Snapshot == [rows |-> db, at |-> epoch]

CacheInit(t) ==
  /\ db = t
  /\ pc = [c \in Handlers |-> "idle"]
  /\ listed = [c \in Handlers |-> [rows |-> t, at |-> 0]]
  /\ cached = [rows |-> t, at |-> 0]
  /\ headers = [map |-> UpstreamHeaders(t), at |-> 0]
  /\ epoch = 0
  /\ reordered = FALSE

Goto(c, step) == pc' = [pc EXCEPT ![c] = step]

\* A statement or transaction that changed the table.
Commit(t) == db' = t /\ epoch' = epoch + 1

\* Wrong on purpose: the rebuild starts from the list that is being served.
RebuildListFromCache(c) ==
  /\ pc[c] = "list"
  /\ listed' = [listed EXCEPT ![c] = cached]
  /\ Goto(c, "swap")
  /\ UNCHANGED <<db, epoch, cached, headers, reordered>>

\* Wrong on purpose: a rebuild joins one that is under way and shares its list.
RebuildListShared(c) ==
  /\ pc[c] = "list"
  /\ \E l \in {listed[d] : d \in {e \in Handlers : pc[e] = "swap"}} \union {Snapshot} :
       listed' = [listed EXCEPT ![c] = l]
  /\ Goto(c, "swap")
  /\ UNCHANGED <<db, epoch, cached, headers, reordered>>

\* rebuild: ListChannels.
RebuildList(c) ==
  /\ pc[c] = "list"
  /\ listed' = [listed EXCEPT ![c] = Snapshot]
  /\ Goto(c, "swap")
  /\ UNCHANGED <<db, epoch, cached, headers, reordered>>

\* rebuild: the swap under mu.
RebuildSwap(c) ==
  /\ pc[c] = "swap"
  /\ cached' = listed[c]
  /\ reordered' = (reordered \/ listed[c].at < cached.at)
  /\ Goto(c, "hook")
  /\ UNCHANGED <<db, epoch, listed, headers>>

\* rebuild: afterRebuild, then the handler answers.
RebuildHook(c) ==
  /\ pc[c] = "hook"
  /\ headers' = [map |-> UpstreamHeaders(listed[c].rows), at |-> listed[c].at]
  /\ reordered' = (reordered \/ listed[c].at < headers.at)
  /\ Goto(c, "idle")
  /\ UNCHANGED <<db, epoch, listed, cached>>

-----------------------------------------------------------------------------
(* Properties of the cache. *)

AtRest == \A c \in Handlers : pc[c] = "idle"

\* When every handler has answered, what GET /api/channels serves is the
\* catalog (channelStore: "rebuild() refreshes them from the DB after any
\* mutation").
PayloadCurrentAtRest == AtRest => cached.rows = db

\* Publishing lists out of order is the only way to end up stale: if no rebuild
\* overtook another, the payload and the header overrides are those of the
\* catalog once every handler has answered.  In particular no early return of a
\* handler, taken after its statement changed a row, skips a rebuild the
\* catalog still needed.
CurrentUnlessReordered ==
  AtRest /\ ~reordered => cached.rows = db /\ headers.map = UpstreamHeaders(db)
=============================================================================
