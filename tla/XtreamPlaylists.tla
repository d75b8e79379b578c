-------------------------- MODULE XtreamPlaylists --------------------------
(***************************************************************************)
(* Saved Xtream playlists (internal/store and main.go) on top of the       *)
(* channel handlers: the xtream_playlists table, the handlers that save,   *)
(* refresh, change and delete a playlist, and the sweep each start of the  *)
(* server runs once over the playlists whose cadence has elapsed.          *)
(*   save     POST   /api/xtream/playlists               fetch, INSERT,    *)
(*                                                import, stamp, rebuild   *)
(*   refresh  POST   /api/xtream/playlists/{id}/refresh  read, fetch,      *)
(*                                                import, stamp, rebuild   *)
(*   patch    PATCH  /api/xtream/playlists/{id}          UPDATE, read      *)
(*   remove   DELETE /api/xtream/playlists/{id}          transaction,      *)
(*                                                       rebuild           *)
(* A job works with the playlist it read before the panel answered.  The   *)
(* category request only adds group names and its failure is ignored: it   *)
(* is part of the same wait.  Time is counted in days.                     *)
(***************************************************************************)
EXTENDS ManualChannels

CONSTANTS
  PlaylistOps,  \* the playlist handlers in use
  Freqs,        \* update_freq values in use
  Panels,       \* answers the panel may give: stream -> name
  FirstDay,     \* the day the server first starts
  MaxDay,       \* bound on the clock
  MaxRestarts   \* bound on crashes and restarts of the server

refreshInterval ==
  [f \in {"manual", "daily", "3days", "weekly"} |->
     CASE f = "daily" -> 1 [] f = "3days" -> 3 [] f = "weekly" -> 7 [] OTHER -> 0]

ASSUME FreqsAreKnown == Freqs \subseteq DOMAIN refreshInterval /\ "manual" \in Freqs
ASSUME PanelsNameStreams ==
  \A a \in Panels : DOMAIN a \subseteq StreamIds /\ \A s \in DOMAIN a : a[s] \in NameOrBlank
ASSUME SweeperIsHandler == Sweeper \in Handlers
ASSUME DaysAreNat == {FirstDay, MaxDay, MaxRestarts} \subseteq Nat /\ FirstDay <= MaxDay
\* The wall clock is further from 1970 than the longest cadence.
ASSUME ClockIsLate == \A f \in Freqs : FirstDay >= refreshInterval[f]

VARIABLES
  playlists,  \* the xtream_playlists table: id -> [setting, freq, last]
  minted,     \* playlist ids ever drawn (random, never drawn twice)
  job,        \* job[c]: the playlist c works on and what the sweep has left
  day,        \* the clock
  restarts,   \* restarts so far
  imported    \* history: playlists some import has been committed for

playlistVars == <<playlists, minted, job, day, restarts, imported>>
allVars == <<vars, playlistVars>>

Playlist == [setting : Settings, freq : Freqs, last : Nat]

NoJob == [id |-> NoPlaylist, setting |-> NoPlaylist, panel |-> <<>>,
          todo |-> {}, refreshed |-> FALSE]

PlaylistRequests ==
  {r \in [op : {"save"}, setting : Settings]
         \union [op : {"refresh", "remove"}, id : PlaylistIds]
         \union [op : {"patch"}, id : PlaylistIds, setting : Settings]
         \union [op : {"patch"}, id : PlaylistIds, freq : Freqs] : r.op \in PlaylistOps}

XtreamInit ==
  /\ Init
  /\ playlists = [p \in {} |-> [setting |-> 0, freq |-> "manual", last |-> 0]]
  /\ minted = {}
  /\ job = [c \in Handlers |-> NoJob]
  /\ day = FirstDay
  /\ restarts = 0
  /\ imported = {}

-----------------------------------------------------------------------------
(* Handlers. *)

\* An early return of a playlist handler.
Fail(c, code) == Return(c, code) /\ UNCHANGED playlistVars

\* A step of a playlist handler that touches neither the channels table nor
\* the cache.
Proceed(c, step) == Goto(c, step) /\ UNCHANGED <<db, epoch, cacheVars, handlerVars>>

PlaylistArrive(c, r) ==
  /\ c # Sweeper /\ pc[c] = "idle" /\ left > 0
  /\ left' = left - 1
  /\ Answer(c, "none")
  /\ req' = [req EXCEPT ![c] = r]
  /\ Goto(c, IF r.op = "save" THEN "fetch"
             ELSE IF r.op = "refresh" THEN "getplaylist" ELSE "change")
  /\ job' = [job EXCEPT ![c] =
               IF r.op = "save" THEN [NoJob EXCEPT !.setting = r.setting] ELSE NoJob]
  /\ UNCHANGED <<db, epoch, cacheVars, read, playlists, minted, day, restarts, imported>>

\* refresh: GetXtreamPlaylist.
GetPlaylist(c) ==
  /\ pc[c] = "getplaylist"
  /\ LET p == req[c].id IN
     \/ p \notin DOMAIN playlists /\ Fail(c, "404")
     \/ /\ p \in DOMAIN playlists
        /\ job' = [job EXCEPT ![c].id = p, ![c].setting = playlists[p].setting]
        /\ Proceed(c, "fetch")
        /\ UNCHANGED <<playlists, minted, day, restarts, imported>>

\* Wrong on purpose: the sweep stamps a playlist whose panel failed, to try it
\* again only a cadence later.
FetchStampsFailure(c) ==
  /\ pc[c] = "fetch"
  /\ \/ c # Sweeper /\ Fail(c, "502")
     \/ c = Sweeper /\ Proceed(c, "stamp") /\ UNCHANGED playlistVars
     \/ \E panel \in Panels :
          /\ job' = [job EXCEPT ![c].panel = panel]
          /\ Proceed(c, IF job[c].id = NoPlaylist THEN "save" ELSE "import")
          /\ UNCHANGED <<playlists, minted, day, restarts, imported>>

\* Wrong on purpose: the sweep tries a panel that failed again at once.
FetchRetries(c) ==
  /\ pc[c] = "fetch"
  /\ \/ c # Sweeper /\ Fail(c, "502")
     \/ /\ c = Sweeper
        /\ job' = [job EXCEPT ![c].todo = @ \union {[id |-> job[c].id, setting |-> job[c].setting]}]
        /\ Proceed(c, "sweep")
        /\ UNCHANGED <<playlists, minted, day, restarts, imported>>
     \/ \E panel \in Panels :
          /\ job' = [job EXCEPT ![c].panel = panel]
          /\ Proceed(c, IF job[c].id = NoPlaylist THEN "save" ELSE "import")
          /\ UNCHANGED <<playlists, minted, day, restarts, imported>>

\* LiveStreams answers or fails (15 s client timeout); a handler gives up, the
\* sweep goes on with its next playlist.
Fetch(c) ==
  /\ pc[c] = "fetch"
  /\ \/ c # Sweeper /\ Fail(c, "502")
     \/ c = Sweeper /\ Proceed(c, "sweep") /\ UNCHANGED playlistVars
     \/ \E panel \in Panels :
          /\ job' = [job EXCEPT ![c].panel = panel]
          /\ Proceed(c, IF job[c].id = NoPlaylist THEN "save" ELSE "import")
          /\ UNCHANGED <<playlists, minted, day, restarts, imported>>

\* SaveXtreamPlaylist, once the panel has accepted the credentials.
SavePlaylist(c) ==
  /\ pc[c] = "save"
  /\ \E p \in PlaylistIds \ minted :
       /\ minted' = minted \union {p}
       /\ playlists' = [q \in DOMAIN playlists \union {p} |->
                          IF q = p THEN [setting |-> job[c].setting, freq |-> "manual", last |-> 0]
                          ELSE playlists[q]]
       /\ job' = [job EXCEPT ![c].id = p]
  /\ Proceed(c, "import")
  /\ UNCHANGED <<day, restarts, imported>>

\* importXtreamStreams: links are built from the settings in the job.
Import(c) ==
  /\ pc[c] = "import"
  /\ Write(c, UpsertXtream(db, job[c].id, job[c].setting, job[c].panel), "stamp")
  /\ imported' = imported \union {job[c].id}
  /\ UNCHANGED <<playlists, minted, job, day, restarts>>

\* StampXtreamRefreshed: an UPDATE that may match no row.
Stamp(c) ==
  /\ pc[c] = "stamp"
  /\ playlists' = [p \in DOMAIN playlists |->
                     IF p = job[c].id THEN [playlists[p] EXCEPT !.last = day] ELSE playlists[p]]
  /\ job' = [job EXCEPT ![c].refreshed = TRUE]
  /\ Proceed(c, IF c = Sweeper THEN "sweep" ELSE "list")
  /\ UNCHANGED <<minted, day, restarts, imported>>

\* UpdatePlaylistFields, then the read of the row; no rebuild.
Patch(c) ==
  /\ At(c, "patch", "change")
  /\ LET p == req[c].id IN
     \/ p \notin DOMAIN playlists /\ Fail(c, "404")
     \/ /\ p \in DOMAIN playlists
        /\ playlists' = [playlists EXCEPT ![p] =
                           IF "freq" \in DOMAIN req[c] THEN [@ EXCEPT !.freq = req[c].freq]
                           ELSE [@ EXCEPT !.setting = req[c].setting]]
        /\ Proceed(c, "patched")
        /\ UNCHANGED <<minted, job, day, restarts, imported>>

PatchRead(c) ==
  /\ pc[c] = "patched"
  /\ Fail(c, IF req[c].id \in DOMAIN playlists THEN "200" ELSE "404")

\* DeleteXtreamPlaylist: channels and playlist go in one transaction, which is
\* rolled back when the playlist is not there.
RemovePlaylist(c) ==
  /\ At(c, "remove", "change")
  /\ LET p == req[c].id IN
     \/ p \notin DOMAIN playlists /\ Fail(c, "404")
     \/ /\ p \in DOMAIN playlists
        /\ Write(c, DropPlaylist(db, p), "list")
        /\ playlists' = [q \in DOMAIN playlists \ {p} |-> playlists[q]]
        /\ UNCHANGED <<minted, job, day, restarts, imported>>

-----------------------------------------------------------------------------
(* The startup sweep. *)

Due(p) ==
  /\ refreshInterval[playlists[p].freq] # 0
  /\ day >= playlists[p].last + refreshInterval[playlists[p].freq]

\* DueXtreamPlaylists, read once with the credentials of each playlist.
SweepStart ==
  /\ pc[Sweeper] = "start"
  /\ job' = [job EXCEPT ![Sweeper] =
               [NoJob EXCEPT !.todo = {[id |-> p, setting |-> playlists[p].setting] :
                                         p \in {q \in DOMAIN playlists : Due(q)}}]]
  /\ Proceed(Sweeper, "sweep")
  /\ UNCHANGED <<playlists, minted, day, restarts, imported>>

\* The next playlist of the list, or the one rebuild at the end.
SweepNext ==
  /\ pc[Sweeper] = "sweep"
  /\ \/ \E p \in job[Sweeper].todo :
          /\ job' = [job EXCEPT ![Sweeper].id = p.id, ![Sweeper].setting = p.setting,
                                ![Sweeper].todo = @ \ {p}]
          /\ Proceed(Sweeper, "fetch")
     \/ /\ job[Sweeper].todo = {}
        /\ Proceed(Sweeper, IF job[Sweeper].refreshed THEN "list" ELSE "idle")
        /\ UNCHANGED job
  /\ UNCHANGED <<playlists, minted, day, restarts, imported>>

-----------------------------------------------------------------------------
(* Surroundings: time, and the process being killed and started again.  The
   tables survive; goroutines do not; the payload and the header overrides are
   rebuilt before the sweep starts. *)

Tick ==
  /\ day < MaxDay
  /\ day' = day + 1
  /\ UNCHANGED <<vars, playlists, minted, job, restarts, imported>>

Restart ==
  /\ restarts < MaxRestarts
  /\ restarts' = restarts + 1
  /\ pc' = [c \in Handlers |-> IF c = Sweeper THEN "start" ELSE "idle"]
  /\ cached' = Snapshot
  /\ headers' = [map |-> UpstreamHeaders(db), at |-> epoch]
  /\ reordered' = FALSE
  /\ job' = [c \in Handlers |-> NoJob]
  /\ req' = [c \in Handlers |-> Idle]
  /\ answer' = [c \in Handlers |-> "none"]
  /\ UNCHANGED <<db, epoch, listed, read, left, playlists, minted, day, imported>>

-----------------------------------------------------------------------------
PlaylistStep(c) ==
  \/ GetPlaylist(c)
  \/ Fetch(c)
  \/ SavePlaylist(c)
  \/ Import(c)
  \/ Stamp(c)
  \/ Patch(c)
  \/ PatchRead(c)
  \/ RemovePlaylist(c)

SweepStep ==
  \/ SweepStart
  \/ SweepNext
  \/ Fetch(Sweeper)
  \/ Import(Sweeper)
  \/ Stamp(Sweeper)
  \/ Rebuild(Sweeper) /\ UNCHANGED playlistVars

XtreamNext ==
  \/ Next /\ UNCHANGED playlistVars
  \/ \E c \in Handlers :
       \/ \E r \in PlaylistRequests : PlaylistArrive(c, r)
       \/ PlaylistStep(c)
  \/ SweepStart
  \/ SweepNext
  \/ Tick
  \/ Restart

XtreamSpec == XtreamInit /\ [][XtreamNext]_allVars

-----------------------------------------------------------------------------
(* Properties. *)

XtreamTypeOK ==
  /\ IsCatalog(db)
  /\ DOMAIN playlists \subseteq minted /\ minted \subseteq PlaylistIds
  /\ \A p \in DOMAIN playlists : playlists[p] \in Playlist
  /\ \A c \in Handlers : req[c] \in Requests \union PlaylistRequests \union {Idle}
  /\ \A c \in Handlers : pc[c] \in {"import", "stamp"} => job[c].id \in PlaylistIds
  /\ day \in FirstDay..MaxDay

Orphans(t, ps) == {i \in DOMAIN t : t[i].playlist \notin DOMAIN ps \union {NoPlaylist}}

\* Rows of a deleted playlist come back in one way only: the import of a job
\* that read the playlist, or saved it, before it was deleted.  The deletion
\* itself leaves none of its channels behind, favourited, edited or not.
OrphansOnlyByLateImport ==
  [][Orphans(db', playlists') \subseteq Orphans(db, playlists)
       \/ \E c \in Handlers : /\ pc[c] = "import" /\ pc'[c] = "stamp"
                              /\ job[c].id \notin DOMAIN playlists]_allVars

\* A playlist that carries a refresh time has had its channels imported: a
\* panel that fails, or a kill between two steps, leaves it due for the next
\* start.
StampedWasImported ==
  \A p \in DOMAIN playlists : playlists[p].last > 0 => p \in imported

\* Saved playlists in one invariant: types, what a refresh time says, and that
\* a list at rest is the catalog unless rebuilds overtook each other, whatever
\* the sweep, imports and deletions of playlists do.
SavedOK == XtreamTypeOK /\ StampedWasImported /\ CurrentUnlessReordered

\* Every startup sweep comes to its end, whatever panels fail and whatever
\* requests run meanwhile.
SweepEnds == pc[Sweeper] = "start" ~> pc[Sweeper] = "idle"

-----------------------------------------------------------------------------
(* What a comment of the code says and the handlers do not do. *)

\* DeleteXtreamPlaylist removes a playlist "together with every channel it
\* imported": no row belongs to a playlist that is gone.
NoOrphans == Orphans(db, playlists) = {}
=============================================================================
