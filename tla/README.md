# Verification of watchLive

watchLive is a personal IPTV viewer: one Go process (`src/main.go` and
`src/internal/*`) that keeps a catalog of channels in SQLite, serves a single
page and a JSON API, proxies and caches HLS playlists and segments, records
streams with ffmpeg, and a browser front end (`src/web/static/*`) with a grid of
players. This directory holds TLA+ models of the parts of both whose steps
interleave, TLC runs over small instances of them, and TLAPS proofs for every
value of their constants.

## 1. Inventory

| Component | State it keeps | Operations | What is hard | What makes it correct |
|---|---|---|---|---|
| Catalog store (`internal/store`) | SQLite tables `channels`, `xtream_playlists`, `meta`; one connection | upserts, updates, deletes, list; import and playlist transactions | a method is several statements and other handlers run between them; ids are hashes of what a row first was | favourites survive, nothing deleted returns, links stay unique |
| Channel list cache (`channelStore` in `main.go`) | payload, gzip, ETag, count under `mu`; the proxy's host → header overrides | `rebuild` at the end of every mutation, `seedIfEmpty`, GET | list, swap and hook are three unsynchronised steps, run by many handlers at once | the cache is the catalog once everybody has answered; a client sees its own write |
| Channel handlers (`main.go`) | the request in flight | favourite, add, add-resolvable, update, delete, resolve, import/save | checks before writes, a network call between a read and a write, early returns | every committed change is followed by a rebuild |
| Saved Xtream playlists, startup sweep (`main.go`, `store`, `internal/xtream`) | playlist rows, refresh stamps | save, refresh, patch, delete; one sweep per start | work with a row read before the panel answered; a kill between import and stamp | no channels without a playlist, a stamp means imported, the sweep ends |
| Proxy, playlists (`internal/proxy`) | micro-cache (2 s), last-known-good copy (30 s), inflight map | ServeHTTP, fetchShared, fetchUpstream | single flight: the call leaves the map before its waiters wake; two caches stored one after the other; expiry and eviction | one request upstream, everyone answered, no playlist goes back in time |
| Proxy, segments (`internal/proxy`) | segment cache, token channel `sem`, set `pf` | serveTS, fetchShared, schedulePrefetch and its goroutines | three independent ways to the upstream, a token passed from scheduler to goroutine | no token lost, bounded warm-ups, bounded fan-out |
| LRU cache (`internal/proxy/cache.go`) | entries, bytes in use | get, set | byte accounting over replace, expire, evict | bytes = sum of entries ≤ limit |
| Recorder (`internal/recorder`, `main.go`) | active ffmpeg processes | Start, its waiting goroutine, Stop, StopAll, shutdown | two stops at once, an ffmpeg that ends by itself or does not end, a shutdown while requests are served | an answered stop is final; nothing survives the shutdown that it could see |
| Keystore (`internal/keystore`) | KID → key map, `keys.json` | Open, Merge, All | memory changes before the file is written | the file is whole; what was acknowledged is on disk |
| Resolver (`internal/resolver`) | token cache per argument | Resolve | concurrent misses | a resolved link is not older than its lifetime |
| Playlist parser, feed sync, enrichment | none / `meta` | Parse, UpsertChannels, PruneOrphans | ids depend on the order of the feed | favourites stay with their channels |
| Page: players and cells (`cell.js`, `player.js`, `grid.js`) | a channel, player, token, server index, overlay and panel per cell | assign, clear, play, fail over, resolve, add, remove, settings | callbacks of players that were replaced, players of which none comes any more, answers to cells that moved on | a cell says what its present player does; failover is complete |
| Page: buffering monitor (`cell.js`) | `filling`, `autoPaused`, an interval per cell | handlers of waiting, playing, pause; the interval | events queued before the monitor paused the element are handled after it | the playhead is released, the interval cleared, the user's pause kept |
| Page: sound and recording (`audio.js`) | the cell with the sound, mute, the recording's id, cell and clock | applyAudio at the end of every change; start and stop | the page has no id until the start is answered | what is recorded is what is heard and can be stopped |
| Page: channel list and picker (`channels.js`, `playlists.js`, `init.js`, `picker.js`) | channels, favourites, filters, tab, debounced searches, marks of dead channels | load, toggle a favourite, filter, pick, draw | a star shown before the server knows, loads and answers that cross, a draw after every change | the page agrees with the server at rest, and shows its own state |
| Page: dialogs (`modals.js`) | drawer, form, review, conflicts, scrim, buttons that wait | open, close, submit, parse, check, save | a dialog is closed and reused while its request is under way; page and server do not take the same links | what the server takes is saved before it closes, no button or scrim left behind |
| Page: playlist tabs (`xtream.js`, `playlist-tab.js`, `channel-list-tab.js`) | the list of saved playlists three times, a selection, an open field, spinners | list, import, refresh, change settings, edit in place, delete | answers act on whatever the tab shows by then; Enter, Escape and blur each end an edit | tabs agree with the server, only what was confirmed is saved |
| Page: service worker (`sw.js`) | shell cache | install, activate, fetch | – | – |

The components meet like this. Handlers call store methods (SQL statements on
one connection), then `rebuild`, which reads the table, replaces the served
payload and hands the proxy new header overrides. Resolve and import/save also
talk to a provider and to the keystore. Saved playlists are imported into the
same table by handlers and by the startup sweep. The proxy's playlist path ends,
for a media playlist, by scheduling warm-ups, which fill the cache the segment
path reads. On the page, every change of a cell's channel ends in `applyAudio`,
which may stop the recording; a favourite, a form or an import ends in a new load
of the list; the tabs of the form share the table of saved playlists with the
sweep.

`PROJECT.json` lists every component with its status, every hazard at its line,
and the lines behind every definition.

## 2. Modules

| Module | Models | Extends |
|---|---|---|
| `CatalogRows` | the tables' rows and each SQL statement as an operator from table to table | – |
| `ChannelCache` | `channelStore`: table, payload, header overrides, the three steps of `rebuild` | `CatalogRows` |
| `ManualChannels` | the channel handlers, one action per statement, network wait or early return | `ChannelCache` |
| `XtreamPlaylists` | saved playlists, their handlers, the startup sweep, kill and restart | `ManualChannels` |
| `ServedCatalog` | abstract: what the server promises to the clients that change its catalog | – |
| `CatalogPromise` | `ManualChannels` with two history variables, and the mapping to `ServedCatalog` | `ManualChannels` |
| `XtreamPromise` | `XtreamPlaylists` with the same history and mapping; fairness of the sweep | `XtreamPlaylists`, `CatalogPromise` |
| `LivePlaylist` | abstract: what the proxy promises to the players of one live playlist | – |
| `PlaylistFetch` | one playlist link in the proxy: caches, single flight, stale copy | – |
| `PlaylistPromise` | `PlaylistFetch` with two history variables, and the mapping to `LivePlaylist` | `PlaylistFetch` |
| `SegmentFetch` | the ways a segment reaches the cache; the warm-up pool | – |
| `Recorder` | Start, Stop, StopAll, ffmpeg, the end of the process | – |
| `Recording` | the page's sound and record button with the cells they follow | `Recorder` |
| `Screens` | channels, players, tokens, failover, links awaited, the settings panel | – |
| `BufferMonitor` | one cell's buffering monitor against its media element | – |
| `Library` | the channel list, its filters, favourites and the picker, against the server | – |
| `Dialogs` | drawer, form, review, conflicts, scrim and their requests | – |
| `PlaylistTabs` | the three tabs on saved playlists and their requests | – |
| `MC*` | values of the constants for TLC | the module of that name; `MCManualChannels` extends `CatalogPromise`, `MCPlaylistFetch` `PlaylistPromise`, `MCXtream` `XtreamPromise` |
| `CatalogProofs` | theorems and proofs about the catalog's modules and the refinement of `ServedCatalog` | `XtreamPromise` |
| `StreamProofs` | theorems and proofs about `SegmentFetch` and `BufferMonitor`, the two ends of a stream | both |
| `TabsProofs` | theorems and proofs about `PlaylistTabs` | `PlaylistTabs` |
| the other `*Proofs` | theorems and proofs | the module of that name, `PlaylistFetchProofs` extends `PlaylistPromise` |

**Correspondence, server.** A statement or transaction is atomic because the
store opens one connection; everything between two of them is an interleaving
point. `pc[c]` is where the goroutine of request `c` stands: `idle`, `read` (first
statement), `network` (a provider is asked), `write`, `reread` (the row is read
back for the answer), `list`/`swap`/`hook` (the three steps of `rebuild`), and for
playlists `getplaylist`, `fetch`, `save`, `import`, `stamp`, `change`, `patched`. `epoch`
counts committed changes of the table and stamps every list read from it: it is
a history variable, as are `reordered` and `imported`. In `PlaylistFetch` a
playlist's content is the clock at which the upstream produced it; `call[c]` is
the call a waiter joined. In `SegmentFetch` a token is held by a scheduler that
has sent it (`claim`) and then by the goroutine it started; a viewer of a .ts link
goes to `stream`, past the single flight. In `Recorder` a recording is named by
the request that started it; `ffmpeg[n]` is the child, `state[n]` and `stopped[n]` the
fields of the recording, `stop[c][n]` the call of Stop that caller `c` makes.

**Correspondence, page.** The page runs one callback at a time, so an action is a
whole callback (a click, an event of a player or of the media element, a timer, the
answer to a fetch) with everything it calls, and what interleaves is their order.
`Screens` keeps what a `cell` object keeps, with one `player` for its three player
fields, of which at most one is set; Shaka players destroyed before their promise
settled wait in `late`; `panel` holds the open settings panel with the server and the
player it was drawn for. `BufferMonitor` has the closure variables of `makeCell` and the
queue of events the element has raised and the page has not handled. `Recording`
repeats the few fields of cells the sound depends on; every action that
changes them ends in `ApplyAudio`, as the code does. In `Library`, `Dialogs` and
`PlaylistTabs` `calls` holds the requests under way; a request is handled by the server
(`Serve`, or together with its answer where the order makes no difference to
anyone) and answered in any order, and may fail. `view`, `pickerView`, `rows`,
`listing` are what was drawn last, so that a callback that forgets to draw is seen.

**History variables** (`tried`, `raced`, `overlap`, `moved`, `behind`, `cut`, `hurried`,
`meddled`, `confirmed`, ...) say what happened, never what may happen: no guard reads
them. Each names one condition under which a property is weaker, and its comment
says which; the properties without that condition are the ones that fail (section 3).

**Operators that are wrong.** An operator whose comment begins "Wrong on purpose"
belongs to no specification: each is a plausible bug, paired in `PROJECT.json` with
the property that finds it.

**Abstractions.** Columns no property depends on are left out; a blank name stands
for every refused entry; hashes are injective; links, names, recipes and hints
are model values. The merge of keys some handlers do touches only the keystore.
Storage errors (a full disk) are not modelled; a panic is not either. In
`PlaylistFetch` and `SegmentFetch` bodies have no size: the caches' limits
appear as eviction, which may happen to any entry at any time. In `BufferMonitor`
time is counted in periods of the interval, and the media element is external:
only the events that `play`, `pause`, `load` and the buffer raise, and their order,
are kept. In `Recorder` the eight seconds of Stop and the five of Shutdown are
choices of when. The volume is silent or not. Wording, layout, focus, scrolling and
folded sections are left out.

## 3. Runs

Passing runs:

| Run | Instance | Distinct states | Question |
|---|---|---|---|
| `manual` | 2 concurrent handlers, 3 requests of all 7 kinds, a name, 2 links, a header hint, a recipe, a feed row, 2 batches | 810,000 | Do the handlers keep cache, favourites, deletions and links right in every interleaving, does each client see its write, and the refinement of `ServedCatalog` |
| `xtream` | 2 handlers and the sweeper, 3 requests, 1 playlist, a panel that lists a stream with and one without a name, 2 days, 1 kill | 485,000 | What may playlist jobs do to a catalog that is edited meanwhile? Is a stamp always earned, and does the sweep end? |
| `playlist_fetch` | 2 clients, clock 0..3, lifetimes 1 and 2 | 175,000 | Single flight, everyone answered, and the refinement of `LivePlaylist` |
| `segment_fetch` | 2 schedulers, 2 tokens, 2 workers, 2 viewers, a .ts link and another | 950,000 | Tokens, claims, fan-out; a full pool gets room again |
| `screens` | 2 screens, a channel with a .mpd, a .ts and an .m3u8 link, a dynamic channel, a browser without a .ts player, 1 recovery, 4 actions | 136,000 | Does a screen play and say what it should when players and links answer late? Is failover complete? |
| `buffer_monitor` | buffer of 0..2, longest wait 2, plateau 1, up to 3 queued events | 13,000 | Is the playhead released, the interval cleared, the user's pause kept? |
| `recording` | 2 screens, 2 channels, 2 recordings, 4 actions, a reload, the shutdown | 92,000 | Is what is recorded what is heard, can it be stopped, is an answered stop final? |
| `library` | 4 channels (one by hand, two of a playlist, one of a feed with a namesake), 2 screens, a search term, 3 actions | 485,000 | Does the page agree with the server at rest, and always show its own state? |
| `dialogs` | 2 entries the server takes, one with its link in upper case, one invalid, 2 files, a channel, 6 actions | 404,000 | Is what the server takes of an import saved before its review closes; does every button and the scrim come back? |
| `playlist_tabs` | 2 playlists, 2 texts and the empty one, both settings, 4 actions | 1,210,000 | Do the tabs agree with the server, is only what was confirmed saved? |

Bounds. Every server hazard listed needs two actors and at most three requests: one
that makes the state, and two that race on it. A clock of 0..3 lets the
micro-cache expire twice and the last-known-good copy once during a fetch; three
clients and a clock of 2 were checked once, 7 million states. In `segment_fetch` a
third warm-up is possible only if the limit fails, and both segments are listed by both
schedulers. The sweep needs a playlist saved on one day and due on another, and a kill
between its steps. On the page the user's actions are bounded: four are what it takes to
add a screen, give both a channel, and remove or re-assign one while answers are
outstanding, or to open a tab, change and change back something while a request is under
way; six lead through a file, its review, an edit and the conflicts, with room to close a dialog
and start anew; three are enough in `library` because a load and a list of playlists are under
way from the start. Of the monitor's queue two events matter, the one handled and the one
behind it; it was also checked once with a wait of 4 and 5 queued events. Deadlock
checking is off where the bounded number of requests or actions runs out, which is no
deadlock of the system; it is on in `playlist_fetch`, `segment_fetch` and
`buffer_monitor`.

Fairness. `PlaylistPromise.FairPromiseSpec`: every request that has missed the cache is
weakly fair; goroutines are scheduled by the Go runtime and `upstreamLimit` ends every
upstream request. `SegmentFetch.FairSpec`: schedulers and workers are weakly fair for
the same reason; nobody has to refresh a playlist. `XtreamPromise.FairXtreamSpec`:
only the sweep's goroutine is weakly fair, its requests end by the client's
15 s timeout. `BufferMonitor.FairBufferSpec`: the browser handles queued events and runs an
interval that is set; the element and the user may do nothing for ever.
`Screens.FairSpec`: the answer to a resolve is weakly fair (the server's client has a
timeout), and so is what becomes of a starting player: the libraries limit each
request in time and in retries, so it plays, fails or falls silent. It falls silent when
what the page does about a failure has no effect (`player.js` 120-126), and then nothing is
owed: the property says what is left on the screen. `Recording.FairSpec`: the
recorder's goroutines and timers and the shutdown go on; ffmpeg, the user and the signal
need not do anything, and an ffmpeg that heeds nothing is killed, which is what
`StopsReturn` needs. `Dialogs.FairSpec`: a requested frame comes and a request is
answered, well or not. No strong fairness is assumed, and no fairness of clients.

What the properties show, beyond "nothing breaks":

- `CurrentUnlessReordered`, `OrphansOnlyByLateImport`, `FrozenOnlyByOlderEvent`,
  `LostOnlyByOverlap`, `OutlivesOnlyIfLater`, and `AgreesAtRest` in `Library` and
  `PlaylistTabs` each say that a guarantee one would like fails in *one* way only. The
  way is real, and reachable in the run (section "Words and code").
- `KeepsPromise` says of the proxy what a player sees of it: whatever is cached, shared,
  stale or evicted, an answer is never older than any answer anybody had when the request
  began.
- `KeepsCatalogPromise` says of the catalog what is true even where rebuilds overtake each
  other, as they do: a list may go back, but never behind the change of whoever publishes
  it, and no change is answered that nobody could have seen, unless a later one is still owed.
- `ViewIsCurrent` holds because every callback of the page that changes what a list
  depends on draws it; the exception is written in it: marks of dead channels are kept
  by name and buttons found by id, so a namesake shows its mark at the next drawing only.
- `LoadingEnds` says that a screen stays at "Connecting..." for one reason only, a player
  that fell silent before it played; `ClosedWhenSaved`, that an import whose review closes by
  itself loses the rows the server does not accept and no others.
- `PlaysWhatItNames` and `PanelIsCurrent` name two more: a dynamic channel's screen keeps
  the player before it, and starts a player even after it was removed; a mpegts player
  leaves the settings panel as it was.

### Words and code

Runs that must fail. Each quotes a sentence of the code and finds a behaviour that
contradicts it (`findings` in `PROJECT.json`):

- `buffer_frozen`: the element queues `waiting`, then `playing`; the monitor pauses it on the
  first and takes the second for a recovery, forgets that it holds the playhead and
  clears the interval ("so we can NEVER freeze forever"). The video stays paused until the
  user presses play.
- `settings_unselected`: "shows the settings block only when a playlist is selected"
  (`xtream.js` 75-76). Selecting a playlist that was never imported puts the spinner into
  the select itself, which takes its options away; the settings show with nothing
  selected, and if the import fails the select stays empty, and changes of a setting are
  dropped, until the tab is shown again.

Two statements in the modules are false and have no run of their own; TLC refutes
each within seconds when it is made an invariant:

- `PayloadCurrentAtRest` (`ChannelCache`): "rebuild() refreshes them from the DB after any
  mutation" (`main.go` 64-65). Two rebuilds overtake each other and the older list stays
  served after both requests were answered. That this is the *only* way is
  `CurrentUnlessReordered`, which is proved.
- `NoOrphans` (`XtreamPlaylists`): a deletion removes a playlist "together with every
  channel it imported" (`store.go` 856-857). A refresh waiting for the panel imports the
  channels of a playlist deleted meanwhile; `OrphansOnlyByLateImport` says that this is
  the only way.

Further differences met while modelling, of the same nature:

- hls.js reports a manifest it could not get, or could not use, as a fatal error; the page
  answers with `startLoad` or `recoverMediaError` (`player.js` 120-126), which do nothing
  before a manifest was parsed. No further event comes: the screen stays at "Connecting..."
  and `failover` (`player.js` 35) is not called. So does a screen whose mpegts stream ends
  before its metadata. `LoadingEnds` without `Stuck` is refuted in the run `screens`;
- the page takes links in any case, `HTTP://` too (`modals.js` 175, `playlist.go` 57), the
  server passes over what does not start with `http://` or `https://` (`main.go` 487-489,
  902-904, `store.go` 490-492) and answers 200: the review closes as saved and such rows are
  lost. With `review.rows \intersect Valid \subseteq library'` in it, `ClosedWhenSaved` is
  refuted in the run `dialogs`;
- the cross of the list of conflicts empties the review behind it and leaves the list open
  (`modals.js` 317);
- the swap of the payload and of the header overrides can happen in opposite orders
  (`main.go` 88-90);
- `ImportManual` counts an upsert of an existing id as inserted (`store.go` 460-461, 505),
  and a link added between the index it reads and its transaction gets a second owner
  (`store.go` 457-460, 463);
- after an edit, adding the name and link the channel now shows creates a second row, since
  the id is the hash of what the row first was (`store.go` 339-345);
- an edit whose row is deleted between check and read back is answered as an internal
  error rather than not found (`store.go` 517-518);
- a refresh that began before a change of settings may end after one that used them and
  bring the old links back (`main.go` 1071-1072);
- the warm-up pool does not join the single flight, so it and a viewer may fetch one
  segment at once (`proxy.go` 4-5, 298), and `BoundedFanout` is the bound that holds;
- recordings are ordered by their id as a string, so `rec10` comes before `rec9`
  (`recorder.go` 227); two of one name started within a second share their file;
- a start in progress while StopAll looks is not stopped by the shutdown (`recorder.go` 138);
  a second start before the first was answered, or a reload, leaves the page without the id
  of the first (`audio.js` 40);
- closing a dialog within the frame that was to open the drawer hides the scrim behind it
  (`modals.js` 26);
- a search typed and not yet made when the drawer closes is forgotten, though its box keeps
  the text (`modals.js` 17);
- a dynamic channel's link that arrives after its screen was removed starts a player there
  that nothing stops (`cell.js` 366); when such a link cannot be resolved, the screen's
  previous player goes on under the error overlay (`cell.js` 368);
- `Merge` of the keystore changes the map before the file is written: after a failed write
  the same merge finds nothing to do and reports success (`keystore.go` 92, 107);
- concurrent resolves of one argument all miss the token cache (`resolver.go` 105).

## 4. Proofs

Theorems hold for every value of the constants, under the modules' named assumptions
only: finite sets of goroutines, channels and playlists, natural numbers for lifetimes
and bounds, disjoint identities, batches and the initial feed of the right form; the sweep is one of the
goroutines and starts no later than the last day (`SweeperIsHandler`, `XtreamPlaylists`);
no player is the value for "no player" (`NoPlayerIsNone`, `Screens`); categories are listed
once and the ranks of types are numbers, ties allowed (`LibraryAssumption`); entries the server
takes are among those the page takes (`DialogsAssumption`). TLC evaluates
those assumptions in the runs. Every invariant below was checked with TLC on the
run's instance before it was proved.

**`CatalogProofs`**

- About `ManualChannels`: `CatalogSound` (`CatalogOK`) with `CacheCurrent` (`CurrentUnlessReordered`),
  `WritesAreSeen` (`ReadYourWrites`), `FavouritesKept`, `DeletedStaysDeleted`,
  `LinksStayUnique` (`ImportKeepsLinksUnique`).
  `CurrentUnlessReordered` is not inductive: it speaks of states at rest. `Inv` adds that a
  list stamped with the present epoch shows the table (`CacheTrue`), and that while the
  cache is behind, *somebody owes a rebuild* (`Published`, `Owes`): is about to list, holds
  a list of the present epoch, or has to read back a row that is still there. The last case
  is the delicate one: an add that does not find its row again returns without a
  rebuild, which is harmless only because whoever deleted the row owes one.
  `Validated` says that a request that was admitted has a name (types of rows need it),
  `SeesItsWrite` that a rebuild's list is newer than its handler's statement. Every
  action outside `rebuild` is first shown to have one of two shapes, `Quiet` or
  `Writes`, and the invariant is proved once for each shape. `LinksStayUnique` needs `IndexTrue`: an
  index as new as the table is the table's; that accepted entries of one link are one
  entry is a lemma (`AcceptedOncePerLink`). The lemmas about statements
  and about `rebuild` come first; each says what one operator of `CatalogRows` or
  `ChannelCache` does to any catalog.
- `CatalogPromiseKept`: `ManualChannels` implements `ServedCatalog`, overtaken rebuilds
  included (`KeepsCatalogPromise`). The versions are the epochs, the views the payload and the
  header overrides, a statement is a `Change`, the swap a `Show`, the hook a `Show` with its
  `Answer`; `best` and `due` are history. `PromiseInv` says what a request has done for the
  change it is due (`DueAt`): its list is not older, after the swap the payload has shown it,
  and while no newer change exists its row is there to be read back. With `NewestIsDue` (the newest change
  has been shown in both views or is somebody's to show) that answers the one request that
  returns without a rebuild: its row is gone, so a newer change is owed. `EveryViewSettles`
  is what follows at rest, without the condition `CacheCurrent` needs: both views *have* shown
  the catalog as it is.
- About `XtreamPlaylists`: `SavedPlaylistsSound` (`SavedOK`), `FavouritesSurviveImports`,
  `OrphansAreLate` (`OrphansOnlyByLateImport`). The steps of the channel handlers keep
  their shapes; those of the playlist handlers and of the sweep have a third,
  `PlaylistShape`. Two more owe a rebuild (`OwesAfterImport`): a handler that has imported
  and not yet stamped, and the sweep, which rebuilds once for all its imports, from
  the first of them to its end. A kill is where the argument is worth having: it forgets every
  debt, and the restart pays them all by publishing the catalog. `StampedWasImported` needs
  `JobOK`: an id about to be stamped is one whose channels were imported in this or an
  earlier life of the process.

- `SweepKeepsPromise`: `XtreamPlaylists` implements `ServedCatalog` too. The sweep makes
  several changes before its one rebuild, and only handlers that have imported are due
  anything at a step of a playlist (`ImportersDue`); a kill and the start after it map to
  `Restart`. The lemmas about channel handlers are the same for both systems. The
  run `xtream` does not list the property; added to `Xtream.cfg` it was checked once (70 s).

**`PlaylistFetchProofs`**: `TypeCorrect`, `SingleFlight` (`OneFlight`), `FlightsSound`
(`FlightOK`), `PlaylistsAdvance` (`NeverGoesBack`). The invariant orders everything a
client may be answered with: the leader's result is newest until its call leaves the
map (`LeaderHasNewest`), the micro-cache is ahead of all but a result about to be stored
(`MicroCacheNewest`), and the last-known-good copy covers every result already handed
out and every client that may come to be answered with it
(`LkgCoversResults`); in between it lags, but only while a leader stands
between its two stores (`LkgLagsOnlyInStore`), and then no one who has seen
the newer playlist can be told to fall back.
`PromiseKept`: `PlaylistFetch` implements `LivePlaylist`. The
mapping sends the clock to the upstream's version and a request that missed the
micro-cache to an open one; `served` and `floor` are history. `PromiseInv` adds to the
invariant above that a result covers the floor of its leader and of every waiter that
will get it (`ResultsCover`), and that the last-known-good copy covers every floor
except of those who will be answered with what is about to be stored
(`LkgCoversFloors`). Each action is shown to map to `Advance`, `Ask`, `AnswerAtOnce`,
`AnswerLater`, `Refuse` or a stutter.

**`StreamProofs`** has both ends of a stream. About `SegmentFetch`: `TypeCorrect`,
`TokensAccounted`, `PoolBounded`, `PoolSound` (`PoolOK`), `WarmedOnce`, `FanoutBounded`, by
counting the holders of tokens (`HoldersCount`) and from the inflight map having one leader
per link (`Flights`).

About `BufferMonitor`: `BufferTypeCorrect`, `FrozenOnlyThen` (`FrozenOnlyByOlderEvent`),
`TimerNeverLeaks` (`TimerHasReason`), `RefillsAreWatched` (`FillingIsWatched`),
`MonitorSound` (`MonitorOK`), `PauseIsTheUsers` (`UserPauseKept`). The properties speak
of the element at rest, so the invariant says what the queue still holds in store: with
the interval set and no refill, an event that clears it; with a playhead the monitor
stopped and forgot, a history that was raced or an event that will be.

**`RecordingProofs`**: `StopIsFinal` (`AnsweredStopIsFinal`), `NoneLeftBehind`
(`OutlivesOnlyIfLater`), `SoundKept` (`SoundOK`), `NothingLost` (`LostOnlyByOverlap`). For
the recorder: only a registered recording is stopped (`Registered`), a final recording has
no child (`FinalIsDead`), and StopAll has its answers before the server goes on
(`StopAllDone`). For the page (`PageInv`): the sound is where a channel is (`Placed`); a start that
overlapped no other is the only one under way (`Alone`); a recording known or being started
is of what is heard, unless the sound moved or starts overlapped (`RecordsRight`); the clock
is that of the recording known, and a refused start recorded nothing (`Known`).
The page's actions are first shown to do one of a few things to the recorder
(forget, ask for a stop, ask for a start, take an answer), and each invariant is proved once
for each.

**`ScreensProofs`**: `PlaysWhatItNamesHolds` (`PlaysWhatItNames`), `DisplaySound`
(`DisplayOK`), `DeadOnlyIfAllFailed` (`DeadWhenAllFailed`). The properties speak of what
is shown; `ScreensInv` says whose each thing is that outlives a callback. A promise left
behind in `late` has a token older than its screen's (`LateOK`), the panel is that of the
present player (`PanelIsCurrent`), and of every screen (`ScreenOK`): its player's token is
its own, a player of fixed links is of the channel the screen has and the screen is on the
page, what it shows follows the player's phase (one fallen silent is still loading), and the server played and the servers that
failed are links of its channel. The servers that failed are all that were tried, so a
channel marked dead has a screen whose tries cover all its links (`DeadStep`).

**`DialogsProofs`**: `DialogsSound` (`DialogsOK`), `ReviewSaved` (`ClosedWhenSaved`). A
dialog is reused while its request is under way, so the invariant relates requests to what
the dialogs show. As long as the user has not gone on in them (`meddled`), a form that waits
waits for its own request (`FormWaits`), and a review or conflict that waits is the one
that was submitted, with the entries it shows as far as the server accepts them (`ImportWaits`);
of those, conflicts hold what the library has not. So when the page closes the review, the
library has exactly its accepted rows; a scrim behind nothing is
explained by a frame that was still to come (`ScrimKnown`).

**`TabsProofs`**: `TabsSound` (`TabsOK`), `AgreesOnceAnswered` (`AgreesAtRest`),
`OnlyConfirmedIsSaved` (`NothingUnconfirmed`), `SettingsOneByOne` (`OneSettingAtATime`).
`AgreesAtRest` speaks of a tab with nothing under way; the invariant says what it is waiting
for otherwise. Unless something has left the tabs behind, a request that writes is the only
one under way and a list that was answered is the server's (`Orderly`). Then the
Xtream tab shows the server's playlists, or a list or import is under way, or a patch that is
already shown in the two selects and will be in the cached list (`XtreamWaits`); the
Playlist tab shows the server's rows, or a list or deletion is under way, or an edit whose
type is shown already and whose text will be (`RowWaits`). `Confirmed` covers edits under
way as well as rows, and `Spinners` that no two requests share a button.

**`LibraryProofs`**: `ListAgreesAtRest` (`AgreesAtRest`), `ViewSound` (`ViewOK`),
`SectionsSorted` (`SectionsInOrder`).
`AgreesAtRest` says nothing while a request is under way or after one overtook another; the
invariant (`Requests`) says what is true then. A request that overlapped nothing clashes with
nothing under way (`AloneApart`), so a load that overlapped nothing is alone, and what it is
answered with is still the server's when the page takes it (`AloneLoadFresh`): that is why it
puts right whatever had been left behind. As long as nothing has been, no request under way
has clashed (`NoneClashed`), and every star that differs from the server's has its one request,
of the present list, that will confirm it or put it back (`Settled`). The page's half
(`ViewIsCurrent`, `FiltersShown`) is inductive with the types: each callback either draws what
it changes (`DrawnKeeps`) or changes nothing that was drawn (`UndrawnKeeps`). That the first
playlist is an option once the list of them is answered needs the set of playlists to be
finite, which a table is (`LibraryAssumption`).

`SectionsInOrder` is about a sorted sequence, of which the library only says that it is a sorted
permutation of its set if there is one. The comparator of `renderChannelList` is a weak
order (`ComparatorSorts`), and any finite set with such a comparator can be sorted
(`SortedFacts`): break ties by some enumeration and put each element where the
number of elements up to it says (`TotalOrderSorts`), which is counting and needs no induction.
That known categories come first, in their order, and the rest by name then follows from the
comparator (`ExtraPlace`).

Only model-checked are the liveness properties (`EveryRequestAnswered`, `PoolDrains`,
`SweepEnds`, `FillEnds`, `LoadingEnds`, `StopsReturn`, `ButtonsComeBack`), since the prover has no
fairness or ENABLED.

## 5. Not modelled

- Playlist text (rewriting, parsing), the SSRF guard, unwrapping of segments disguised as
  images, genre and country look-ups: pure functions on text and bytes without state,
  covered by the repository's table tests. Extraction of ffmpeg: pure I/O.
- The LRU cache's bytes: sequential code under one lock; its effects on others, expiry and
  eviction, are in the fetch models at every moment they can be seen. Bodies have no size,
  so the cut at the per-item limit (`proxy.go` 461) is not seen.
- The keystore: a map and its file under one lock, with the two hazards named above.
- Feed sync: the server refuses it (POST /api/sync answers 403), and `PruneOrphans` is
  reached by the command line tools only, which run alone. So is the parser that gives
  channels of a feed their ids, which depend on the feed's order where a tvg-id is shared
  (`playlist.go` 276): a reordered feed swaps their favourites.
- The resolver's token cache: a miss costs a request. Meta rows, transfer of keys.
- Service worker, rendering of forms, fullscreen, the retry of `playCell` when a browser
  refuses sound, capping and folding of sections, markup and vendored players. A browser that
  can play HLS in no way at all, where the screen shows an error at once and no other
  server is tried (`player.js` 135-137).
- A panic in `fetchUpstream`, which would leave its call in the map for ever
  (`proxy.go` 258): whether one is possible is a question about code below this level.

## 6. What could come next

An abstract specification of what a screen promises its user, a channel that plays or a
reason why not, for `Screens` and `BufferMonitor` together; and the keystore, whose memory
and file may differ after a failed write.
