---------------------------- MODULE CatalogRows ----------------------------
(***************************************************************************)
(* The channels table of internal/store/store.go as a partial function     *)
(* from channel ids to rows, and the SQL statements that change it as      *)
(* operators from table to table.  The store opens one connection          *)
(* (SetMaxOpenConns(1)), so a statement, or a transaction, is one step;    *)
(* what happens between two statements of one method is the business of    *)
(* the modules that use these operators.                                   *)
(*                                                                         *)
(* Columns no property depends on (logo, group, type, clear_keys) are left *)
(* out.  A blank name stands for every entry the validation refuses.       *)
(***************************************************************************)
EXTENDS Integers, Sequences, FiniteSets

CONSTANTS
  Names,      \* channel names, positive integers: ORDER BY sort_name compares them
  Urls,       \* stream links
  Hosts,      \* upstream hosts
  HostOf,     \* the host of a link
  Hints,      \* (user agent, referer) pairs a channel may prescribe
  NoHint,     \* a channel that prescribes neither
  Recipes,    \* (provider, argument) pairs of resolvable channels
  NoRecipe,   \* a channel that is not resolvable
  FeedIds,    \* ids of rows that came from a feed (is_manual = 0)
  PlaylistIds,\* ids of saved Xtream playlists
  NoPlaylist, \* the empty xtream_playlist_id
  Settings,   \* what the links of a playlist are built from: server, stream type
  StreamIds   \* the panel's stream ids

\* xtream.StreamURL: the link of one stream under a playlist's settings.
StreamURL(setting, s) == <<setting, s>>

Links == Urls \union {StreamURL(g, s) : g \in Settings, s \in StreamIds}

ASSUME NamesArePositive == Names \subseteq Nat \ {0}
ASSUME HostsOfLinks == HostOf \in [Links -> Hosts]

Blank == 0
NameOrBlank == Names \union {Blank}

Row ==
  [name : Names, servers : SUBSET Links, hint : Hints \union {NoHint},
   resolver : Recipes \union {NoRecipe}, fav : BOOLEAN, manual : BOOLEAN,
   playlist : PlaylistIds \union {NoPlaylist}]

\* "manual:" + hash(name || link); the hash is taken to be injective.
ManualId(name, link) == <<name, link>>

\* "xtream:" + playlist + ":" + stream.
XtreamId(p, s) == <<"xtream", p, s>>

Ids == {ManualId(n, l) : n \in Names, l \in Urls \union Recipes}
         \union {XtreamId(p, s) : p \in PlaylistIds, s \in StreamIds}
         \union FeedIds

IsCatalog(t) == DOMAIN t \subseteq Ids /\ t \in [DOMAIN t -> Row]

-----------------------------------------------------------------------------
(* Table primitives. *)

Put(t, id, row) == [i \in DOMAIN t \union {id} |-> IF i = id THEN row ELSE t[i]]

Drop(t, ids) == [i \in DOMAIN t \ ids |-> t[i]]

-----------------------------------------------------------------------------
(* Statements. *)

NewManualRow(name, links, hint, recipe, fav) ==
  [name |-> name, servers |-> links, hint |-> hint, resolver |-> recipe,
   fav |-> fav, manual |-> TRUE, playlist |-> NoPlaylist]

\* Wrong on purpose: the conflict clause resets the favourite flag.
AddManualResetsFavourite(t, name, url, hint) ==
  LET id == ManualId(name, url)
  IN  Put(t, id, NewManualRow(name, {url}, hint, NoRecipe, TRUE))

\* AddManual: the ON CONFLICT list leaves the favourite flag alone.
AddManual(t, name, url, hint) ==
  LET id == ManualId(name, url)
  IN  Put(t, id, IF id \in DOMAIN t
                 THEN [t[id] EXCEPT !.name = name, !.servers = {url}, !.hint = hint]
                 ELSE NewManualRow(name, {url}, hint, NoRecipe, TRUE))

\* AddResolvable: no link yet; on conflict the link resolved earlier stays.
AddResolvable(t, name, recipe, hint) ==
  LET id == ManualId(name, recipe)
  IN  Put(t, id, IF id \in DOMAIN t
                 THEN [t[id] EXCEPT !.name = name, !.hint = hint, !.resolver = recipe]
                 ELSE NewManualRow(name, {}, hint, recipe, TRUE))

SetFavourite(t, id, on) == [t EXCEPT ![id].fav = on]

SetResolvedURL(t, id, url) == [t EXCEPT ![id].servers = {url}]

\* The UPDATE of UpdateManual: the id and the recipe stay what they were.
UpdateManual(t, id, name, url, hint) ==
  [t EXCEPT ![id].name = name, ![id].servers = {url}, ![id].hint = hint]

\* URLIndex: every link some channel owns.
URLIndex(t) == UNION {t[i].servers : i \in DOMAIN t}

\* Wrong on purpose: only the links of this batch are compared.
AcceptedOfBatch(entries, index) ==
  {e \in {entries[k] : k \in DOMAIN entries} :
     e.name # Blank
     /\ LET valid == {k \in DOMAIN entries :
                        entries[k].name # Blank /\ entries[k].url = e.url}
        IN  \E k \in valid : entries[k] = e /\ \A j \in valid : k <= j}

\* The entries of a batch ImportManual accepts, given the index it read: the
\* first valid entry of each link that the index does not hold.
Accepted(entries, index) ==
  {e \in {entries[k] : k \in DOMAIN entries} :
     /\ e.name # Blank
     /\ e.url \notin index
     /\ LET valid == {k \in DOMAIN entries :
                        entries[k].name # Blank /\ entries[k].url = e.url}
        IN  \E k \in valid : entries[k] = e /\ \A j \in valid : k <= j}

\* The transaction of ImportManual: one upsert for each accepted entry.
ImportManual(t, entries, index) ==
  LET batch == Accepted(entries, index)
      ids   == {ManualId(e.name, e.url) : e \in batch}
      Entry(i) == CHOOSE e \in batch : ManualId(e.name, e.url) = i
  IN  [i \in DOMAIN t \union ids |->
         IF i \notin ids THEN t[i]
         ELSE IF i \in DOMAIN t
              THEN [t[i] EXCEPT !.name = Entry(i).name, !.servers = {Entry(i).url}]
              ELSE NewManualRow(Entry(i).name, {Entry(i).url}, NoHint, NoRecipe, FALSE)]

\* Wrong on purpose: INSERT OR REPLACE, which loses the favourite flag.
UpsertXtreamReplacing(t, p, setting, panel) ==
  LET ids == {XtreamId(p, s) : s \in {x \in DOMAIN panel : panel[x] # Blank}}
  IN  [i \in DOMAIN t \union ids |->
         IF i \notin ids THEN t[i]
         ELSE [NewManualRow(panel[i[3]], {StreamURL(setting, i[3])}, NoHint, NoRecipe, FALSE)
                 EXCEPT !.playlist = p]]

\* The transaction of UpsertXtreamChannels, over the panel's answer: a function
\* from the streams it lists to their names (of a repeated stream the first
\* counts).  Nameless streams are skipped; a stream that left the panel keeps
\* its row; a row that exists keeps its favourite flag, hints and recipe.
UpsertXtream(t, p, setting, panel) ==
  LET named == {s \in DOMAIN panel : panel[s] # Blank}
      ids   == {XtreamId(p, s) : s \in named}
      Fresh(s) == [NewManualRow(panel[s], {StreamURL(setting, s)}, NoHint, NoRecipe, FALSE)
                     EXCEPT !.playlist = p]
      Merged(i, s) == [t[i] EXCEPT !.name = panel[s], !.servers = {StreamURL(setting, s)},
                                   !.playlist = p]
  IN  [i \in DOMAIN t \union ids |->
         IF i \notin ids THEN t[i]
         ELSE IF i \in DOMAIN t THEN Merged(i, i[3]) ELSE Fresh(i[3])]

\* Wrong on purpose: favourites are kept, as PruneUnkept keeps them.
DropPlaylistButFavourites(t, p) ==
  Drop(t, {i \in DOMAIN t : t[i].playlist = p /\ ~t[i].fav})

\* DELETE FROM channels WHERE xtream_playlist_id = p.
DropPlaylist(t, p) == Drop(t, {i \in DOMAIN t : t[i].playlist = p})

-----------------------------------------------------------------------------
\* upstreamHeadersFromCatalog: host -> hint of the last channel, in list order,
\* that prescribes one for a link on that host.
UpstreamHeaders(t) ==
  LET Hinted(h) == {i \in DOMAIN t : /\ t[i].hint # NoHint
                                     /\ \E u \in t[i].servers : HostOf[u] = h}
      LastOf(S) == CHOOSE i \in S : \A j \in S : t[j].name <= t[i].name
  IN  [h \in {x \in Hosts : Hinted(x) # {}} |-> t[LastOf(Hinted(h))].hint]
=============================================================================
