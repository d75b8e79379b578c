---------------------------- MODULE CatalogProofs ----------------------------
(***************************************************************************)
(* Proofs about the catalog, its cache, ManualChannels and XtreamPlaylists,*)
(* and that both implement ServedCatalog, for any catalog, requests,       *)
(* playlists and panels, any number of handlers and of restarts.           *)
(*                                                                         *)
(* First what the statements of CatalogRows do to a catalog: every one     *)
(* keeps it a catalog, which ids it adds, that it changes no favourite     *)
(* flag and moves no channel into a playlist.  Then what the three steps   *)
(* of rebuild() (ChannelCache) keep true, whatever the handlers do between *)
(* them: the history variable epoch tells which lists, payloads and header *)
(* overrides are those of the table.  Every step of a handler outside      *)
(* rebuild() either leaves the table alone (Quiet) or commits one change   *)
(* after which its handler owes a rebuild (Writes); the invariants of      *)
(* ManualChannels are proved from these two shapes and the three steps of  *)
(* rebuild().  In XtreamPlaylists the handlers of playlists and the sweep  *)
(* have one shape more, PlaylistShape; a restart forgets every handler and *)
(* publishes the catalog.                                                  *)
(***************************************************************************)
EXTENDS XtreamPromise, TLAPS, FiniteSetTheorems


\* The rows that are in both tables agree on the favourite flag.
SameFavourites(t, s) == \A i \in DOMAIN t \intersect DOMAIN s : s[i].fav = t[i].fav

\* A row that was there stays with its playlist; a new one belongs to none.
SamePlaylists(t, s) ==
  \A i \in DOMAIN s : s[i].playlist = IF i \in DOMAIN t THEN t[i].playlist ELSE NoPlaylist

\* A row inserted or replaced leaves a catalog.
LEMMA PutIsCatalog ==
  ASSUME NEW t, IsCatalog(t), NEW id \in Ids, NEW row \in Row
  PROVE  IsCatalog(Put(t, id, row)) /\ DOMAIN Put(t, id, row) = DOMAIN t \union {id}
  BY DEF IsCatalog, Put

\* Rows deleted leave a catalog, without them.
LEMMA DropIsCatalog ==
  ASSUME NEW t, IsCatalog(t), NEW ids
  PROVE  /\ IsCatalog(Drop(t, ids)) /\ DOMAIN Drop(t, ids) = DOMAIN t \ ids
         /\ \A i \in DOMAIN t \ ids : Drop(t, ids)[i] = t[i]
         /\ SameFavourites(t, Drop(t, ids)) /\ SamePlaylists(t, Drop(t, ids))
  BY DEF IsCatalog, Drop, SameFavourites, SamePlaylists

\* A link of a user is a link.
LEMMA UrlsAreLinks == Urls \subseteq Links
  BY DEF Links

\* The row of a channel that is new by hand.
LEMMA NewManualRowIsRow ==
  ASSUME NEW name \in Names, NEW links \in SUBSET Links, NEW hint \in Hints \union {NoHint},
         NEW recipe \in Recipes \union {NoRecipe}, NEW fav \in BOOLEAN
  PROVE  NewManualRow(name, links, hint, recipe, fav) \in Row
  BY DEF NewManualRow, Row

\* AddManual stores a row under its id and keeps every favourite flag.
LEMMA AddManualFacts ==
  ASSUME NEW t, IsCatalog(t), NEW name \in Names, NEW url \in Urls,
         NEW hint \in Hints \union {NoHint}
  PROVE  LET s == AddManual(t, name, url, hint)
         IN  /\ IsCatalog(s) /\ SameFavourites(t, s) /\ SamePlaylists(t, s)
             /\ ManualId(name, url) \in DOMAIN s
<1> DEFINE id == ManualId(name, url)
           old == [t[id] EXCEPT !.name = name, !.servers = {url}, !.hint = hint]
           new == NewManualRow(name, {url}, hint, NoRecipe, TRUE)
           row == IF id \in DOMAIN t THEN old ELSE new
<1>1. id \in Ids
  BY DEF Ids
<1>2. id \in DOMAIN t => old \in Row /\ old.fav = t[id].fav /\ old.playlist = t[id].playlist
  BY UrlsAreLinks DEF IsCatalog, Row
<1>3. new \in Row /\ new.playlist = NoPlaylist
  BY UrlsAreLinks, NewManualRowIsRow DEF NewManualRow
<1>4. row \in Row
  BY <1>2, <1>3
<1>5. AddManual(t, name, url, hint) = Put(t, id, row)
  BY DEF AddManual
<1>6. SameFavourites(t, Put(t, id, row)) /\ SamePlaylists(t, Put(t, id, row))
  BY <1>2, <1>3 DEF SameFavourites, SamePlaylists, Put
<1>7. id \in DOMAIN Put(t, id, row)
  BY DEF Put
<1>8. IsCatalog(Put(t, id, row))
  <2> HIDE DEF id, row
  <2> QED
    BY <1>1, <1>4, PutIsCatalog
<1> QED
  BY <1>5, <1>6, <1>7, <1>8

\* AddResolvable stores a row under its id and keeps every favourite flag.
LEMMA AddResolvableFacts ==
  ASSUME NEW t, IsCatalog(t), NEW name \in Names, NEW recipe \in Recipes,
         NEW hint \in Hints \union {NoHint}
  PROVE  LET s == AddResolvable(t, name, recipe, hint)
         IN  /\ IsCatalog(s) /\ SameFavourites(t, s) /\ SamePlaylists(t, s)
             /\ ManualId(name, recipe) \in DOMAIN s
<1> DEFINE id == ManualId(name, recipe)
           old == [t[id] EXCEPT !.name = name, !.hint = hint, !.resolver = recipe]
           new == NewManualRow(name, {}, hint, recipe, TRUE)
           row == IF id \in DOMAIN t THEN old ELSE new
<1>1. id \in Ids
  BY DEF Ids
<1>2. id \in DOMAIN t => old \in Row /\ old.fav = t[id].fav /\ old.playlist = t[id].playlist
  BY DEF IsCatalog, Row
<1>3. new \in Row /\ new.playlist = NoPlaylist
  BY NewManualRowIsRow DEF NewManualRow
<1>4. row \in Row
  BY <1>2, <1>3
<1>5. AddResolvable(t, name, recipe, hint) = Put(t, id, row)
  BY DEF AddResolvable
<1>6. SameFavourites(t, Put(t, id, row)) /\ SamePlaylists(t, Put(t, id, row))
  BY <1>2, <1>3 DEF SameFavourites, SamePlaylists, Put
<1>7. id \in DOMAIN Put(t, id, row)
  BY DEF Put
<1>8. IsCatalog(Put(t, id, row))
  <2> HIDE DEF id, row
  <2> QED
    BY <1>1, <1>4, PutIsCatalog
<1> QED
  BY <1>5, <1>6, <1>7, <1>8

\* A favourite request touches the flag of its row only.
LEMMA SetFavouriteFacts ==
  ASSUME NEW t, IsCatalog(t), NEW id \in DOMAIN t, NEW on \in BOOLEAN
  PROVE  LET s == SetFavourite(t, id, on)
         IN  /\ IsCatalog(s) /\ DOMAIN s = DOMAIN t
             /\ \A i \in DOMAIN t : s[i].fav = IF i = id THEN on ELSE t[i].fav
             /\ SamePlaylists(t, s)
  BY DEF SetFavourite, IsCatalog, Row, SamePlaylists

\* A resolved link replaces the links of its row only.
LEMMA SetResolvedURLFacts ==
  ASSUME NEW t, IsCatalog(t), NEW id \in DOMAIN t, NEW url \in Links
  PROVE  LET s == SetResolvedURL(t, id, url)
         IN  IsCatalog(s) /\ DOMAIN s = DOMAIN t /\ SameFavourites(t, s) /\ SamePlaylists(t, s)
  BY DEF SetResolvedURL, IsCatalog, Row, SameFavourites, SamePlaylists

\* An edit keeps the flag of the row it changes.
LEMMA UpdateManualFacts ==
  ASSUME NEW t, IsCatalog(t), NEW id \in DOMAIN t, NEW name \in Names, NEW url \in Urls,
         NEW hint \in Hints \union {NoHint}
  PROVE  LET s == UpdateManual(t, id, name, url, hint)
         IN  IsCatalog(s) /\ DOMAIN s = DOMAIN t /\ SameFavourites(t, s) /\ SamePlaylists(t, s)
<1> DEFINE row == [t[id] EXCEPT !.name = name, !.servers = {url}, !.hint = hint]
<1>1. row \in Row /\ row.fav = t[id].fav /\ row.playlist = t[id].playlist
  BY UrlsAreLinks DEF IsCatalog, Row
<1>2. UpdateManual(t, id, name, url, hint) = [t EXCEPT ![id] = row]
  BY <1>1 DEF UpdateManual, IsCatalog, Row
<1> HIDE DEF row
<1> QED
  BY <1>1, <1>2 DEF IsCatalog, SameFavourites, SamePlaylists

\* An import inserts manual channels and keeps every favourite flag.
LEMMA ImportManualFacts ==
  ASSUME NEW t, IsCatalog(t), NEW entries, NEW index,
         \A k \in DOMAIN entries : entries[k] \in [name : NameOrBlank, url : Urls]
  PROVE  LET s == ImportManual(t, entries, index)
         IN  IsCatalog(s) /\ SameFavourites(t, s) /\ SamePlaylists(t, s)
<1> DEFINE batch == Accepted(entries, index)
           ids == {ManualId(e.name, e.url) : e \in batch}
           Entry(i) == CHOOSE e \in batch : ManualId(e.name, e.url) = i
           old(i) == [t[i] EXCEPT !.name = Entry(i).name, !.servers = {Entry(i).url}]
           new(i) == NewManualRow(Entry(i).name, {Entry(i).url}, NoHint, NoRecipe, FALSE)
           s == ImportManual(t, entries, index)
<1>1. \A e \in batch : e.name \in Names /\ e.url \in Urls
  BY DEF Accepted, NameOrBlank
<1>2. ids \subseteq Ids
  BY <1>1 DEF Ids
<1>3. ASSUME NEW i \in ids PROVE Entry(i).name \in Names /\ Entry(i).url \in Links
  <2>1. \E e \in batch : ManualId(e.name, e.url) = i
    OBVIOUS
  <2>2. Entry(i) \in batch
    BY <2>1
  <2> QED
    BY <2>2, <1>1, UrlsAreLinks
<1>4. ASSUME NEW i \in ids PROVE new(i) \in Row /\ new(i).playlist = NoPlaylist
  <2> HIDE DEF Entry, ids
  <2> QED
    BY <1>3, NewManualRowIsRow DEF NewManualRow
<1>5. ASSUME NEW i \in ids, i \in DOMAIN t
      PROVE  old(i) \in Row /\ old(i).fav = t[i].fav /\ old(i).playlist = t[i].playlist
  <2> HIDE DEF Entry, ids
  <2> QED
    BY <1>3, <1>5 DEF IsCatalog, Row
<1>6. s = [i \in DOMAIN t \union ids |->
             IF i \notin ids THEN t[i] ELSE IF i \in DOMAIN t THEN old(i) ELSE new(i)]
  BY DEF ImportManual
<1> HIDE DEF batch, ids, Entry, old, new, s
<1>7. IsCatalog(s)
  BY <1>2, <1>4, <1>5, <1>6 DEF IsCatalog
<1>8. SameFavourites(t, s) /\ SamePlaylists(t, s)
  BY <1>4, <1>5, <1>6 DEF SameFavourites, SamePlaylists
<1> QED
  BY <1>7, <1>8 DEF s

\* The elements of a sequence over S are in S.
LEMMA SeqElements ==
  ASSUME NEW S, NEW s \in Seq(S)
  PROVE  \A k \in DOMAIN s : s[k] \in S
  OBVIOUS

\* A set that has no two elements has at most one.
LEMMA AtMostOne ==
  ASSUME NEW S, \A i, j \in S : i = j
  PROVE  Cardinality(S) <= 1
<1>1. CASE S = {}
  BY <1>1, FS_EmptySet
<1>2. CASE S # {}
  <2>1. PICK i : i \in S
    BY <1>2
  <2>2. S = {i}
    BY <2>1
  <2>3. Cardinality(S) = 1
    BY <2>2, FS_Singleton, Zenon
  <2> QED
    BY <2>3
<1> QED
  BY <1>1, <1>2

\* A batch has at most one accepted entry of each link.
LEMMA AcceptedOncePerLink ==
  ASSUME NEW S, NEW entries \in Seq(S), NEW index,
         NEW d \in Accepted(entries, index), NEW e \in Accepted(entries, index), d.url = e.url
  PROVE  d = e
<1> DEFINE valid == {k \in DOMAIN entries : entries[k].name # Blank /\ entries[k].url = e.url}
<1>1. \E k \in valid : entries[k] = d /\ \A j \in valid : k <= j
  BY DEF Accepted
<1>2. \E k \in valid : entries[k] = e /\ \A j \in valid : k <= j
  BY DEF Accepted
<1>3. valid \subseteq Nat
  OBVIOUS
<1> HIDE DEF valid
<1>4. PICK k \in valid : entries[k] = d /\ \A j \in valid : k <= j
  BY <1>1
<1>5. PICK l \in valid : entries[l] = e /\ \A j \in valid : l <= j
  BY <1>2
<1>6. k = l
  BY <1>3, <1>4, <1>5
<1> QED
  BY <1>4, <1>5, <1>6

\* An import against the index of the table it changes gives a link no second
\* owner.
LEMMA ImportManualLinks ==
  ASSUME NEW t, IsCatalog(t), NEW S, NEW entries \in Seq(S), NEW u
  PROVE  LET s == ImportManual(t, entries, URLIndex(t))
         IN  Cardinality(Owners(s, u)) <= 1 \/ Owners(s, u) \subseteq Owners(t, u)
<1> DEFINE batch == Accepted(entries, URLIndex(t))
           ids == {ManualId(e.name, e.url) : e \in batch}
           Entry(i) == CHOOSE e \in batch : ManualId(e.name, e.url) = i
           old(i) == [t[i] EXCEPT !.name = Entry(i).name, !.servers = {Entry(i).url}]
           new(i) == NewManualRow(Entry(i).name, {Entry(i).url}, NoHint, NoRecipe, FALSE)
           s == ImportManual(t, entries, URLIndex(t))
<1>1. ASSUME NEW i \in ids PROVE Entry(i) \in batch /\ ManualId(Entry(i).name, Entry(i).url) = i
  <2>1. \E e \in batch : ManualId(e.name, e.url) = i
    OBVIOUS
  <2> QED
    BY <2>1
<1>2. \A e \in batch : e.url \notin URLIndex(t)
  BY DEF Accepted
<1>3. \A d, e \in batch : d.url = e.url => d = e
  BY AcceptedOncePerLink
<1>4. s = [i \in DOMAIN t \union ids |->
             IF i \notin ids THEN t[i] ELSE IF i \in DOMAIN t THEN old(i) ELSE new(i)]
  BY DEF ImportManual
<1>5. \A i \in Owners(t, u) : u \in URLIndex(t)
  BY DEF Owners, URLIndex
<1>6. \A i \in ids : i \in DOMAIN t => old(i).servers = {Entry(i).url}
  BY DEF IsCatalog, Row
<1>7. \A i \in ids : new(i).servers = {Entry(i).url}
  BY DEF NewManualRow
<1>8. \A i \in ids \ DOMAIN t : s[i].servers = {Entry(i).url}
  <2> HIDE DEF batch, ids, Entry, old, new, s
  <2> QED
    BY <1>4, <1>7
<1> HIDE DEF batch, ids, Entry, old, new, s
<1>9. /\ DOMAIN s = DOMAIN t \union ids
      /\ \A i \in ids : s[i].servers = {Entry(i).url}
      /\ \A i \in DOMAIN t \ ids : s[i] = t[i]
  BY <1>4, <1>6, <1>8
<1>10. CASE u \in URLIndex(t)
  <2>1. Owners(s, u) \subseteq Owners(t, u)
    BY <1>1, <1>2, <1>9, <1>10 DEF Owners
  <2> QED
    BY <2>1 DEF s
<1>11. CASE u \notin URLIndex(t)
  <2>1. \A i \in Owners(s, u) : i \in ids /\ Entry(i).url = u
    BY <1>5, <1>9, <1>11 DEF Owners
  <2>2. \A i, j \in Owners(s, u) : i = j
    BY <1>1, <1>3, <2>1
  <2> QED
    BY <2>2, AtMostOne DEF s
<1> QED
  BY <1>10, <1>11

-----------------------------------------------------------------------------
(* The cache. *)

\* A list stamped with the present epoch shows the table as it is; nothing is
\* stamped with an epoch to come.
CacheTrue ==
  /\ DOMAIN pc = Handlers /\ DOMAIN listed = Handlers
  /\ epoch \in Nat /\ reordered \in BOOLEAN
  /\ cached.at \in 0..epoch /\ headers.at \in 0..epoch
  /\ cached.at = epoch => cached.rows = db
  /\ headers.at = epoch => headers.map = UpstreamHeaders(db)
  /\ \A c \in Handlers : /\ listed[c].at \in 0..epoch
                         /\ listed[c].at = epoch => listed[c].rows = db

RebuildStep(c) == RebuildList(c) \/ RebuildSwap(c) \/ RebuildHook(c)

\* A step of a handler outside rebuild: one statement on the table or none.
HandlerStep(c) ==
  /\ \E step : Goto(c, step)
  /\ UNCHANGED cacheVars
  /\ UNCHANGED <<db, epoch>> \/ epoch' = epoch + 1

\* The catalog the cache starts from is the table.
LEMMA CacheTrueInit == ASSUME NEW t, CacheInit(t) PROVE CacheTrue
<1> USE DEF CacheInit
<1>1. DOMAIN pc = Handlers /\ DOMAIN listed = Handlers
  OBVIOUS
<1>2. epoch \in Nat /\ reordered \in BOOLEAN
  OBVIOUS
<1>3. cached.at \in 0..epoch /\ cached.rows = db
  OBVIOUS
<1>4. headers.at \in 0..epoch /\ headers.map = UpstreamHeaders(db)
  OBVIOUS
<1>5. \A c \in Handlers : listed[c].at \in 0..epoch /\ listed[c].rows = db
  OBVIOUS
<1> QED
  BY <1>1, <1>2, <1>3, <1>4, <1>5 DEF CacheTrue

\* The steps of rebuild keep what is known of the cache.
LEMMA CacheTrueRebuild ==
  ASSUME CacheTrue, NEW c \in Handlers, RebuildStep(c) PROVE CacheTrue'
<1>1. CASE RebuildList(c)
  BY <1>1 DEF CacheTrue, RebuildList, Snapshot, Goto
<1>2. CASE RebuildSwap(c)
  BY <1>2 DEF CacheTrue, RebuildSwap, Goto
<1>3. CASE RebuildHook(c)
  BY <1>3 DEF CacheTrue, RebuildHook, Goto
<1> QED
  BY <1>1, <1>2, <1>3 DEF RebuildStep

\* So do the statements of the handlers: a change of the table makes everything
\* published so far old.
LEMMA CacheTrueHandler ==
  ASSUME CacheTrue, NEW c \in Handlers, HandlerStep(c) PROVE CacheTrue'
  BY DEF CacheTrue, HandlerStep, Goto, cacheVars

\* Nothing known of the cache is lost when nothing happens.
LEMMA CacheTrueIdle ==
  ASSUME CacheTrue, UNCHANGED <<db, pc, epoch, cacheVars>> PROVE CacheTrue'
  BY DEF CacheTrue, cacheVars

\* What rebuilds have to bring about: the payload and the header overrides are
\* those of the catalog, or some handler is about to publish them: one that
\* read the table since, or one of owing, which will read it.
PublishedBy(owing) ==
  ~reordered =>
    /\ \/ cached.at = epoch
       \/ owing # {}
       \/ \E c \in Handlers : pc[c] = "swap" /\ listed[c].at = epoch
    /\ \/ headers.at = epoch
       \/ owing # {}
       \/ \E c \in Handlers : pc[c] \in {"swap", "hook"} /\ listed[c].at = epoch

\* A step of rebuild reads the table, or publishes what it read and leaves the
\* others owing what they owed.
LEMMA PublishedRebuild ==
  ASSUME CacheTrue, NEW c \in Handlers, RebuildStep(c), NEW owing, NEW rest,
         PublishedBy(owing), pc[c] # "list" => owing \subseteq rest
  PROVE  PublishedBy(rest)'
<1>1. CASE RebuildList(c)
  BY <1>1 DEF RebuildList, Goto, Snapshot, CacheTrue, PublishedBy
<1>2. CASE RebuildSwap(c)
  <2> SUFFICES ASSUME ~reordered' PROVE PublishedBy(rest)'
    BY Zenon DEF PublishedBy
  <2>1. /\ pc[c] = "swap" /\ pc' = [pc EXCEPT ![c] = "hook"]
        /\ cached' = listed[c] /\ UNCHANGED <<epoch, listed, headers>>
    BY <1>2 DEF RebuildSwap, Goto
  <2>2. ~reordered /\ ~(listed[c].at < cached.at)
    BY <1>2, Zenon DEF RebuildSwap
  <2>3. cached'.at = epoch \/ owing # {}
        \/ \E d \in Handlers : pc'[d] = "swap" /\ listed'[d].at = epoch
    BY <2>1, <2>2 DEF CacheTrue, PublishedBy
  <2>4. headers'.at = epoch \/ owing # {}
        \/ \E d \in Handlers : pc'[d] \in {"swap", "hook"} /\ listed'[d].at = epoch
    BY <2>1, <2>2 DEF CacheTrue, PublishedBy
  <2> QED
    BY <2>1, <2>3, <2>4 DEF PublishedBy
<1>3. CASE RebuildHook(c)
  <2> SUFFICES ASSUME ~reordered' PROVE PublishedBy(rest)'
    BY Zenon DEF PublishedBy
  <2>1. /\ pc[c] = "hook" /\ pc' = [pc EXCEPT ![c] = "idle"]
        /\ headers'.at = listed[c].at /\ UNCHANGED <<epoch, listed, cached>>
    BY <1>3 DEF RebuildHook, Goto
  <2>2. ~reordered /\ ~(listed[c].at < headers.at)
    BY <1>3, Zenon DEF RebuildHook
  <2>3. cached'.at = epoch \/ owing # {}
        \/ \E d \in Handlers : pc'[d] = "swap" /\ listed'[d].at = epoch
    BY <2>1, <2>2 DEF CacheTrue, PublishedBy
  <2>4. headers'.at = epoch \/ owing # {}
        \/ \E d \in Handlers : pc'[d] \in {"swap", "hook"} /\ listed'[d].at = epoch
    BY <2>1, <2>2 DEF CacheTrue, PublishedBy
  <2> QED
    BY <2>1, <2>3, <2>4 DEF PublishedBy
<1> QED
  BY <1>1, <1>2, <1>3 DEF RebuildStep

\* A step that changes neither the table nor the cache leaves it to those who
\* owed it.
LEMMA PublishedQuiet ==
  ASSUME NEW owing, NEW rest, PublishedBy(owing), owing \subseteq rest,
         UNCHANGED <<epoch, cacheVars>>,
         \A c \in Handlers : pc[c] \in {"swap", "hook"} => pc'[c] = pc[c]
  PROVE  PublishedBy(rest)'
  BY DEF PublishedBy, cacheVars

\* When nobody owes a rebuild, all is published.
LEMMA PublishedAtRest ==
  ASSUME CacheTrue, NEW owing, PublishedBy(owing), AtRest => owing = {}
  PROVE  CurrentUnlessReordered
  BY DEF CacheTrue, PublishedBy, AtRest, CurrentUnlessReordered

-----------------------------------------------------------------------------
(* The handlers of ManualChannels. *)

\* A handler that passed the validation has a name.
Validated ==
  \A c \in Handlers :
    pc[c] # "idle" /\ req[c].op \in {"add", "addres", "update"} => req[c].name \in Names

\* Handler c has changed the table, or may have, and will rebuild from a list
\* it has not read yet.
Owes(c) ==
  \/ pc[c] = "list"
  \/ pc[c] = "reread" /\ read[c].at = epoch /\ TargetId(c) \in DOMAIN db

\* The payload and the header overrides are those of the catalog or somebody is
\* about to publish them.
Owing == {c \in Handlers : Owes(c)}

Published == PublishedBy(Owing)

\* A handler's rebuild has read the table after the handler changed it, and it
\* has not answered before the rebuild is over.
SeesItsWrite ==
  \A c \in Handlers :
    /\ read[c].at <= epoch
    /\ pc[c] \in {"swap", "hook"} => read[c].at <= listed[c].at
    /\ pc[c] = "hook" /\ ~reordered => listed[c].at <= cached.at
    /\ pc[c] # "idle" => answer[c] = "none"

Inv == TypeOK /\ Validated /\ CacheTrue /\ Published /\ SeesItsWrite

-----------------------------------------------------------------------------
(* The two shapes of a step outside rebuild().  They ask only for what is true
   of these handlers in every system they are part of. *)

Early == {"idle", "read", "network", "write", "reread"}

\* A handler with the step ahead is serving a valid request.
Serving(c) ==
  /\ req[c] \in Requests
  /\ req[c].op \in {"add", "addres", "update"} => req[c].name \in Names
  /\ answer[c] = "none"

HandlerTypes ==
  /\ req = [d \in Handlers |-> req[d]]
  /\ read \in [Handlers -> [urls : SUBSET Links, at : Nat]]
  /\ answer \in [Handlers -> Answers]
  /\ left \in Nat

Served ==
  /\ IsCatalog(db) /\ epoch \in Nat
  /\ pc = [c \in Handlers |-> pc[c]]
  /\ HandlerTypes
  /\ \A c \in Handlers : pc[c] \in Early \ {"idle"} => Serving(c)

\* What every step of handler c leaves to the others.
OthersKeep(c) ==
  \A d \in Handlers \ {c} : req'[d] = req[d] /\ read'[d] = read[d] /\ answer'[d] = answer[d]

Quiet(c) ==
  /\ pc[c] \in Early
  /\ \E step \in Early \union {"list"} :
       /\ Goto(c, step)
       /\ step # "idle" => Serving(c)'
       /\ pc[c] = "reread" => step = "list" \/ (step = "idle" /\ TargetId(c) \notin DOMAIN db)
  /\ req'[c] \in Requests \union {req[c]}
  /\ read'[c].at \in {read[c].at, epoch}
  /\ HandlerTypes' /\ OthersKeep(c)
  /\ UNCHANGED <<db, epoch, cacheVars>>

Writes(c) ==
  /\ pc[c] = "write" /\ Serving(c)
  /\ epoch' = epoch + 1
  /\ IsCatalog(db')
  /\ \E step \in {"list", "reread"} :
       Goto(c, step) /\ (step = "reread" => TargetId(c) \in DOMAIN db')
  /\ read'[c].at = epoch'
  /\ HandlerTypes' /\ OthersKeep(c)
  /\ UNCHANGED <<cacheVars, req, answer>>

\* The invariant of ManualChannels says as much.
LEMMA InvServed == Inv => Served
  BY DEF Inv, TypeOK, Validated, SeesItsWrite, Served, Serving, HandlerTypes, Early

\* What the fields of a request range over.
LEMMA RequestFields ==
  ASSUME NEW r \in Requests
  PROVE  /\ r.op \in AllOps
         /\ r.op = "fav" => r.id \in Ids /\ r.on \in BOOLEAN
         /\ r.op \in {"add", "addres", "update"} => r.name \in NameOrBlank /\ r.hint \in Hint
         /\ r.op \in {"add", "update"} => r.url \in Urls
         /\ r.op = "addres" => r.recipe \in Recipes
         /\ r.op \in {"update", "delete", "resolve"} => r.id \in Ids
         /\ r.op = "import" => r.entries \in Batches
  BY OpsAreHandlers DEF Requests, AllOps

\* A write leaves a catalog, and keeps the row that the handler reads back.
LEMMA WriteShape ==
  ASSUME Served, NEW c \in Handlers, NEW t, IsCatalog(t),
         NEW next \in {"list", "reread"}, next = "reread" => TargetId(c) \in DOMAIN t,
         pc[c] = "write", Write(c, t, next)
  PROVE  Writes(c)
  BY DEF Served, Write, Commit, Writes, HandlerTypes, OthersKeep, Early

\* An early return is a quiet step.
LEMMA ReturnShape ==
  ASSUME Served, NEW c \in Handlers, NEW code \in Answers,
         pc[c] \in Early, pc[c] = "reread" => TargetId(c) \notin DOMAIN db, Return(c, code)
  PROVE  Quiet(c)
  BY DEF Served, Return, Answer, Quiet, HandlerTypes, OthersKeep, Early

\* So is a step that only moves on.
LEMMA ProceedShape ==
  ASSUME Served, NEW c \in Handlers, NEW step \in Early \union {"list"},
         pc[c] \in Early \ {"idle"}, pc[c] = "reread" => step = "list",
         Goto(c, step), UNCHANGED <<db, epoch, cacheVars, handlerVars>>
  PROVE  Quiet(c)
  BY DEF Served, handlerVars, Quiet, Serving, HandlerTypes, OthersKeep, Early

-----------------------------------------------------------------------------
(* The shape of each handler's steps. *)

\* A request that arrives is quiet.
LEMMA ArriveShape ==
  ASSUME Served, NEW c \in Handlers, NEW r \in Requests, Arrive(c, r)
  PROVE  Quiet(c)
<1>1. CASE r.op \in {"add", "addres", "update"} /\ r.name = Blank
  <2>1. pc[c] = "idle" /\ Goto(c, "idle")
    BY <1>1 DEF Served, Arrive, Goto
  <2>2. HandlerTypes' /\ OthersKeep(c) /\ req' = req /\ read' = read
    <3>1. answer' = [answer EXCEPT ![c] = "400"] /\ req' = req /\ read' = read /\ left' = left - 1
          /\ left > 0
      BY <1>1 DEF Arrive, Answer
    <3> QED
      BY <3>1 DEF Served, HandlerTypes, OthersKeep, Answers
  <2> QED
    <3>1. UNCHANGED <<db, epoch, cacheVars>>
      BY DEF Arrive
    <3> QED
      BY <2>1, <2>2, <3>1 DEF Quiet, Early
<1>2. CASE ~(r.op \in {"add", "addres", "update"} /\ r.name = Blank)
  <2>1. r.op \in {"add", "addres", "update"} => r.name \in Names
    BY <1>2, RequestFields DEF NameOrBlank
  <2> DEFINE step == IF r.op \in {"fav", "add", "addres"} THEN "write" ELSE "read"
  <2>2. step \in Early /\ Goto(c, step) /\ pc[c] = "idle"
    BY <1>2 DEF Arrive, Early
  <2>3. Serving(c)'
    BY <1>2, <2>1 DEF Served, HandlerTypes, Arrive, Answer, Serving
  <2>4. HandlerTypes' /\ OthersKeep(c) /\ read' = read
    BY <1>2 DEF Served, Arrive, Answer, HandlerTypes, OthersKeep, Answers
  <2> QED
    BY <1>2, <2>2, <2>3, <2>4 DEF Served, HandlerTypes, Arrive, Quiet, Early
<1> QED
  BY <1>1, <1>2

\* The checks and reads that come first are quiet.
LEMMA ReadShape ==
  ASSUME Served, NEW c \in Handlers,
         CheckManual(c) \/ ReadRecipe(c) \/ Resolve(c) \/ ReadIndex(c)
  PROVE  Quiet(c)
<1> USE DEF At
<1>1. CASE CheckManual(c)
  BY <1>1, ReturnShape, ProceedShape DEF CheckManual, Early, Answers
<1>2. CASE ReadRecipe(c)
  BY <1>2, ReturnShape, ProceedShape DEF ReadRecipe, Early, Answers
<1>3. CASE Resolve(c)
  <2>1. CASE Return(c, "502")
    BY <1>3, <2>1, ReturnShape DEF Resolve, Early, Answers
  <2>2. ASSUME NEW u \in Urls, read' = [read EXCEPT ![c].urls = {u}], Goto(c, "write"),
               UNCHANGED <<db, epoch, cacheVars, req, answer, left>>
        PROVE  Quiet(c)
    <3>1. pc[c] = "network" /\ Serving(c)'
      BY <1>3, <2>2 DEF Resolve, Serving, Served, Early, HandlerTypes
    <3>2. HandlerTypes' /\ OthersKeep(c) /\ read'[c].at = read[c].at
      BY <2>2, UrlsAreLinks DEF Served, HandlerTypes, OthersKeep
    <3> QED
      BY <2>2, <3>1, <3>2 DEF Quiet, Early
  <2> QED
    BY <1>3, <2>1, <2>2 DEF Resolve
<1>4. CASE ReadIndex(c)
  <2>1. URLIndex(db) \subseteq Links
    BY DEF Served, IsCatalog, URLIndex, Row
  <2>2. pc[c] = "read" /\ Serving(c)'
    BY <1>4 DEF ReadIndex, Serving, Served, Early, HandlerTypes
  <2>3. HandlerTypes' /\ OthersKeep(c) /\ read'[c].at = epoch
    BY <1>4, <2>1 DEF ReadIndex, Served, HandlerTypes, OthersKeep
  <2> QED
    BY <1>4, <2>2, <2>3 DEF ReadIndex, Quiet, Early
<1> QED
  BY <1>1, <1>2, <1>3, <1>4

\* The change a handler makes to the table, and what it may change of it: which
\* ids it adds, and that only a favourite request changes a favourite flag.
Change(c) ==
  /\ Writes(c)
  /\ DOMAIN db' \subseteq DOMAIN db \/ req[c].op \in {"add", "addres", "import"}
  /\ \A i \in DOMAIN db \intersect DOMAIN db' :
       db'[i].fav # db[i].fav => req[c] = [op |-> "fav", id |-> i, on |-> db'[i].fav]
  /\ SamePlaylists(db, db')

\* Every statement of a handler changes the table as Change tells, or is quiet.
LEMMA StatementShape ==
  ASSUME Served, NEW c \in Handlers,
         \/ WriteFavourite(c) \/ WriteAdd(c) \/ WriteResolvable(c) \/ WriteUpdate(c)
         \/ WriteDelete(c) \/ WriteResolved(c) \/ WriteImport(c)
  PROVE  Change(c) \/ Quiet(c)
<1> DEFINE r == req[c]
<1> USE DEF At
<1>1. pc[c] = "write" /\ r \in Requests /\ IsCatalog(db)
  BY DEF Served, Serving, Early, WriteFavourite, WriteAdd, WriteResolvable, WriteUpdate, WriteDelete,
         WriteResolved, WriteImport
<1>2. r.op \in {"add", "addres", "update"} => r.name \in Names
  BY <1>1 DEF Served, Serving, Early
<1>3. CASE WriteFavourite(c)
  <2>1. CASE r.id \in DOMAIN db
    <3>1. r = [op |-> "fav", id |-> r.id, on |-> r.on]
      BY <1>1, <1>3 DEF WriteFavourite, Requests
    <3>2. Write(c, SetFavourite(db, r.id, r.on), "list")
      BY <1>3, <2>1 DEF WriteFavourite
    <3>3. r.on \in BOOLEAN
      BY <1>1, <1>3, RequestFields DEF WriteFavourite
    <3>4. db' = SetFavourite(db, r.id, r.on)
      BY <3>2 DEF Write, Commit
    <3> QED
      BY <1>1, <2>1, <3>1, <3>2, <3>3, <3>4, SetFavouriteFacts, WriteShape DEF Change
  <2>2. CASE r.id \notin DOMAIN db
    BY <1>1, <1>3, <2>2, ReturnShape DEF WriteFavourite, Early, Answers
  <2> QED
    BY <2>1, <2>2
<1>4. CASE WriteAdd(c)
  <2> DEFINE t == AddManual(db, r.name, r.url, r.hint)
  <2>1. r.op = "add" /\ Write(c, t, "reread")
    BY <1>4 DEF WriteAdd
  <2>2. IsCatalog(t) /\ SameFavourites(db, t) 
          /\ SamePlaylists(db, t) /\ ManualId(r.name, r.url) \in DOMAIN t
    <3>1. r.name \in Names /\ r.url \in Urls /\ r.hint \in Hints \union {NoHint}
      BY <1>1, <1>2, <2>1, RequestFields DEF Hint
    <3> HIDE DEF r
    <3> QED
      BY <1>1, <3>1, AddManualFacts
  <2>3. TargetId(c) \in DOMAIN t /\ db' = t
    BY <2>1, <2>2 DEF TargetId, Write, Commit
  <2> HIDE DEF t
  <2> QED
    BY <1>1, <2>1, <2>2, <2>3, WriteShape DEF Change, SameFavourites
<1>5. CASE WriteResolvable(c)
  <2> DEFINE t == AddResolvable(db, r.name, r.recipe, r.hint)
  <2>1. r.op = "addres" /\ Write(c, t, "reread")
    BY <1>5 DEF WriteResolvable
  <2>2. IsCatalog(t) /\ SameFavourites(db, t) 
          /\ SamePlaylists(db, t) /\ ManualId(r.name, r.recipe) \in DOMAIN t
    <3>1. r.name \in Names /\ r.recipe \in Recipes /\ r.hint \in Hints \union {NoHint}
      BY <1>1, <1>2, <2>1, RequestFields DEF Hint
    <3> HIDE DEF r
    <3> QED
      BY <1>1, <3>1, AddResolvableFacts
  <2>3. TargetId(c) \in DOMAIN t /\ db' = t
    BY <2>1, <2>2 DEF TargetId, Write, Commit
  <2> HIDE DEF t
  <2> QED
    BY <1>1, <2>1, <2>2, <2>3, WriteShape DEF Change, SameFavourites
<1>6. CASE WriteUpdate(c)
  <2>1. r.op = "update" /\ TargetId(c) = r.id
    BY <1>6 DEF WriteUpdate, TargetId
  <2>2. CASE r.id \in DOMAIN db
    <3> DEFINE t == UpdateManual(db, r.id, r.name, r.url, r.hint)
    <3>1. Write(c, t, "reread")
      BY <1>6, <2>2 DEF WriteUpdate
    <3>2. IsCatalog(t) /\ SameFavourites(db, t) /\ SamePlaylists(db, t) /\ DOMAIN t = DOMAIN db
      BY <1>1, <1>2, <2>1, <2>2, UpdateManualFacts, RequestFields DEF Hint
    <3>3. db' = t
      BY <3>1 DEF Write, Commit
    <3> HIDE DEF t
    <3> QED
      BY <1>1, <2>1, <2>2, <3>1, <3>2, <3>3, WriteShape DEF Change, SameFavourites
  <2>3. CASE r.id \notin DOMAIN db
    BY <1>1, <1>6, <2>3, ProceedShape DEF WriteUpdate, Early
  <2> QED
    BY <2>2, <2>3
<1>7. CASE WriteDelete(c)
  <2>1. CASE r.id \in DOMAIN db
    <3> DEFINE t == Drop(db, {r.id})
    <3>1. Write(c, t, "list")
      BY <1>7, <2>1 DEF WriteDelete
    <3>2. IsCatalog(t) /\ SameFavourites(db, t) /\ SamePlaylists(db, t) /\ DOMAIN t \subseteq DOMAIN db
      <4>1. DOMAIN t = DOMAIN db \ {r.id}
        BY <1>1, DropIsCatalog
      <4> QED
        BY <1>1, <4>1, DropIsCatalog
    <3>3. db' = t
      BY <3>1 DEF Write, Commit
    <3> HIDE DEF t
    <3> QED
      BY <1>1, <3>1, <3>2, <3>3, WriteShape DEF Change, SameFavourites
  <2>2. CASE r.id \notin DOMAIN db
    BY <1>1, <1>7, <2>2, ProceedShape DEF WriteDelete, Early
  <2> QED
    BY <2>1, <2>2
<1>8. CASE WriteResolved(c)
  <2>1. CASE r.id \in DOMAIN db
    <3>1. PICK u \in read[c].urls : Write(c, SetResolvedURL(db, r.id, u), "list")
      BY <1>8, <2>1 DEF WriteResolved
    <3> DEFINE t == SetResolvedURL(db, r.id, u)
    <3>2. u \in Links
      BY <3>1 DEF Served, HandlerTypes
    <3>3. IsCatalog(t) /\ SameFavourites(db, t) /\ SamePlaylists(db, t) /\ DOMAIN t = DOMAIN db
      BY <1>1, <2>1, <3>2, SetResolvedURLFacts
    <3>4. db' = t
      BY <3>1 DEF Write, Commit
    <3> HIDE DEF t
    <3> QED
      BY <1>1, <3>1, <3>3, <3>4, WriteShape DEF t, Change, SameFavourites
  <2>2. CASE r.id \notin DOMAIN db
    BY <1>1, <1>8, <2>2, ReturnShape DEF WriteResolved, Early, Answers
  <2> QED
    BY <2>1, <2>2
<1>9. CASE WriteImport(c)
  <2> DEFINE t == ImportManual(db, r.entries, read[c].urls)
  <2>1. r.op = "import" /\ Write(c, t, "list")
    BY <1>9 DEF WriteImport
  <2>2. \A k \in DOMAIN r.entries : r.entries[k] \in [name : NameOrBlank, url : Urls]
    <3>1. r.entries \in Seq([name : NameOrBlank, url : Urls])
      BY <1>1, <2>1, BatchesAreEntries, RequestFields
    <3> QED
      BY <3>1, SeqElements, Zenon
  <2>3. IsCatalog(t) /\ SameFavourites(db, t) /\ SamePlaylists(db, t)
    BY <1>1, <2>2, ImportManualFacts
  <2>4. db' = t
    BY <2>1 DEF Write, Commit
  <2> HIDE DEF t
  <2> QED
    BY <1>1, <2>1, <2>3, <2>4, WriteShape DEF Change, SameFavourites
<1> QED
  BY <1>3, <1>4, <1>5, <1>6, <1>7, <1>8, <1>9

\* The read at the end of an edit is quiet, and leads to the rebuild if the row
\* is still there.
LEMMA RereadShape ==
  ASSUME Served, NEW c \in Handlers, Reread(c)
  PROVE  Quiet(c)
  BY ReturnShape, ProceedShape DEF Reread, Early, Answers

\* One step of handler c.
Moves(c) ==
  \/ \E r \in Requests : Arrive(c, r)
  \/ CheckManual(c) \/ ReadRecipe(c) \/ Resolve(c) \/ ReadIndex(c)
  \/ WriteFavourite(c) \/ WriteAdd(c) \/ WriteResolvable(c) \/ WriteUpdate(c)
  \/ WriteDelete(c) \/ WriteResolved(c) \/ WriteImport(c)
  \/ Reread(c) \/ Rebuild(c)

\* It is a step of rebuild, a change or quiet.
LEMMA StepShape ==
  ASSUME Served, NEW c \in Handlers, Moves(c)
  PROVE  Rebuild(c) \/ Change(c) \/ Quiet(c)
  BY ArriveShape, ReadShape, StatementShape, RereadShape DEF Moves

\* Every step of ManualChannels is a step of rebuild, a change or quiet.
LEMMA NextShape ==
  ASSUME Served, Next
  PROVE  \E c \in Handlers : Rebuild(c) \/ Change(c) \/ Quiet(c)
<1>1. PICK c \in Handlers : Moves(c)
  BY DEF Next, Moves
<1> QED
  BY <1>1, StepShape

-----------------------------------------------------------------------------
(* What the shapes keep. *)

\* The handlers go on serving valid requests.
LEMMA ServedKept ==
  ASSUME Served, NEW c \in Handlers, Rebuild(c) \/ Writes(c) \/ Quiet(c)
  PROVE  Served'
<1>1. CASE Rebuild(c)
  <2>1. /\ \E step \in {"swap", "hook", "idle"} : Goto(c, step)
        /\ UNCHANGED <<db, epoch, req, read, left>>
        /\ answer' = answer \/ Answer(c, "200")
        /\ pc[c] \in {"list", "swap", "hook"}
    BY <1>1 DEF Rebuild, RebuildList, RebuildSwap, Finish, RebuildHook, handlerVars
  <2>2. \A d \in Handlers : pc'[d] \in Early \ {"idle"} => d # c /\ pc[d] = pc'[d]
    BY <2>1 DEF Served, Goto, Early
  <2>3. pc' = [d \in Handlers |-> pc'[d]] /\ HandlerTypes'
    BY <2>1 DEF Served, HandlerTypes, Goto, Answer, Answers
  <2>4. \A d \in Handlers \ {c} : answer'[d] = answer[d]
    BY <2>1 DEF Answer, Served, HandlerTypes
  <2> QED
    BY <2>1, <2>2, <2>3, <2>4 DEF Served, Serving
<1>2. CASE Writes(c)
  <2>1. pc' = [d \in Handlers |-> pc'[d]] /\ \A d \in Handlers \ {c} : pc'[d] = pc[d]
    BY <1>2 DEF Writes, Served, Goto
  <2>2. epoch' \in Nat
    BY <1>2 DEF Writes, Served
  <2> QED
    BY <1>2, <2>1, <2>2 DEF Writes, Served, Serving, Early
<1>3. CASE Quiet(c)
  <2>1. PICK step \in Early \union {"list"} : Goto(c, step) /\ (step # "idle" => Serving(c)')
    BY <1>3 DEF Quiet
  <2>2. /\ pc' = [d \in Handlers |-> pc'[d]] /\ pc'[c] = step
        /\ \A d \in Handlers \ {c} : pc'[d] = pc[d]
    BY <2>1 DEF Served, Goto
  <2>3. \A d \in Handlers : pc'[d] \in Early \ {"idle"} => Serving(d)'
    BY <1>3, <2>1, <2>2 DEF Quiet, Served, Serving, OthersKeep
  <2> QED
    BY <1>3, <2>2, <2>3 DEF Quiet, Served
<1> QED
  BY <1>1, <1>2, <1>3

\* The epochs go on telling what is current.
LEMMA CacheKept ==
  ASSUME CacheTrue, NEW c \in Handlers, Rebuild(c) \/ Writes(c) \/ Quiet(c)
  PROVE  CacheTrue'
<1>1. CASE Rebuild(c)
  BY <1>1, CacheTrueRebuild DEF Rebuild, Finish, RebuildStep
<1>2. CASE Writes(c)
  BY <1>2, CacheTrueHandler DEF Writes, HandlerStep
<1>3. CASE Quiet(c)
  BY <1>3, CacheTrueHandler DEF Quiet, HandlerStep
<1> QED
  BY <1>1, <1>2, <1>3

\* A handler that owes a rebuild owes it until it reads the table.
LEMMA OwesKept ==
  ASSUME Served, NEW c \in Handlers, Quiet(c) \/ (Rebuild(c) /\ pc[c] # "list")
  PROVE  Owing \subseteq Owing'
<1> SUFFICES ASSUME NEW d \in Handlers, Owes(d) PROVE Owes(d)'
  BY DEF Owing
<1>1. CASE Rebuild(c) /\ pc[c] # "list"
  <2>1. \E step : Goto(c, step) /\ pc[c] \in {"swap", "hook"} /\ UNCHANGED <<db, epoch, req, read>>
    BY <1>1 DEF Rebuild, RebuildList, RebuildSwap, Finish, RebuildHook, handlerVars
  <2> QED
    BY <2>1 DEF Served, Goto, Owes, TargetId
<1>2. CASE Quiet(c)
  <2>1. PICK step \in Early \union {"list"} :
          /\ Goto(c, step)
          /\ pc[c] = "reread" /\ TargetId(c) \in DOMAIN db => step = "list"
    BY <1>2 DEF Quiet
  <2>2. pc[c] \in Early /\ UNCHANGED <<db, epoch>> /\ OthersKeep(c)
    BY <1>2 DEF Quiet
  <2>3. pc'[c] = step /\ \A e \in Handlers \ {c} : pc'[e] = pc[e]
    BY <2>1 DEF Served, Goto
  <2>4. CASE d = c
    BY <2>1, <2>2, <2>3, <2>4 DEF Owes, Early
  <2>5. CASE d # c
    <3>1. TargetId(d)' = TargetId(d)
      BY <2>2, <2>5 DEF OthersKeep, TargetId
    <3> QED
      BY <2>2, <2>3, <2>5, <3>1 DEF Owes, OthersKeep
  <2> QED
    BY <2>4, <2>5
<1> QED
  BY <1>1, <1>2

\* A handler that has changed the table owes one.
LEMMA WritesOwe ==
  ASSUME Served, NEW c \in Handlers, Writes(c)
  PROVE  Owes(c)'
<1>1. PICK step \in {"list", "reread"} :
        Goto(c, step) /\ (step = "reread" => TargetId(c) \in DOMAIN db')
  BY DEF Writes
<1>2. pc'[c] = step /\ read'[c].at = epoch' /\ TargetId(c)' = TargetId(c)
  BY <1>1 DEF Served, Goto, Writes, TargetId
<1> QED
  BY <1>1, <1>2 DEF Owes

-----------------------------------------------------------------------------
(* The inductive invariant. *)

\* It holds at first.
LEMMA InitInv == Init => Inv
<1> SUFFICES ASSUME Init PROVE Inv
  OBVIOUS
<1>1. CacheTrue
  BY CacheTrueInit DEF Init
<1>2. IsCatalog(db) /\ epoch = 0 /\ reordered = FALSE /\ cached.at = 0 /\ headers.at = 0
      /\ (\A c \in Handlers : listed[c].at = 0) /\ pc = [c \in Handlers |-> "idle"]
  BY FeedIsCatalog DEF Init, CacheInit
<1>3. TypeOK
  <2>1. /\ req = [c \in Handlers |-> Idle] /\ answer = [c \in Handlers |-> "none"]
        /\ read = [c \in Handlers |-> [urls |-> {}, at |-> 0]] /\ left = MaxRequests
    BY DEF Init
  <2>2. reordered \in BOOLEAN /\ epoch \in Nat
    BY <1>2
  <2> QED
    BY <1>2, <2>1, <2>2, RequestBound DEF TypeOK, Answers
<1> QED
  BY <1>1, <1>2, <1>3 DEF Init, Inv, Validated, Published, PublishedBy, SeesItsWrite

\* A quiet step keeps it.
LEMMA QuietInv == ASSUME Inv, NEW c \in Handlers, Quiet(c) PROVE Inv'
<1>1. PICK step \in Early \union {"list"} :
        /\ Goto(c, step)
        /\ step # "idle" => Serving(c)'
        /\ pc[c] = "reread" /\ TargetId(c) \in DOMAIN db => step = "list"
  BY DEF Quiet
<1>2. /\ pc[c] \in Early /\ read'[c].at \in {read[c].at, epoch}
      /\ req'[c] \in Requests \union {req[c]}
      /\ HandlerTypes' /\ OthersKeep(c)
      /\ UNCHANGED <<db, epoch, listed, cached, headers, reordered>>
  BY DEF Quiet, cacheVars
<1>3. /\ pc' = [pc EXCEPT ![c] = step]
      /\ pc'[c] = step /\ \A d \in Handlers \ {c} : pc'[d] = pc[d]
  BY <1>1 DEF Goto, Inv, TypeOK
<1>4. TypeOK'
  <2>1. pc' \in [Handlers -> {"idle", "read", "network", "write", "reread", "list", "swap", "hook"}]
    BY <1>3 DEF Inv, TypeOK, Early
  <2>2. ASSUME NEW d \in Handlers, pc'[d] # "idle" PROVE req'[d] \in Requests
    BY <1>1, <1>2, <1>3, <2>2 DEF Inv, TypeOK, OthersKeep, Serving
  <2> QED
    <3>1. req' \in [Handlers -> Requests \union {Idle}]
      BY <1>2 DEF Inv, TypeOK, HandlerTypes, OthersKeep
    <3> QED
      BY <1>2, <2>1, <2>2, <3>1 DEF Inv, TypeOK, HandlerTypes
<1>5. Validated'
  BY <1>1, <1>2, <1>3 DEF Inv, Validated, OthersKeep, Serving
<1>6. CacheTrue'
  BY CacheKept DEF Inv
<1>7. Published'
  <2>1. \A d \in Handlers : pc[d] \in {"swap", "hook"} => pc'[d] = pc[d]
    BY <1>2, <1>3 DEF Early
  <2>2. UNCHANGED <<epoch, cacheVars>>
    BY DEF Quiet
  <2> QED
    BY <2>1, <2>2, OwesKept, PublishedQuiet, InvServed DEF Inv, Published
<1>8. SeesItsWrite'
  <2>1. \A d \in Handlers : pc'[d] \in {"swap", "hook"} => d # c
    BY <1>3 DEF Early
  <2>2. read'[c].at <= epoch
    BY <1>2 DEF Inv, TypeOK, SeesItsWrite
  <2> QED
    BY <1>1, <1>2, <1>3, <2>1, <2>2 DEF Inv, SeesItsWrite, OthersKeep, Serving
<1> QED
  BY <1>4, <1>5, <1>6, <1>7, <1>8 DEF Inv

\* A change of the table keeps it: the handler that made it owes a rebuild.
LEMMA WritesInv == ASSUME Inv, NEW c \in Handlers, Writes(c) PROVE Inv'
<1>1. PICK step \in {"list", "reread"} :
        Goto(c, step) /\ (step = "reread" => TargetId(c) \in DOMAIN db')
  BY DEF Writes
<1>2. /\ pc[c] = "write" /\ epoch' = epoch + 1 /\ IsCatalog(db') /\ read'[c].at = epoch'
      /\ HandlerTypes' /\ OthersKeep(c)
      /\ UNCHANGED <<listed, cached, headers, reordered, req, answer>>
  BY DEF Writes, cacheVars
<1>3. /\ pc' = [pc EXCEPT ![c] = step]
      /\ pc'[c] = step /\ \A d \in Handlers \ {c} : pc'[d] = pc[d]
  BY <1>1 DEF Goto, Inv, TypeOK
<1>4. TypeOK'
  <2>1. pc' \in [Handlers -> {"idle", "read", "network", "write", "reread", "list", "swap", "hook"}]
    BY <1>3 DEF Inv, TypeOK
  <2>2. \A d \in Handlers : pc'[d] # "idle" => req'[d] \in Requests
    BY <1>2, <1>3 DEF Inv, TypeOK
  <2> QED
    BY <1>2, <2>1, <2>2 DEF Inv, TypeOK, HandlerTypes
<1>5. Validated'
  BY <1>2, <1>3 DEF Inv, Validated
<1>6. CacheTrue'
  BY CacheKept DEF Inv
<1>7. Owes(c)'
  BY WritesOwe, InvServed
<1>8. Published'
  BY <1>7 DEF Published, PublishedBy, Owing
<1>9. SeesItsWrite'
  <2>1. epoch \in Nat /\ \A d \in Handlers : read[d].at \in Nat
    BY DEF Inv, TypeOK
  <2> QED
    BY <1>1, <1>2, <1>3, <2>1 DEF Inv, SeesItsWrite, OthersKeep
<1> QED
  BY <1>4, <1>5, <1>6, <1>8, <1>9 DEF Inv

\* The steps of a rebuild keep it.
LEMMA RebuildInv == ASSUME Inv, NEW c \in Handlers, Rebuild(c) PROVE Inv'
<1>1. RebuildStep(c)
  BY DEF Rebuild, RebuildStep, Finish
<1>2. CacheTrue' /\ Published'
  BY <1>1, CacheKept, OwesKept, PublishedRebuild, InvServed DEF Inv, Published
<1>3. /\ UNCHANGED <<db, epoch, req, read, left>>
      /\ \A d \in Handlers : TargetId(d)' = TargetId(d)
  BY DEF Rebuild, RebuildList, RebuildSwap, Finish, RebuildHook, handlerVars, TargetId
<1>4. CASE RebuildList(c) /\ UNCHANGED handlerVars
  <2>1. /\ pc[c] = "list" /\ pc' = [pc EXCEPT ![c] = "swap"]
        /\ listed' = [listed EXCEPT ![c] = [rows |-> db, at |-> epoch]]
        /\ UNCHANGED <<cached, headers, reordered, answer>>
    BY <1>4 DEF RebuildList, Goto, Snapshot, handlerVars
  <2>2. TypeOK' /\ Validated'
    BY <1>3, <2>1 DEF Inv, TypeOK, Validated, CacheTrue
  <2>3. SeesItsWrite'
    BY <1>3, <2>1 DEF Inv, TypeOK, CacheTrue, SeesItsWrite
  <2> QED
    BY <1>2, <2>2, <2>3 DEF Inv
<1>5. CASE RebuildSwap(c) /\ UNCHANGED handlerVars
  <2>1. /\ pc[c] = "swap" /\ pc' = [pc EXCEPT ![c] = "hook"]
        /\ cached' = listed[c] /\ reordered' = (reordered \/ listed[c].at < cached.at)
        /\ UNCHANGED <<listed, headers, answer>>
    BY <1>5 DEF RebuildSwap, Goto, handlerVars
  <2>2. TypeOK' /\ Validated'
    BY <1>3, <2>1 DEF Inv, TypeOK, Validated, CacheTrue
  <2>3. ~reordered' => ~reordered /\ listed[c].at >= cached.at
    <3>1. ~reordered' => ~reordered /\ ~(listed[c].at < cached.at)
      BY <2>1, Zenon
    <3> QED
      BY <3>1 DEF Inv, CacheTrue
  <2>4. SeesItsWrite'
    BY <1>3, <2>1, <2>3 DEF Inv, TypeOK, CacheTrue, SeesItsWrite
  <2> QED
    BY <1>2, <2>2, <2>4 DEF Inv
<1>6. CASE Finish(c)
  <2>1. /\ pc[c] = "hook" /\ pc' = [pc EXCEPT ![c] = "idle"]
        /\ headers' = [map |-> UpstreamHeaders(listed[c].rows), at |-> listed[c].at]
        /\ reordered' = (reordered \/ listed[c].at < headers.at)
        /\ answer' = [answer EXCEPT ![c] = "200"]
        /\ UNCHANGED <<listed, cached>>
    BY <1>6 DEF Finish, RebuildHook, Goto, Answer
  <2>2. TypeOK' /\ Validated'
    BY <1>3, <2>1 DEF Inv, TypeOK, Validated, CacheTrue, Answers
  <2>3. ~reordered' => ~reordered /\ listed[c].at >= headers.at
    <3>1. ~reordered' => ~reordered /\ ~(listed[c].at < headers.at)
      BY <2>1, Zenon
    <3> QED
      BY <3>1 DEF Inv, CacheTrue
  <2>4. SeesItsWrite'
    BY <1>3, <2>1, <2>3 DEF Inv, TypeOK, CacheTrue, SeesItsWrite
  <2> QED
    BY <1>2, <2>2, <2>4 DEF Inv
<1> QED
  BY <1>4, <1>5, <1>6 DEF Rebuild

\* It keeps when nothing happens.
LEMMA IdleInv == ASSUME Inv, UNCHANGED vars PROVE Inv'
<1> USE DEF vars, cacheVars, handlerVars
<1>1. TypeOK' /\ Validated'
  BY DEF Inv, TypeOK, Validated
<1>2. CacheTrue'
  BY CacheTrueIdle DEF Inv
<1>3. \A d \in Handlers : Owes(d)' = Owes(d)
  BY DEF Owes, TargetId
<1>4. Published' /\ SeesItsWrite'
  <2>1. Owing \subseteq Owing'
    BY <1>3 DEF Owing
  <2> QED
    BY <2>1, PublishedQuiet DEF Inv, Published, SeesItsWrite
<1> QED
  BY <1>1, <1>2, <1>4 DEF Inv

\* It holds for ever.
LEMMA InvHolds == Spec => []Inv
<1>1. Inv /\ [Next]_vars => Inv'
  <2> SUFFICES ASSUME Inv, [Next]_vars PROVE Inv'
    OBVIOUS
  <2>1. CASE Next
    <3>1. PICK c \in Handlers : Rebuild(c) \/ Change(c) \/ Quiet(c)
      BY <2>1, NextShape, InvServed
    <3> QED
      BY <3>1, RebuildInv, WritesInv, QuietInv DEF Change
  <2>2. CASE UNCHANGED vars
    BY <2>2, IdleInv
  <2> QED
    BY <2>1, <2>2
<1> QED
  BY InitInv, <1>1, PTL DEF Spec

-----------------------------------------------------------------------------
(* The theorems. *)

\* No handler of main.go returns early from a change of the table without the
\* rebuild it needs: unless one rebuild overtakes another, the payload of GET
\* /api/channels and the proxy's header overrides are those of the catalog
\* whenever every request has been answered.
THEOREM CacheCurrent == Spec => []CurrentUnlessReordered
<1>1. Inv => CurrentUnlessReordered
  <2>1. AtRest => Owing = {}
    BY DEF AtRest, Owing, Owes
  <2> QED
    BY <2>1, PublishedAtRest DEF Inv, Published
<1> QED
  BY <1>1, InvHolds, PTL

\* The catalog stays a catalog and every handler's state has its type, whatever
\* requests interleave; with CacheCurrent.
THEOREM CatalogSound == Spec => []CatalogOK
<1>1. Inv => TypeOK
  BY DEF Inv
<1> QED
  BY <1>1, InvHolds, CacheCurrent, PTL DEF CatalogOK

\* Whoever is answered 200 finds its change in the payload and the header
\* overrides, unless one rebuild overtakes another.
THEOREM WritesAreSeen == Spec => ReadYourWrites
<1> DEFINE Seen == \A c \in Handlers :
             pc[c] = "hook" /\ answer'[c] = "200" /\ ~reordered'
             => cached.at >= read[c].at /\ headers'.at >= read[c].at
<1>1. Inv /\ [Next]_vars => [Seen]_vars
  <2> SUFFICES ASSUME Inv, Next, NEW d \in Handlers, pc[d] = "hook", answer'[d] = "200",
                      ~reordered'
               PROVE  cached.at >= read[d].at /\ headers'.at >= read[d].at
    OBVIOUS
  <2>1. answer[d] = "none" /\ read[d].at <= listed[d].at
        /\ read[d].at \in Nat /\ listed[d].at \in Nat /\ cached.at \in Nat
    BY DEF Inv, TypeOK, SeesItsWrite
  <2>2. PICK c \in Handlers : Rebuild(c) \/ Change(c) \/ Quiet(c)
    BY NextShape, InvServed
  <2>3. Finish(d)
    BY <2>1, <2>2 DEF Rebuild, Change, Writes, Quiet, OthersKeep, Early, Finish, Answer,
                      handlerVars, Inv, TypeOK
  <2>4. headers'.at = listed[d].at /\ ~reordered
    BY <2>3 DEF Finish, RebuildHook, Inv, TypeOK
  <2>5. listed[d].at <= cached.at
    BY <2>4 DEF Inv, SeesItsWrite
  <2> QED
    BY <2>1, <2>4, <2>5
<1> QED
  BY <1>1, InvHolds, PTL DEF Spec, ReadYourWrites

\* However requests interleave, only a favourite request changes the favourite
\* flag of a channel, and to the value it carried.
THEOREM FavouritesKept == Spec => FavouriteOnlyByRequest
<1> DEFINE Kept == \A i \in DOMAIN db \intersect DOMAIN db' :
             db'[i].fav # db[i].fav =>
               \E c \in Handlers : /\ pc[c] = "write" /\ pc'[c] # "write"
                                   /\ req[c] = [op |-> "fav", id |-> i, on |-> db'[i].fav]
<1>1. Inv /\ [Next]_vars => [Kept]_vars
  <2> SUFFICES ASSUME Inv, Next PROVE Kept
    OBVIOUS
  <2>1. PICK c \in Handlers : Rebuild(c) \/ Change(c) \/ Quiet(c)
    BY NextShape, InvServed
  <2>2. CASE Rebuild(c) \/ Quiet(c)
    BY <2>2 DEF Rebuild, RebuildList, RebuildSwap, Finish, RebuildHook, Quiet
  <2>3. CASE Change(c)
    <3>1. pc[c] = "write" /\ pc'[c] # "write"
      BY <2>3 DEF Change, Writes, Goto, Inv, TypeOK
    <3> QED
      BY <2>3, <3>1 DEF Change
  <2> QED
    BY <2>1, <2>2, <2>3
<1> QED
  BY <1>1, InvHolds, PTL DEF Spec, FavouriteOnlyByRequest

\* A channel that was deleted comes back only when it is added or imported.
THEOREM DeletedStaysDeleted == Spec => NoResurrection
<1> DEFINE Gone == \A i \in DOMAIN db' \ DOMAIN db :
             \E c \in Handlers : /\ pc[c] = "write" /\ pc'[c] # "write"
                                 /\ req[c].op \in {"add", "addres", "import"}
<1>1. Inv /\ [Next]_vars => [Gone]_vars
  <2> SUFFICES ASSUME Inv, Next PROVE Gone
    OBVIOUS
  <2>1. PICK c \in Handlers : Rebuild(c) \/ Change(c) \/ Quiet(c)
    BY NextShape, InvServed
  <2>2. CASE Rebuild(c) \/ Quiet(c)
    BY <2>2 DEF Rebuild, RebuildList, RebuildSwap, Finish, RebuildHook, Quiet
  <2>3. CASE Change(c)
    <3>1. pc[c] = "write" /\ pc'[c] # "write"
      BY <2>3 DEF Change, Writes, Goto, Inv, TypeOK
    <3> QED
      BY <2>3, <3>1 DEF Change
  <2> QED
    BY <2>1, <2>2, <2>3
<1> QED
  BY <1>1, InvHolds, PTL DEF Spec, NoResurrection

\* The index an import has read is that of the table, as long as the table is
\* the one it read.
IndexTrue ==
  \A c \in Handlers :
    At(c, "import", "write") /\ read[c].at = epoch => read[c].urls = URLIndex(db)

\* A handler comes to the transaction of an import only from reading the index.
LEMMA IntoImport ==
  ASSUME Inv, NEW c \in Handlers, Moves(c), At(c, "import", "write")'
  PROVE  read'[c].urls = URLIndex(db) /\ UNCHANGED db
<1> USE DEF At
<1>1. /\ pc = [d \in Handlers |-> pc[d]] /\ req = [d \in Handlers |-> req[d]]
      /\ read = [d \in Handlers |-> read[d]]
  BY DEF Inv, TypeOK
<1>2. CASE \E r \in Requests : Arrive(c, r)
  <2>1. PICK r \in Requests : Arrive(c, r)
    BY <1>2
  <2>2. CASE r.op \in {"add", "addres", "update"} /\ r.name = Blank
    BY <1>1, <2>1, <2>2 DEF Arrive, Goto
  <2>3. CASE ~(r.op \in {"add", "addres", "update"} /\ r.name = Blank)
    <3>1. req'[c] = r /\ pc'[c] = IF r.op \in {"fav", "add", "addres"} THEN "write" ELSE "read"
      BY <1>1, <2>1, <2>3 DEF Arrive, Goto
    <3> QED
      BY <3>1
  <2> QED
    BY <2>2, <2>3
<1>3. CASE CheckManual(c) \/ ReadRecipe(c) \/ Resolve(c)
  <2>1. req[c].op # "import" /\ pc[c] # "write" /\ UNCHANGED req
    BY <1>3 DEF CheckManual, ReadRecipe, Resolve, Return, handlerVars
  <2> QED
    BY <2>1
<1>4. CASE ReadIndex(c)
  BY <1>1, <1>4 DEF ReadIndex
<1>5. CASE Rebuild(c)
  BY <1>1, <1>5 DEF Rebuild, RebuildList, RebuildSwap, Finish, RebuildHook, Goto
<1>6. CASE Reread(c)
  BY <1>1, <1>6 DEF Reread, Return, Goto
<1>7. CASE \/ WriteFavourite(c) \/ WriteAdd(c) \/ WriteResolvable(c) \/ WriteUpdate(c)
           \/ WriteDelete(c) \/ WriteResolved(c) \/ WriteImport(c)
  <2>1. pc'[c] \in {"idle", "reread", "list"}
    BY <1>1, <1>7 DEF WriteFavourite, WriteAdd, WriteResolvable, WriteUpdate, WriteDelete,
                      WriteResolved, WriteImport, Return, Write, Goto
  <2> QED
    BY <2>1
<1> QED
  BY <1>2, <1>3, <1>4, <1>5, <1>6, <1>7 DEF Moves

\* So the index stays true: whoever changes the table makes it an older one.
LEMMA IndexTrueKept ==
  ASSUME Inv, IndexTrue, [Next]_vars
  PROVE  IndexTrue'
<1> SUFFICES ASSUME NEW d \in Handlers, At(d, "import", "write")', read'[d].at = epoch'
             PROVE  read'[d].urls = URLIndex(db')
  BY DEF IndexTrue
<1>1. CASE UNCHANGED vars
  BY <1>1 DEF vars, handlerVars, IndexTrue, At
<1>2. CASE Next
  <2>1. PICK c \in Handlers : Moves(c)
    BY <1>2 DEF Next, Moves
  <2>2. CASE c = d
    BY <2>1, <2>2, IntoImport
  <2>3. CASE c # d
    <3>1. Rebuild(c) \/ Writes(c) \/ Quiet(c)
      BY <2>1, StepShape, InvServed DEF Change
    <3>2. pc'[d] = pc[d] /\ req'[d] = req[d] /\ read'[d] = read[d]
      <4>1. \E step : Goto(c, step)
        BY <3>1 DEF Rebuild, RebuildList, RebuildSwap, Finish, RebuildHook, Writes, Quiet
      <4>2. pc'[d] = pc[d]
        BY <2>3, <4>1 DEF Goto, Inv, TypeOK
      <4> QED
        BY <2>3, <3>1, <4>2 DEF Rebuild, Finish, handlerVars, Writes, Quiet, OthersKeep
    <3>3. UNCHANGED <<db, epoch>> \/ epoch' = epoch + 1
      BY <3>1 DEF Rebuild, RebuildList, RebuildSwap, Finish, RebuildHook, Writes, Quiet
    <3>4. read[d].at <= epoch /\ read[d].at \in Nat /\ epoch \in Nat
      BY DEF Inv, TypeOK, SeesItsWrite
    <3> QED
      BY <3>2, <3>3, <3>4 DEF IndexTrue, At
  <2> QED
    BY <2>2, <2>3
<1> QED
  BY <1>1, <1>2

\* An import whose index is still that of the library when its transaction runs
\* gives no link a second owner (ImportManual).
THEOREM LinksStayUnique == Spec => ImportKeepsLinksUnique
<1> DEFINE Unique ==
      \A c \in Handlers :
        At(c, "import", "write") /\ epoch' = epoch + 1 /\ pc'[c] = "list" /\ read[c].at = epoch
        => \A u \in Urls : \/ Cardinality(Owners(db', u)) <= 1
                           \/ Owners(db', u) \subseteq Owners(db, u)
<1>1. Init => IndexTrue
  BY DEF Init, CacheInit, IndexTrue, At
<1>2. Inv /\ IndexTrue /\ [Next]_vars => IndexTrue'
  BY IndexTrueKept
<1>3. Inv /\ IndexTrue /\ [Next]_vars => [Unique]_vars
  <2> SUFFICES ASSUME Inv, IndexTrue, Next, NEW c \in Handlers, At(c, "import", "write"),
                      pc'[c] = "list", read[c].at = epoch, NEW u \in Urls
               PROVE  \/ Cardinality(Owners(db', u)) <= 1
                      \/ Owners(db', u) \subseteq Owners(db, u)
    OBVIOUS
  <2>1. PICK d \in Handlers : Moves(d)
    BY DEF Next, Moves
  <2>2. d = c
    <3>1. \E step : Goto(d, step)
      BY <2>1, StepShape, InvServed DEF Change, Rebuild, RebuildList, RebuildSwap, Finish,
                                        RebuildHook, Writes, Quiet
    <3> QED
      BY <3>1 DEF Goto, Inv, TypeOK, At
  <2>3. WriteImport(c)
    <3>1. ~\E r \in Requests : Arrive(c, r)
      BY DEF Arrive, At
    <3> QED
      BY <2>1, <2>2, <3>1 DEF Moves, At, CheckManual, ReadRecipe, Resolve, ReadIndex, WriteFavourite,
         WriteAdd, WriteResolvable, WriteUpdate, WriteDelete, WriteResolved, Reread, Rebuild,
         RebuildList, RebuildSwap, Finish, RebuildHook
  <2>4. db' = ImportManual(db, req[c].entries, URLIndex(db))
    BY <2>3 DEF WriteImport, Write, Commit, IndexTrue
  <2>5. IsCatalog(db) /\ req[c].entries \in Seq([name : NameOrBlank, url : Urls])
    <3>1. req[c] \in Requests /\ req[c].op = "import"
      BY DEF At, Inv, TypeOK
    <3> QED
      BY <3>1, RequestFields, BatchesAreEntries DEF Inv, TypeOK
  <2> QED
    BY <2>4, <2>5, ImportManualLinks
<1> QED
  BY <1>1, <1>2, <1>3, InvHolds, PTL DEF Spec, ImportKeepsLinksUnique

-----------------------------------------------------------------------------
(* The refinement.  As in Inv, the newest change has been on show or somebody
   owes it; due says who. *)

\* What a handler with a change to show has done for it so far.
DueAt(c) ==
  /\ pc[c] \in {"idle", "start", "read", "network", "write"} => due[c] = 0
  /\ pc[c] \in {"swap", "hook"} => due[c] <= listed[c].at
  /\ pc[c] = "hook" => due[c] <= best["payload"]
  /\ pc[c] = "reread" /\ due[c] = epoch /\ epoch > 0 => TargetId(c) \in DOMAIN db

\* The history ranges over what there has been.
HistoryTypes ==
  /\ best = [w \in Views |-> best[w]] /\ due = [c \in Handlers |-> due[c]]
  /\ \A w \in Views : best[w] \in AsOf[w]..epoch
  /\ \A c \in Handlers : due[c] \in 0..epoch

NewestIsDue == (\A w \in Views : best[w] = epoch) \/ \E c \in Handlers : due[c] = epoch

PromiseInv == HistoryTypes /\ NewestIsDue /\ \A c \in Handlers : DueAt(c)

\* The two views of the cache.
LEMMA ViewsFacts ==
  /\ "payload" \in Views /\ "headers" \in Views
  /\ AsOf["payload"] = cached.at /\ AsOf["headers"] = headers.at
  /\ AsOf = [w \in Views |-> AsOf[w]]
  /\ \A w \in Views : w = "payload" \/ w = "headers"
  BY DEF Views, AsOf

\* The invariant of the cache bounds what is on show.
LEMMA CacheBounds ==
  ASSUME CacheTrue
  PROVE  /\ epoch \in Nat /\ cached.at \in 0..epoch /\ headers.at \in 0..epoch
         /\ \A c \in Handlers : listed[c].at \in 0..epoch
  BY DEF CacheTrue

\* A step that leaves the cache alone leaves the views, and what they have shown.
LEMMA ViewsKept ==
  ASSUME Served, CacheTrue, HistoryTypes, Record, UNCHANGED <<cached, headers>>
  PROVE  best' = best /\ AsOf' = AsOf
<1>1. AsOf' = AsOf
  BY DEF AsOf
<1>2. \A w \in Views : AsOf[w] \in Nat /\ best[w] \in Nat /\ AsOf[w] <= best[w]
  BY CacheBounds, ViewsFacts DEF HistoryTypes
<1> QED
  BY <1>1, <1>2 DEF Record, HistoryTypes

\* What a step of handler c makes of the debts: those of the others stay.
LEMMA DebtsKept ==
  ASSUME Served, CacheTrue, PromiseInv, Record, NEW c \in Handlers, NEW step, Goto(c, step)
  PROVE  /\ due' = [due EXCEPT ![c] = due'[c]]
         /\ \A d \in Handlers \ {c} : due'[d] = due[d]
         /\ due'[c] = IF step \in {"idle", "start"} THEN 0
                      ELSE IF epoch' # epoch /\ step # pc[c] THEN epoch' ELSE due[c]
         /\ pc'[c] = step /\ \A d \in Handlers \ {c} : pc'[d] = pc[d]
<1>1. pc'[c] = step /\ \A d \in Handlers \ {c} : pc'[d] = pc[d]
  BY DEF Goto, Served
<1>2. due' = [d \in Handlers |-> IF pc'[d] \in {"idle", "start"} THEN 0
                                 ELSE IF epoch' # epoch /\ pc'[d] # pc[d] THEN epoch' ELSE due[d]]
  BY DEF Record
<1>3. \A d \in Handlers \ {c} : due'[d] = due[d]
  BY <1>1, <1>2 DEF PromiseInv, DueAt
<1>4. due = [d \in Handlers |-> due[d]]
  BY DEF PromiseInv, HistoryTypes
<1> QED
  BY <1>1, <1>2, <1>3, <1>4

-----------------------------------------------------------------------------
\* A quiet step: nothing is shown; a handler that does not find its row is
\* answered, since whoever removed the row is due a newer version.
LEMMA QuietPromise ==
  ASSUME Served, CacheTrue, PromiseInv, Record, NEW c \in Handlers, Quiet(c)
  PROVE  PromiseInv' /\ (Public!Answer(c) \/ UNCHANGED Public!vars)
<1>1. PICK step \in Early \union {"list"} :
        /\ Goto(c, step)
        /\ pc[c] = "reread" => step = "list" \/ (step = "idle" /\ TargetId(c) \notin DOMAIN db)
  BY DEF Quiet
<1>2. pc[c] \in Early /\ OthersKeep(c) /\ UNCHANGED <<db, epoch, listed, cached, headers>>
  BY DEF Quiet, cacheVars
<1>3. best' = best /\ AsOf' = AsOf
  BY <1>2, ViewsKept DEF PromiseInv
<1>4. /\ due' = [due EXCEPT ![c] = due'[c]]
      /\ \A d \in Handlers \ {c} : due'[d] = due[d] /\ pc'[d] = pc[d]
      /\ due'[c] = (IF step = "idle" THEN 0 ELSE due[c])
      /\ pc'[c] = step
  BY <1>1, <1>2, DebtsKept DEF Early
<1>5. epoch \in Nat /\ due[c] \in 0..epoch /\ HistoryTypes
  BY CacheBounds DEF PromiseInv, HistoryTypes
<1>6. due[c] = 0 \/ pc[c] = "reread"
  BY <1>2 DEF PromiseInv, DueAt, Early
<1>7. due[c] = epoch /\ epoch > 0 => due'[c] = due[c]
  <2> SUFFICES ASSUME due[c] = epoch, epoch > 0 PROVE step # "idle"
    BY <1>4
  <2>1. pc[c] = "reread" /\ TargetId(c) \in DOMAIN db
    BY <1>5, <1>6 DEF PromiseInv, DueAt
  <2> QED
    BY <1>1, <2>1
<1>8. HistoryTypes'
  BY <1>2, <1>3, <1>4, <1>5 DEF HistoryTypes
<1>9. NewestIsDue'
  <2>1. CASE epoch = 0
    <3>1. \A w \in Views : best'[w] \in 0..0
      BY <1>2, <1>3, <1>5, <2>1, CacheBounds, ViewsFacts DEF HistoryTypes
    <3> QED
      BY <1>2, <2>1, <3>1 DEF NewestIsDue
  <2>2. CASE epoch # 0
    BY <1>2, <1>3, <1>4, <1>5, <1>7, <2>2 DEF PromiseInv, NewestIsDue
  <2> QED
    BY <2>1, <2>2
<1>10. ASSUME NEW d \in Handlers PROVE DueAt(d)'
  <2>1. CASE d = c
    <3>1. step # "list" => due'[c] = 0
      BY <1>1, <1>4, <1>6
    <3>2. due'[c] = epoch' /\ epoch' > 0 => step = "list"
      BY <1>2, <1>5, <3>1
    <3> QED
      BY <1>4, <2>1, <3>1, <3>2 DEF DueAt, Early
  <2>2. CASE d # c
    <3>1. TargetId(d)' = TargetId(d)
      BY <1>2, <2>2 DEF OthersKeep, TargetId
    <3> QED
      BY <1>2, <1>3, <1>4, <2>2, <3>1 DEF PromiseInv, DueAt
  <2> QED
    BY <2>1, <2>2
<1>11. CASE due'[c] = due[c]
  <2>1. due' = due
    BY <1>4, <1>5, <1>11 DEF HistoryTypes
  <2> QED
    BY <1>2, <1>3, <1>8, <1>9, <1>10, <2>1 DEF PromiseInv, Public!vars
<1>12. CASE due'[c] # due[c]
  <2>1. due'[c] = 0 /\ due[c] # epoch
    BY <1>4, <1>5, <1>7, <1>12
  <2>2. Public!Honoured(c)
    <3>1. CASE \A w \in Views : best[w] = epoch
      BY <1>3, <1>5, <3>1 DEF Public!Honoured
    <3>2. CASE \E d \in Handlers : due[d] = epoch
      BY <1>5, <2>1, <3>2 DEF Public!Honoured
    <3> QED
      BY <3>1, <3>2 DEF PromiseInv, NewestIsDue
  <2> QED
    BY <1>2, <1>3, <1>4, <1>8, <1>9, <1>10, <2>1, <2>2 DEF PromiseInv, Public!Answer, Public!Idle
<1> QED
  BY <1>11, <1>12

\* A statement that changes the table is a change its handler is due an answer to.
LEMMA WritesPromise ==
  ASSUME Served, CacheTrue, PromiseInv, Record, NEW c \in Handlers, Writes(c)
  PROVE  PromiseInv' /\ Public!Change(c)
<1>1. PICK step \in {"list", "reread"} :
        Goto(c, step) /\ (step = "reread" => TargetId(c) \in DOMAIN db')
  BY DEF Writes
<1>2. /\ pc[c] = "write" /\ epoch' = epoch + 1 /\ OthersKeep(c)
      /\ UNCHANGED <<listed, cached, headers, req>>
  BY DEF Writes, cacheVars
<1>3. best' = best /\ AsOf' = AsOf
  BY <1>2, ViewsKept DEF PromiseInv
<1>4. epoch \in Nat /\ HistoryTypes /\ due[c] = 0
  BY <1>2, CacheBounds DEF PromiseInv, DueAt
<1>5. /\ due' = [due EXCEPT ![c] = epoch']
      /\ \A d \in Handlers \ {c} : due'[d] = due[d] /\ pc'[d] = pc[d]
      /\ due'[c] = epoch' /\ pc'[c] = step
  BY <1>1, <1>2, <1>4, DebtsKept
<1>6. HistoryTypes'
  <2>1. \A w \in Views : AsOf[w] \in Nat
    BY CacheBounds, ViewsFacts
  <2> QED
    BY <1>2, <1>3, <1>4, <1>5, <2>1 DEF HistoryTypes
<1>7. NewestIsDue'
  BY <1>5 DEF NewestIsDue
<1>8. ASSUME NEW d \in Handlers PROVE DueAt(d)'
  <2>1. CASE d = c
    <3>1. TargetId(c)' = TargetId(c)
      BY <1>2 DEF TargetId
    <3> QED
      BY <1>1, <1>5, <2>1, <3>1 DEF DueAt
  <2>2. CASE d # c
    <3>1. due[d] \in 0..epoch
      BY <1>4 DEF HistoryTypes
    <3> QED
      BY <1>2, <1>3, <1>4, <1>5, <2>2, <3>1 DEF PromiseInv, DueAt
  <2> QED
    BY <2>1, <2>2
<1> QED
  BY <1>2, <1>3, <1>4, <1>5, <1>6, <1>7, <1>8 DEF PromiseInv, Public!Change

\* A view that is given a version shows it, and has shown the newest of its own.
LEMMA ShownMore ==
  ASSUME Served, CacheTrue, HistoryTypes, Record, NEW w \in Views, NEW v \in 0..epoch,
         AsOf' = [AsOf EXCEPT ![w] = v]
  PROVE  /\ best' = [best EXCEPT ![w] = IF v > @ THEN v ELSE @]
         /\ best'[w] >= v /\ \A x \in Views : best'[x] >= best[x]
         /\ \A x \in Views : best'[x] \in AsOf'[x]..epoch
<1>1. epoch \in Nat /\ \A x \in Views : AsOf[x] \in Nat /\ best[x] \in 0..epoch /\ AsOf[x] <= best[x]
  BY CacheBounds, ViewsFacts DEF HistoryTypes
<1>2. AsOf'[w] = v /\ \A x \in Views \ {w} : AsOf'[x] = AsOf[x]
  BY ViewsFacts
<1>3. best' = [x \in Views |-> IF AsOf'[x] > best[x] THEN AsOf'[x] ELSE best[x]]
  BY DEF Record
<1>4. best'[w] = (IF v > best[w] THEN v ELSE best[w]) /\ \A x \in Views \ {w} : best'[x] = best[x]
  BY <1>1, <1>2, <1>3
<1>5. best = [x \in Views |-> best[x]] /\ best' = [x \in Views |-> best'[x]]
  BY <1>3 DEF HistoryTypes
<1>6. best' = [best EXCEPT ![w] = IF v > @ THEN v ELSE @]
  BY <1>4, <1>5
<1> QED
  BY <1>1, <1>2, <1>4, <1>6

\* What has been on show counts for ever.
LEMMA NewestStays ==
  ASSUME NewestIsDue, due' = due, epoch' = epoch, epoch \in Nat,
         \A w \in Views : best[w] \in 0..epoch /\ best'[w] \in 0..epoch /\ best'[w] >= best[w]
  PROVE  NewestIsDue'
  BY DEF NewestIsDue

\* The steps of a rebuild: the list is as new as the change of its handler, so
\* the swap and the hook show that change, and the hook is the second to do so.
LEMMA RebuildPromise ==
  ASSUME Served, CacheTrue, PromiseInv, Record, NEW c \in Handlers, Rebuild(c)
  PROVE  PromiseInv' /\ [Public!Next]_Public!vars
<1>1. /\ UNCHANGED <<db, epoch, req>> /\ \A d \in Handlers : TargetId(d)' = TargetId(d)
  BY DEF Rebuild, RebuildList, RebuildSwap, Finish, RebuildHook, handlerVars, TargetId
<1>2. /\ epoch \in Nat /\ HistoryTypes /\ listed[c].at \in 0..epoch /\ due[c] \in 0..epoch
      /\ DOMAIN listed = Handlers
  BY CacheBounds DEF PromiseInv, HistoryTypes, CacheTrue
<1>3. \A w \in Views : AsOf[w] \in Nat /\ best[w] \in 0..epoch /\ AsOf[w] <= best[w]
  BY <1>2, CacheBounds, ViewsFacts DEF HistoryTypes
<1>4. CASE RebuildList(c)
  <2>1. /\ Goto(c, "swap") /\ pc[c] = "list" /\ UNCHANGED <<cached, headers>>
        /\ listed' = [listed EXCEPT ![c] = [rows |-> db, at |-> epoch]]
    BY <1>4 DEF RebuildList, Snapshot
  <2>2. best' = best /\ AsOf' = AsOf
    BY <1>2, <2>1, ViewsKept
  <2>3. /\ due' = [due EXCEPT ![c] = due'[c]] /\ due'[c] = due[c]
        /\ pc'[c] = "swap" /\ \A d \in Handlers \ {c} : pc'[d] = pc[d]
    BY <1>1, <2>1, DebtsKept
  <2>4. due' = due
    BY <1>2, <2>3 DEF HistoryTypes
  <2>5. listed'[c].at = epoch /\ \A d \in Handlers \ {c} : listed'[d] = listed[d]
    BY <1>2, <2>1
  <2>6. \A d \in Handlers : DueAt(d)'
    BY <1>1, <1>2, <2>2, <2>3, <2>4, <2>5 DEF PromiseInv, DueAt
  <2>7. HistoryTypes' /\ NewestIsDue'
    BY <1>1, <2>2, <2>4 DEF PromiseInv, HistoryTypes, NewestIsDue
  <2> QED
    BY <1>1, <2>2, <2>4, <2>6, <2>7 DEF PromiseInv, Public!vars
<1>5. CASE RebuildSwap(c)
  <2> DEFINE v == listed[c].at
  <2>1. /\ Goto(c, "hook") /\ pc[c] = "swap" /\ cached' = listed[c]
        /\ UNCHANGED <<listed, headers>>
    BY <1>5 DEF RebuildSwap
  <2>2. /\ due' = [due EXCEPT ![c] = due'[c]] /\ due'[c] = due[c]
        /\ pc'[c] = "hook" /\ \A d \in Handlers \ {c} : pc'[d] = pc[d]
    BY <1>1, <2>1, DebtsKept
  <2>3. due' = due
    BY <1>2, <2>2 DEF HistoryTypes
  <2>4. AsOf' = [AsOf EXCEPT !["payload"] = v]
    BY <2>1, ViewsFacts DEF AsOf
  <2>5. v \in due[c]..epoch
    BY <1>2, <2>1 DEF PromiseInv, DueAt
  <2>6. /\ best' = [best EXCEPT !["payload"] = IF v > @ THEN v ELSE @]
        /\ best'["payload"] >= v /\ \A w \in Views : best'[w] >= best[w]
        /\ \A w \in Views : best'[w] \in AsOf'[w]..epoch
    BY <1>2, <1>3, <2>4, ShownMore, ViewsFacts
  <2>7. \A d \in Handlers : DueAt(d)'
    <3>1. ASSUME NEW d \in Handlers PROVE due[d] \in Nat /\ best["payload"] \in Nat /\ best'["payload"] \in Nat
      BY <1>1, <1>2, <1>3, <2>6, ViewsFacts DEF HistoryTypes
    <3> QED
      BY <1>1, <1>2, <1>3, <2>1, <2>2, <2>3, <2>5, <2>6, <3>1, ViewsFacts DEF PromiseInv, DueAt
  <2>8. HistoryTypes' /\ NewestIsDue'
    BY <1>1, <1>2, <1>3, <2>3, <2>6, NewestStays DEF PromiseInv, HistoryTypes
  <2>9. Public!Show(c, "payload") /\ UNCHANGED due
    BY <1>1, <2>3, <2>4, <2>5, <2>6 DEF Public!Show
  <2> QED
    BY <2>7, <2>8, <2>9, ViewsFacts DEF PromiseInv, Public!Next
<1>6. CASE Finish(c)
  <2> DEFINE v == listed[c].at
  <2>1. /\ Goto(c, "idle") /\ pc[c] = "hook" /\ headers'.at = v
        /\ UNCHANGED <<listed, cached>>
    BY <1>6 DEF Finish, RebuildHook
  <2>2. /\ due' = [due EXCEPT ![c] = 0] /\ due'[c] = 0
        /\ pc'[c] = "idle" /\ \A d \in Handlers \ {c} : pc'[d] = pc[d] /\ due'[d] = due[d]
    BY <2>1, DebtsKept
  <2>3. AsOf' = [AsOf EXCEPT !["headers"] = v]
    BY <2>1, ViewsFacts DEF AsOf
  <2>4. v \in due[c]..epoch /\ due[c] <= best["payload"]
    BY <1>2, <2>1 DEF PromiseInv, DueAt
  <2>5. /\ best' = [best EXCEPT !["headers"] = IF v > @ THEN v ELSE @]
        /\ best'["headers"] >= v /\ \A w \in Views : best'[w] >= best[w]
        /\ \A w \in Views : best'[w] \in AsOf'[w]..epoch
    BY <1>2, <1>3, <2>3, ShownMore, ViewsFacts
  <2>6. \A w \in Views : best'[w] >= due[c] /\ best'[w] \in 0..epoch
    BY <1>1, <1>2, <1>3, <2>3, <2>4, <2>5, ViewsFacts
  <2>7. \A d \in Handlers : DueAt(d)'
    <3>1. ASSUME NEW d \in Handlers PROVE due[d] \in Nat /\ best["payload"] \in Nat /\ best'["payload"] \in Nat
      BY <1>1, <1>2, <1>3, <2>6, ViewsFacts DEF HistoryTypes
    <3> QED
      BY <1>1, <1>2, <1>3, <2>1, <2>2, <2>5, <3>1, ViewsFacts DEF PromiseInv, DueAt
  <2>8. HistoryTypes'
    BY <1>1, <1>2, <1>3, <2>2, <2>5 DEF HistoryTypes
  <2>9. NewestIsDue'
    <3>1. CASE due[c] = epoch
      BY <1>1, <1>2, <2>6, <3>1 DEF NewestIsDue
    <3>2. CASE due[c] # epoch
      BY <1>1, <1>2, <1>3, <2>2, <2>5, <2>6, <3>2 DEF PromiseInv, NewestIsDue
    <3> QED
      BY <3>1, <3>2
  <2>10. Public!Show(c, "headers")
    BY <1>1, <2>3, <2>4, <2>5 DEF Public!Show
  <2>11. Public!Answer(c)
    BY <2>2, <2>6, <2>10, ViewsFacts DEF Public!Answer, Public!Honoured
  <2> QED
    BY <2>7, <2>8, <2>9, <2>11 DEF PromiseInv, Public!Next
<1> QED
  BY <1>4, <1>5, <1>6 DEF Rebuild

\* The promise's invariant holds at first, and the server shows version 0.
LEMMA PromiseInitInv == PromiseInit => PromiseInv /\ Public!Init
<1> SUFFICES ASSUME PromiseInit PROVE PromiseInv /\ Public!Init
  OBVIOUS
<1>1. epoch = 0 /\ cached.at = 0 /\ headers.at = 0 /\ pc = [c \in Handlers |-> "idle"]
  BY DEF PromiseInit, Init, CacheInit
<1>2. best = [w \in Views |-> 0] /\ due = [c \in Handlers |-> 0]
  BY DEF PromiseInit
<1>3. AsOf = [w \in Views |-> 0]
  BY <1>1 DEF AsOf
<1>4. HistoryTypes /\ NewestIsDue
  BY <1>1, <1>2, <1>3 DEF HistoryTypes, NewestIsDue
<1>5. \A c \in Handlers : DueAt(c)
  BY <1>1, <1>2 DEF DueAt
<1> QED
  BY <1>1, <1>2, <1>3, <1>4, <1>5 DEF PromiseInv, Public!Init

\* A step of a channel handler keeps it and is one of ServedCatalog, or invisible.
LEMMA ChannelPromise ==
  ASSUME Served, CacheTrue, PromiseInv, Record, NEW c \in Handlers,
         Rebuild(c) \/ Change(c) \/ Quiet(c)
  PROVE  PromiseInv' /\ [Public!Next]_Public!vars
<1>1. CASE Rebuild(c)
  BY <1>1, RebuildPromise
<1>2. CASE Change(c)
  BY <1>2, WritesPromise DEF Change, Public!Next
<1>3. CASE Quiet(c)
  BY <1>3, QuietPromise DEF Public!Next
<1> QED
  BY <1>1, <1>2, <1>3

\* Nothing is lost when nothing happens.
LEMMA IdlePromise ==
  ASSUME PromiseInv, UNCHANGED <<db, pc, epoch, cacheVars, req, best, due>>
  PROVE  PromiseInv' /\ UNCHANGED Public!vars
<1>1. AsOf' = AsOf /\ \A c \in Handlers : TargetId(c)' = TargetId(c)
  BY DEF AsOf, cacheVars, TargetId
<1>2. HistoryTypes' /\ NewestIsDue'
  BY <1>1 DEF PromiseInv, HistoryTypes, NewestIsDue
<1>3. \A c \in Handlers : DueAt(c)'
  BY <1>1 DEF PromiseInv, DueAt, cacheVars
<1> QED
  BY <1>1, <1>2, <1>3 DEF PromiseInv, Public!vars

\* Every step of ManualChannels keeps it and is one of ServedCatalog, or invisible.
LEMMA PromiseStep ==
  ASSUME Inv, PromiseInv, [Next /\ Record]_promiseVars
  PROVE  PromiseInv' /\ [Public!Next]_Public!vars
<1>1. Served /\ CacheTrue
  BY InvServed DEF Inv
<1>2. CASE Next /\ Record
  BY <1>1, <1>2, NextShape, ChannelPromise
<1>3. CASE UNCHANGED promiseVars
  BY <1>3, IdlePromise DEF promiseVars, vars, handlerVars
<1> QED
  BY <1>2, <1>3

\* The histories add nothing to what the handlers do.
LEMMA PromiseInvHolds == PromiseSpec => [](Inv /\ PromiseInv)
<1>1. PromiseSpec => Spec
  <2>1. [Next /\ Record]_promiseVars => [Next]_vars
    BY DEF promiseVars
  <2> QED
    BY <2>1, PTL DEF PromiseSpec, PromiseInit, Spec
<1>2. PromiseSpec => []Inv
  BY <1>1, InvHolds, PTL
<1>3. PromiseInit => PromiseInv
  BY PromiseInitInv
<1>4. Inv /\ PromiseInv /\ [Next /\ Record]_promiseVars => PromiseInv'
  BY PromiseStep
<1> QED
  BY <1>2, <1>3, <1>4, PTL DEF PromiseSpec

\* Every behaviour of the handlers of main.go is one of ServedCatalog, also where
\* rebuilds overtake each other: nobody who changed the catalog puts on show what
\* is older than the change, and nobody is answered before the payload and the
\* header overrides have both shown it, or somebody with a later change is still
\* to be answered.
THEOREM CatalogPromiseKept == PromiseSpec => KeepsCatalogPromise
<1>1. PromiseInit => Public!Init
  BY PromiseInitInv
<1>2. Inv /\ PromiseInv /\ [Next /\ Record]_promiseVars => [Public!Next]_Public!vars
  BY PromiseStep
<1> QED
  BY <1>1, <1>2, PromiseInvHolds, PTL DEF PromiseSpec, KeepsCatalogPromise, Public!Spec

\* Whenever no change is unanswered, the payload and the header overrides have
\* each shown the catalog as it is: a client that asked at the right moment saw it,
\* and if it is not what is served now, an overtaken rebuild has put it back.
THEOREM EveryViewSettles == PromiseSpec => []Public!SettledAtRest
<1>1. Inv /\ PromiseInv => Public!SettledAtRest
  <2> SUFFICES ASSUME Inv, PromiseInv, \A c \in Handlers : due[c] = 0, NEW w \in Views
               PROVE  best[w] = epoch
    BY DEF Public!SettledAtRest
  <2>1. epoch \in Nat /\ AsOf[w] \in Nat /\ best[w] \in AsOf[w]..epoch
    BY CacheBounds, ViewsFacts DEF Inv, PromiseInv, HistoryTypes
  <2> QED
    BY <2>1 DEF PromiseInv, NewestIsDue
<1> QED
  BY <1>1, PromiseInvHolds, PTL

-----------------------------------------------------------------------------
(* Saved playlists, the startup sweep and restarts.                        *)

Job == [id : PlaylistIds \union {NoPlaylist}, setting : Settings \union {NoPlaylist},
        panel : Panels \union {<<>>}, todo : SUBSET [id : PlaylistIds, setting : Settings],
        refreshed : BOOLEAN]

\* What a handler knows of its playlist at each of its steps.  An id that is
\* about to be stamped is one whose channels have been imported.
JobOK(c) ==
  /\ pc[c] \in {"getplaylist", "change", "patched"} => req[c] \in PlaylistRequests
  /\ pc[c] \in {"fetch", "save", "import"} => job[c].setting \in Settings
  /\ pc[c] \in {"save", "import"} => job[c].panel \in Panels
  /\ pc[c] \in {"import", "stamp"} => job[c].id \in PlaylistIds
  /\ pc[c] = "stamp" => job[c].id \in imported

JobsOK == job \in [Handlers -> Job] /\ \A c \in Handlers : JobOK(c)

\* The table of playlists and the clock.
PlaylistsOK ==
  /\ DOMAIN playlists \subseteq minted /\ minted \subseteq PlaylistIds
  /\ \A p \in DOMAIN playlists : playlists[p] \in Playlist
  /\ StampedWasImported
  /\ day \in FirstDay..MaxDay

\* The handlers that owe a rebuild: besides those of the channel handlers, one
\* that has imported, and the sweep from its first import to its end.
OwesAfterImport(c) ==
  \/ Owes(c)
  \/ pc[c] = "stamp"
  \/ c = Sweeper /\ job[c].refreshed /\ pc[c] \in {"sweep", "fetch", "save", "import"}

ImportersOwing == {c \in Handlers : OwesAfterImport(c)}

XtreamInv ==
  /\ Served
  /\ \A c \in Handlers : req[c] \in Requests \union PlaylistRequests \union {Idle}
  /\ JobsOK
  /\ PlaylistsOK
  /\ CacheTrue
  /\ PublishedBy(ImportersOwing)

-----------------------------------------------------------------------------
(* What an import and a deletion do to the catalog. *)

\* An import keeps a catalog and every favourite flag; the rows it writes belong
\* to its playlist, the others stay as they were.
LEMMA UpsertXtreamFacts ==
  ASSUME NEW t, IsCatalog(t), NEW p \in PlaylistIds, NEW setting \in Settings,
         NEW panel \in Panels
  PROVE  LET s == UpsertXtream(t, p, setting, panel)
         IN  /\ IsCatalog(s) /\ SameFavourites(t, s)
             /\ \A i \in DOMAIN s : \/ s[i].playlist = p
                                    \/ i \in DOMAIN t /\ s[i].playlist = t[i].playlist
<1> DEFINE named == {x \in DOMAIN panel : panel[x] # Blank}
           ids == {XtreamId(p, x) : x \in named}
           new(x) == [NewManualRow(panel[x], {StreamURL(setting, x)}, NoHint, NoRecipe, FALSE)
                        EXCEPT !.playlist = p]
           old(i, x) == [t[i] EXCEPT !.name = panel[x], !.servers = {StreamURL(setting, x)},
                                     !.playlist = p]
           s == UpsertXtream(t, p, setting, panel)
<1>1. \A x \in named : x \in StreamIds /\ panel[x] \in Names
  BY PanelsNameStreams DEF NameOrBlank
<1>2. ids \subseteq Ids
  BY <1>1 DEF Ids
<1>3. ASSUME NEW i \in ids PROVE i[3] \in named
  BY DEF XtreamId
<1>4. ASSUME NEW x \in named PROVE StreamURL(setting, x) \in Links
  BY <1>1 DEF Links
<1>5. ASSUME NEW x \in named PROVE new(x) \in Row /\ new(x).playlist = p
  <2>1. NewManualRow(panel[x], {StreamURL(setting, x)}, NoHint, NoRecipe, FALSE) \in Row
    BY <1>1, <1>4, NewManualRowIsRow
  <2> HIDE DEF named
  <2> QED
    BY <2>1 DEF Row
<1>6. ASSUME NEW i \in DOMAIN t, NEW x \in named
      PROVE  old(i, x) \in Row /\ old(i, x).fav = t[i].fav /\ old(i, x).playlist = p
  <2>1. t[i] \in Row /\ panel[x] \in Names /\ {StreamURL(setting, x)} \in SUBSET Links
    BY <1>1, <1>4 DEF IsCatalog
  <2> HIDE DEF named
  <2> QED
    BY <2>1 DEF Row
<1>7. s = [i \in DOMAIN t \union ids |->
             IF i \notin ids THEN t[i] ELSE IF i \in DOMAIN t THEN old(i, i[3]) ELSE new(i[3])]
  BY DEF UpsertXtream
<1> HIDE DEF named, ids, new, old, s
<1>8. IsCatalog(s)
  BY <1>2, <1>3, <1>5, <1>6, <1>7 DEF IsCatalog
<1>9. SameFavourites(t, s)
  BY <1>3, <1>6, <1>7 DEF SameFavourites
<1>10. \A i \in DOMAIN s : \/ s[i].playlist = p
                           \/ i \in DOMAIN t /\ s[i].playlist = t[i].playlist
  BY <1>3, <1>5, <1>6, <1>7
<1> QED
  BY <1>8, <1>9, <1>10 DEF s

\* A deletion keeps a catalog, the favourite flags and every row of another
\* playlist; it leaves no row of its own.
LEMMA DropPlaylistFacts ==
  ASSUME NEW t, IsCatalog(t), NEW p
  PROVE  LET s == DropPlaylist(t, p)
         IN  /\ IsCatalog(s) /\ SameFavourites(t, s)
             /\ \A i \in DOMAIN s : i \in DOMAIN t /\ s[i] = t[i] /\ s[i].playlist # p
<1> DEFINE ids == {i \in DOMAIN t : t[i].playlist = p}
<1>1. DropPlaylist(t, p) = Drop(t, ids)
  BY DEF DropPlaylist
<1>2. \A i \in DOMAIN t \ ids : t[i].playlist # p
  OBVIOUS
<1> HIDE DEF ids
<1>3. /\ IsCatalog(Drop(t, ids)) /\ SameFavourites(t, Drop(t, ids))
      /\ DOMAIN Drop(t, ids) = DOMAIN t \ ids
      /\ \A i \in DOMAIN t \ ids : Drop(t, ids)[i] = t[i]
  BY DropIsCatalog
<1> QED
  BY <1>1, <1>2, <1>3

-----------------------------------------------------------------------------
(* The shape of a step of a playlist handler or of the sweep. *)

PlaylistSteps ==
  {"idle", "getplaylist", "fetch", "save", "import", "stamp", "change", "patched",
   "start", "sweep"}

\* Rows left without their playlist by a step of c.
OrphansOf(c) ==
  \/ Orphans(db', playlists') \subseteq Orphans(db, playlists)
  \/ pc[c] = "import" /\ pc'[c] = "stamp" /\ job[c].id \notin DOMAIN playlists

PlaylistShape(c) ==
  /\ pc[c] \in PlaylistSteps
  /\ \E step \in PlaylistSteps \union {"list"} : Goto(c, step)
  /\ HandlerTypes' /\ OthersKeep(c)
  /\ req'[c] \in PlaylistRequests \union {req[c]}
  /\ job' \in [Handlers -> Job] /\ \A d \in Handlers \ {c} : job'[d] = job[d]
  /\ JobOK(c)' /\ imported \subseteq imported'
  /\ PlaylistsOK'
  /\ UNCHANGED cacheVars
  /\ \/ UNCHANGED <<db, epoch>> /\ (OwesAfterImport(c) => OwesAfterImport(c)')
     \/ /\ epoch' = epoch + 1 /\ IsCatalog(db') /\ SameFavourites(db, db')
        /\ OwesAfterImport(c)' /\ pc'[c] # pc[c]
  /\ OrphansOf(c)

\* A step that only moves its handler on has it if the handler knows what its
\* next step needs, and the table of playlists stays in order.
LEMMA PlaylistProceed ==
  ASSUME XtreamInv, NEW c \in Handlers, NEW step \in PlaylistSteps \union {"list"},
         pc[c] \in PlaylistSteps, Proceed(c, step),
         job' \in [Handlers -> Job], \A d \in Handlers \ {c} : job'[d] = job[d],
         UNCHANGED imported, JobOK(c)', PlaylistsOK',
         OwesAfterImport(c) => OwesAfterImport(c)',
         DOMAIN playlists \subseteq DOMAIN playlists'
  PROVE  PlaylistShape(c)
<1>1. UNCHANGED <<db, epoch, cacheVars, req, read, answer, left>> /\ Goto(c, step)
  BY DEF Proceed, handlerVars
<1>2. HandlerTypes' /\ OthersKeep(c) /\ req'[c] = req[c]
  BY <1>1 DEF XtreamInv, Served, HandlerTypes, OthersKeep
<1>3. OrphansOf(c)
  BY <1>1 DEF OrphansOf, Orphans
<1> QED
  BY <1>1, <1>2, <1>3 DEF PlaylistShape

\* So does an early return of a handler that owes no rebuild.
LEMMA PlaylistFail ==
  ASSUME XtreamInv, NEW c \in Handlers, NEW code \in Answers, pc[c] \in PlaylistSteps,
         ~OwesAfterImport(c), Fail(c, code)
  PROVE  PlaylistShape(c)
<1>1. /\ UNCHANGED <<db, epoch, cacheVars, req, read, left>> /\ Goto(c, "idle")
      /\ answer' = [answer EXCEPT ![c] = code]
      /\ UNCHANGED <<playlists, minted, job, day, imported>>
  BY DEF Fail, Return, Answer, playlistVars
<1>2. HandlerTypes' /\ OthersKeep(c) /\ req'[c] = req[c]
  BY <1>1 DEF XtreamInv, Served, HandlerTypes, OthersKeep
<1>3. JobOK(c)'
  BY <1>1 DEF JobOK, Goto, XtreamInv, Served
<1>4. PlaylistsOK' /\ OrphansOf(c)
  BY <1>1 DEF XtreamInv, PlaylistsOK, StampedWasImported, OrphansOf, Orphans
<1>5. job' \in [Handlers -> Job]
  BY <1>1 DEF XtreamInv, JobsOK
<1> QED
  BY <1>1, <1>2, <1>3, <1>4, <1>5 DEF PlaylistShape, PlaylistSteps

-----------------------------------------------------------------------------
(* Every step of a playlist handler and of the sweep has the shape. *)

\* What the fields of a request range over.
LEMMA PlaylistRequestFields ==
  ASSUME NEW r \in PlaylistRequests
  PROVE  /\ r.op \in {"save", "refresh", "remove", "patch"}
         /\ r.op = "save" => r.setting \in Settings
         /\ r.op # "save" => r.id \in PlaylistIds
         /\ r.op = "patch" /\ "freq" \in DOMAIN r => r.freq \in Freqs
         /\ r.op = "patch" /\ "freq" \notin DOMAIN r => r.setting \in Settings
  BY DEF PlaylistRequests

\* Nobody starts from other than an empty job.
LEMMA NoJobIsJob == NoJob \in Job
  BY DEF NoJob, Job

\* The arrival of a request.
LEMMA PlaylistArriveShape ==
  ASSUME XtreamInv, NEW c \in Handlers, NEW r \in PlaylistRequests, PlaylistArrive(c, r)
  PROVE  PlaylistShape(c)
<1> DEFINE step == IF r.op = "save" THEN "fetch"
                   ELSE IF r.op = "refresh" THEN "getplaylist" ELSE "change"
           new == IF r.op = "save" THEN [NoJob EXCEPT !.setting = r.setting] ELSE NoJob
<1>1. /\ pc[c] = "idle" /\ Goto(c, step) /\ step \in PlaylistSteps
      /\ req' = [req EXCEPT ![c] = r] /\ answer' = [answer EXCEPT ![c] = "none"]
      /\ left' = left - 1 /\ left > 0
      /\ job' = [job EXCEPT ![c] = new]
      /\ UNCHANGED <<db, epoch, cacheVars, read, playlists, minted, day, imported>>
  BY DEF PlaylistArrive, Answer, PlaylistSteps
<1>2. new \in Job
  BY NoJobIsJob, PlaylistRequestFields DEF Job
<1>3. r.op = "save" => new.setting \in Settings
  BY PlaylistRequestFields DEF NoJob
<1> HIDE DEF new
<1>4. pc'[c] = step /\ req'[c] = r /\ job'[c] = new
  BY <1>1 DEF XtreamInv, Served, HandlerTypes, JobsOK, Goto
<1>5. JobOK(c)'
  BY <1>3, <1>4 DEF JobOK
<1>6. HandlerTypes' /\ OthersKeep(c)
  <2>1. HandlerTypes
    BY DEF XtreamInv, Served
  <2>2. left' \in Nat /\ answer' \in [Handlers -> Answers]
    BY <1>1, <2>1 DEF HandlerTypes, Answers
  <2>3. req' = [d \in Handlers |-> req'[d]]
    BY <1>1, <2>1 DEF HandlerTypes
  <2>4. read' \in [Handlers -> [urls : SUBSET Links, at : Nat]]
    BY <1>1, <2>1 DEF HandlerTypes
  <2>5. OthersKeep(c)
    BY <1>1, <2>1 DEF HandlerTypes, OthersKeep
  <2> QED
    BY <2>2, <2>3, <2>4, <2>5 DEF HandlerTypes
<1>7. job' \in [Handlers -> Job] /\ \A d \in Handlers \ {c} : job'[d] = job[d]
  BY <1>1, <1>2 DEF XtreamInv, JobsOK
<1>8. PlaylistsOK' /\ OrphansOf(c)
  BY <1>1 DEF XtreamInv, PlaylistsOK, StampedWasImported, OrphansOf, Orphans
<1>9. ~OwesAfterImport(c)
  BY <1>1 DEF OwesAfterImport, Owes
<1> HIDE DEF step
<1> QED
  BY <1>1, <1>4, <1>5, <1>6, <1>7, <1>8, <1>9 DEF PlaylistShape, PlaylistSteps

\* The read of a playlist and the wait for its panel.
LEMMA GetPlaylistShape ==
  ASSUME XtreamInv, NEW c \in Handlers, GetPlaylist(c)
  PROVE  PlaylistShape(c)
<1> DEFINE p == req[c].id
<1>1. pc[c] = "getplaylist" /\ ~OwesAfterImport(c)
  BY DEF GetPlaylist, OwesAfterImport, Owes
<1>2. CASE p \notin DOMAIN playlists
  BY <1>1, <1>2, PlaylistFail DEF GetPlaylist, PlaylistSteps, Answers
<1>3. CASE p \in DOMAIN playlists
  <2>1. /\ job' = [job EXCEPT ![c].id = p, ![c].setting = playlists[p].setting]
        /\ Proceed(c, "fetch") /\ UNCHANGED <<playlists, minted, day, imported>>
    BY <1>3 DEF GetPlaylist
  <2>2. p \in PlaylistIds /\ playlists[p].setting \in Settings
    BY <1>3 DEF XtreamInv, PlaylistsOK, Playlist
  <2>3. job' \in [Handlers -> Job] /\ \A d \in Handlers \ {c} : job'[d] = job[d]
    BY <2>1, <2>2, ZenonT(30) DEF XtreamInv, JobsOK, Job
  <2>4. JobOK(c)'
    <3>1. pc'[c] = "fetch" /\ job'[c].setting \in Settings
      BY <2>1, <2>2 DEF XtreamInv, Served, JobsOK, Job, Proceed, Goto
    <3> QED
      BY <3>1 DEF JobOK
  <2>5. PlaylistsOK'
    BY <2>1 DEF XtreamInv, PlaylistsOK, StampedWasImported
  <2> QED
    BY <1>1, <2>1, <2>3, <2>4, <2>5, PlaylistProceed DEF PlaylistSteps
<1> QED
  BY <1>2, <1>3

LEMMA FetchShape ==
  ASSUME XtreamInv, NEW c \in Handlers, Fetch(c)
  PROVE  PlaylistShape(c)
<1>1. pc[c] = "fetch" /\ job[c] \in Job /\ job[c].setting \in Settings
  BY DEF Fetch, XtreamInv, JobsOK, JobOK
<1>2. CASE c # Sweeper /\ Fail(c, "502")
  BY <1>1, <1>2, PlaylistFail DEF PlaylistSteps, Answers, OwesAfterImport, Owes
<1>3. CASE c = Sweeper /\ Proceed(c, "sweep") /\ UNCHANGED playlistVars
  <2>1. job' \in [Handlers -> Job] /\ PlaylistsOK' /\ pc'[c] = "sweep"
        /\ UNCHANGED <<job, imported, playlists>>
    BY <1>3 DEF XtreamInv, Served, JobsOK, PlaylistsOK, StampedWasImported, playlistVars,
                Proceed, Goto
  <2>2. JobOK(c)' /\ (OwesAfterImport(c) => OwesAfterImport(c)')
    BY <1>1, <1>3, <2>1 DEF JobOK, OwesAfterImport, Owes
  <2> QED
    BY <1>1, <1>3, <2>1, <2>2, PlaylistProceed DEF PlaylistSteps
<1>4. ASSUME NEW panel \in Panels, job' = [job EXCEPT ![c].panel = panel],
             Proceed(c, IF job[c].id = NoPlaylist THEN "save" ELSE "import"),
             UNCHANGED <<playlists, minted, day, restarts, imported>>
      PROVE  PlaylistShape(c)
  <2> DEFINE step == IF job[c].id = NoPlaylist THEN "save" ELSE "import"
  <2>1. job' \in [Handlers -> Job] /\ \A d \in Handlers \ {c} : job'[d] = job[d]
    BY <1>4 DEF XtreamInv, JobsOK, Job
  <2>2. /\ job'[c].id = job[c].id /\ job'[c].setting = job[c].setting
        /\ job'[c].panel = panel /\ job'[c].refreshed = job[c].refreshed
    BY <1>4 DEF XtreamInv, JobsOK, Job
  <2>3. pc'[c] = step
    BY <1>4 DEF XtreamInv, Served, Proceed, Goto
  <2>4. JobOK(c)' /\ (OwesAfterImport(c) => OwesAfterImport(c)')
    BY <1>1, <2>2, <2>3 DEF JobOK, Job, OwesAfterImport, Owes
  <2>5. PlaylistsOK'
    BY <1>4 DEF XtreamInv, PlaylistsOK, StampedWasImported
  <2>6. step \in PlaylistSteps
    BY DEF PlaylistSteps
  <2> QED
    BY <1>1, <1>4, <2>1, <2>4, <2>5, <2>6, PlaylistProceed DEF PlaylistSteps
<1> QED
  BY <1>2, <1>3, <1>4 DEF Fetch

\* The INSERT of a new playlist under an id never drawn before.
LEMMA SavePlaylistShape ==
  ASSUME XtreamInv, NEW c \in Handlers, SavePlaylist(c)
  PROVE  PlaylistShape(c)
<1> DEFINE row == [setting |-> job[c].setting, freq |-> "manual", last |-> 0]
<1>1. PICK p \in PlaylistIds \ minted :
        /\ minted' = minted \union {p}
        /\ playlists' = [q \in DOMAIN playlists \union {p} |-> IF q = p THEN row ELSE playlists[q]]
        /\ job' = [job EXCEPT ![c].id = p]
  BY DEF SavePlaylist
<1>2. pc[c] = "save" /\ Proceed(c, "import") /\ UNCHANGED <<day, imported>>
  BY DEF SavePlaylist
<1>3. job[c] \in Job /\ job[c].setting \in Settings /\ job[c].panel \in Panels
  BY <1>2 DEF XtreamInv, JobsOK, JobOK
<1>4. job' \in [Handlers -> Job] /\ \A d \in Handlers \ {c} : job'[d] = job[d]
  BY <1>1 DEF XtreamInv, JobsOK, Job
<1>5. /\ job'[c].id = p /\ job'[c].setting = job[c].setting /\ job'[c].panel = job[c].panel
      /\ job'[c].refreshed = job[c].refreshed
  BY <1>1 DEF XtreamInv, JobsOK, Job
<1>6. pc'[c] = "import"
  BY <1>2 DEF XtreamInv, Served, Proceed, Goto
<1>7. JobOK(c)' /\ (OwesAfterImport(c) => OwesAfterImport(c)')
  BY <1>2, <1>3, <1>5, <1>6 DEF JobOK, OwesAfterImport, Owes
<1>8. row \in Playlist /\ row.last = 0
  BY <1>3, FreqsAreKnown DEF Playlist
<1> HIDE DEF row
<1>9. PlaylistsOK'
  BY <1>1, <1>2, <1>8 DEF XtreamInv, PlaylistsOK, StampedWasImported
<1>10. DOMAIN playlists \subseteq DOMAIN playlists'
  BY <1>1
<1> QED
  BY <1>2, <1>4, <1>7, <1>9, <1>10, PlaylistProceed DEF PlaylistSteps

\* The import: its rows belong to its playlist, and are orphans only if that
\* playlist is gone.
LEMMA ImportShape ==
  ASSUME XtreamInv, NEW c \in Handlers, Import(c)
  PROVE  PlaylistShape(c)
<1> DEFINE t == UpsertXtream(db, job[c].id, job[c].setting, job[c].panel)
<1>1. /\ pc[c] = "import" /\ imported' = imported \union {job[c].id}
      /\ UNCHANGED <<playlists, minted, job, day, cacheVars, req, answer, left>>
      /\ Write(c, t, "stamp")
  BY DEF Import, Write
<1>2. job[c].id \in PlaylistIds /\ job[c].setting \in Settings /\ job[c].panel \in Panels
  BY <1>1 DEF XtreamInv, JobsOK, JobOK
<1>3. /\ IsCatalog(t) /\ SameFavourites(db, t)
      /\ \A i \in DOMAIN t : \/ t[i].playlist = job[c].id
                             \/ i \in DOMAIN db /\ t[i].playlist = db[i].playlist
  BY <1>2, UpsertXtreamFacts DEF XtreamInv, Served
<1> HIDE DEF t
<1>4. db' = t /\ epoch' = epoch + 1 /\ Goto(c, "stamp") /\ pc'[c] = "stamp"
      /\ read' = [read EXCEPT ![c].at = epoch + 1]
  BY <1>1 DEF Write, Commit, Goto, XtreamInv, Served
<1>5. HandlerTypes' /\ OthersKeep(c)
  BY <1>1, <1>4 DEF XtreamInv, Served, HandlerTypes, OthersKeep
<1>6. JobOK(c)' /\ OwesAfterImport(c)' /\ job' \in [Handlers -> Job]
  BY <1>1, <1>2, <1>4 DEF JobOK, OwesAfterImport, XtreamInv, JobsOK
<1>7. PlaylistsOK'
  BY <1>1 DEF XtreamInv, PlaylistsOK, StampedWasImported
<1>8. OrphansOf(c)
  BY <1>1, <1>3, <1>4 DEF OrphansOf, Orphans
<1> QED
  BY <1>1, <1>3, <1>4, <1>5, <1>6, <1>7, <1>8 DEF PlaylistShape, PlaylistSteps

\* The stamp: the playlist it dates has been imported.
LEMMA StampShape ==
  ASSUME XtreamInv, NEW c \in Handlers, Stamp(c)
  PROVE  PlaylistShape(c)
<1> DEFINE step == IF c = Sweeper THEN "sweep" ELSE "list"
<1>1. /\ pc[c] = "stamp" /\ Proceed(c, step)
      /\ playlists' = [p \in DOMAIN playlists |->
                         IF p = job[c].id THEN [playlists[p] EXCEPT !.last = day] ELSE playlists[p]]
      /\ job' = [job EXCEPT ![c].refreshed = TRUE]
      /\ UNCHANGED <<minted, day, imported>>
  BY DEF Stamp
<1>2. job[c].id \in imported
  BY <1>1 DEF XtreamInv, JobsOK, JobOK
<1>3. job' \in [Handlers -> Job] /\ \A d \in Handlers \ {c} : job'[d] = job[d]
  BY <1>1 DEF XtreamInv, JobsOK, Job
<1>4. job'[c].refreshed = TRUE
  BY <1>1 DEF XtreamInv, JobsOK, Job
<1>5. pc'[c] = step
  BY <1>1 DEF XtreamInv, Served, Proceed, Goto
<1>6. JobOK(c)' /\ OwesAfterImport(c)'
  BY <1>4, <1>5 DEF JobOK, OwesAfterImport, Owes
<1>7. day \in Nat
  BY DaysAreNat DEF XtreamInv, PlaylistsOK
<1>8. \A p \in DOMAIN playlists : playlists'[p] \in Playlist
  BY <1>1, <1>7 DEF XtreamInv, PlaylistsOK, Playlist
<1>9. \A p \in DOMAIN playlists : playlists'[p].last > 0 => p \in imported
  BY <1>1, <1>2 DEF XtreamInv, PlaylistsOK, StampedWasImported, Playlist
<1>10. PlaylistsOK' /\ DOMAIN playlists' = DOMAIN playlists
  BY <1>1, <1>8, <1>9 DEF XtreamInv, PlaylistsOK, StampedWasImported
<1>11. step \in PlaylistSteps \union {"list"}
  BY DEF PlaylistSteps
<1> QED
  BY <1>1, <1>3, <1>6, <1>10, <1>11, PlaylistProceed DEF PlaylistSteps

\* An edit of a playlist, and the read that follows it.
LEMMA PatchShape ==
  ASSUME XtreamInv, NEW c \in Handlers, Patch(c) \/ PatchRead(c)
  PROVE  PlaylistShape(c)
<1> DEFINE p == req[c].id
<1>1. pc[c] \in {"change", "patched"} /\ ~OwesAfterImport(c)
  BY DEF Patch, PatchRead, At, OwesAfterImport, Owes
<1>2. CASE PatchRead(c)
  <2>1. (IF p \in DOMAIN playlists THEN "200" ELSE "404") \in Answers
    BY DEF Answers
  <2> QED
    BY <1>1, <1>2, <2>1, PlaylistFail DEF PatchRead, PlaylistSteps
<1>3. CASE Patch(c) /\ p \notin DOMAIN playlists
  BY <1>1, <1>3, PlaylistFail DEF Patch, PlaylistSteps, Answers
<1>4. CASE Patch(c) /\ p \in DOMAIN playlists
  <2> DEFINE row == IF "freq" \in DOMAIN req[c] THEN [playlists[p] EXCEPT !.freq = req[c].freq]
                    ELSE [playlists[p] EXCEPT !.setting = req[c].setting]
  <2>1. /\ pc[c] = "change" /\ req[c].op = "patch" /\ Proceed(c, "patched")
        /\ playlists' = [playlists EXCEPT ![p] = row]
        /\ UNCHANGED <<minted, job, day, imported>>
    BY <1>4 DEF Patch, At
  <2>2. req[c] \in PlaylistRequests
    BY <2>1 DEF XtreamInv, JobsOK, JobOK
  <2>3. playlists[p] \in Playlist
    BY <1>4 DEF XtreamInv, PlaylistsOK
  <2>4. row \in Playlist /\ row.last = playlists[p].last
    BY <2>1, <2>2, <2>3, PlaylistRequestFields DEF Playlist
  <2> HIDE DEF row
  <2>5. PlaylistsOK' /\ DOMAIN playlists' = DOMAIN playlists
    BY <2>1, <2>4 DEF XtreamInv, PlaylistsOK, StampedWasImported
  <2>6. JobOK(c)'
    <3>1. pc'[c] = "patched" /\ req' = req
      BY <2>1 DEF XtreamInv, Served, Proceed, Goto, handlerVars
    <3> QED
      BY <2>2, <3>1 DEF JobOK
  <2>7. job' \in [Handlers -> Job]
    BY <2>1 DEF XtreamInv, JobsOK
  <2> QED
    BY <1>1, <2>1, <2>5, <2>6, <2>7, PlaylistProceed DEF PlaylistSteps
<1> QED
  BY <1>2, <1>3, <1>4

\* The deletion takes the playlist's channels with it.
LEMMA RemovePlaylistShape ==
  ASSUME XtreamInv, NEW c \in Handlers, RemovePlaylist(c)
  PROVE  PlaylistShape(c)
<1> DEFINE p == req[c].id
           t == DropPlaylist(db, p)
<1>1. pc[c] = "change" /\ ~OwesAfterImport(c)
  BY DEF RemovePlaylist, At, OwesAfterImport, Owes
<1>2. CASE p \notin DOMAIN playlists
  BY <1>1, <1>2, PlaylistFail DEF RemovePlaylist, PlaylistSteps, Answers
<1>3. CASE p \in DOMAIN playlists
  <2>1. /\ Write(c, t, "list")
        /\ playlists' = [q \in DOMAIN playlists \ {p} |-> playlists[q]]
        /\ UNCHANGED <<minted, job, day, imported, cacheVars, req, answer, left>>
    BY <1>3 DEF RemovePlaylist, Write
  <2>2. /\ IsCatalog(t) /\ SameFavourites(db, t)
        /\ \A i \in DOMAIN t : i \in DOMAIN db /\ t[i] = db[i] /\ t[i].playlist # p
    BY DropPlaylistFacts DEF XtreamInv, Served
  <2> HIDE DEF t
  <2>3. db' = t /\ epoch' = epoch + 1 /\ Goto(c, "list") /\ pc'[c] = "list"
        /\ read' = [read EXCEPT ![c].at = epoch + 1]
    BY <2>1 DEF Write, Commit, Goto, XtreamInv, Served
  <2>4. HandlerTypes' /\ OthersKeep(c)
    BY <2>1, <2>3 DEF XtreamInv, Served, HandlerTypes, OthersKeep
  <2>5. JobOK(c)' /\ OwesAfterImport(c)' /\ job' \in [Handlers -> Job]
    BY <2>1, <2>3 DEF JobOK, OwesAfterImport, Owes, XtreamInv, JobsOK
  <2>6. PlaylistsOK'
    BY <2>1 DEF XtreamInv, PlaylistsOK, StampedWasImported
  <2>7. OrphansOf(c)
    BY <2>1, <2>2, <2>3 DEF OrphansOf, Orphans
  <2> QED
    BY <1>1, <2>1, <2>2, <2>3, <2>4, <2>5, <2>6, <2>7 DEF PlaylistShape, PlaylistSteps
<1> QED
  BY <1>2, <1>3

\* The sweep reads the playlists that are due, takes one after the other and
\* ends with the rebuild it owes.
LEMMA SweepShape ==
  ASSUME XtreamInv, SweepStart \/ SweepNext
  PROVE  PlaylistShape(Sweeper)
<1> DEFINE c == Sweeper
<1>1. c \in Handlers /\ job[c] \in Job
  BY SweeperIsHandler DEF XtreamInv, JobsOK
<1>2. CASE SweepStart
  <2> DEFINE ready == {[id |-> p, setting |-> playlists[p].setting] :
                       p \in {q \in DOMAIN playlists : Due(q)}}
             new == [NoJob EXCEPT !.todo = ready]
  <2>1. /\ pc[c] = "start" /\ job' = [job EXCEPT ![c] = new] /\ Proceed(c, "sweep")
        /\ UNCHANGED <<playlists, minted, day, imported>>
    BY <1>2 DEF SweepStart
  <2>2. ready \subseteq [id : PlaylistIds, setting : Settings]
    BY DEF XtreamInv, PlaylistsOK, Playlist
  <2>3. new \in Job
    BY <2>2, NoJobIsJob DEF Job
  <2> HIDE DEF new
  <2>4. job' \in [Handlers -> Job] /\ \A d \in Handlers \ {c} : job'[d] = job[d]
    BY <2>1, <2>3 DEF XtreamInv, JobsOK
  <2>5. pc'[c] = "sweep"
    BY <1>1, <2>1 DEF XtreamInv, Served, Proceed, Goto
  <2>6. JobOK(c)' /\ ~OwesAfterImport(c)
    BY <2>1, <2>5 DEF JobOK, OwesAfterImport, Owes
  <2>7. PlaylistsOK'
    BY <2>1 DEF XtreamInv, PlaylistsOK, StampedWasImported
  <2> QED
    BY <1>1, <2>1, <2>4, <2>6, <2>7, PlaylistProceed DEF PlaylistSteps
<1>3. ASSUME SweepNext, NEW p \in job[c].todo,
             job' = [job EXCEPT ![c].id = p.id, ![c].setting = p.setting, ![c].todo = @ \ {p}],
             Proceed(c, "fetch")
      PROVE  PlaylistShape(c)
  <2>1. pc[c] = "sweep" /\ UNCHANGED <<playlists, minted, day, imported>>
    BY <1>3 DEF SweepNext
  <2>2. p.id \in PlaylistIds /\ p.setting \in Settings
    BY <1>1 DEF Job
  <2>3. job' \in [Handlers -> Job] /\ \A d \in Handlers \ {c} : job'[d] = job[d]
    BY <1>1, <1>3, <2>2 DEF XtreamInv, JobsOK, Job
  <2>4. job'[c].setting = p.setting /\ job'[c].refreshed = job[c].refreshed
    BY <1>1, <1>3 DEF XtreamInv, JobsOK, Job
  <2>5. pc'[c] = "fetch"
    BY <1>1, <1>3 DEF XtreamInv, Served, Proceed, Goto
  <2>6. JobOK(c)' /\ (OwesAfterImport(c) => OwesAfterImport(c)')
    BY <2>1, <2>2, <2>4, <2>5 DEF JobOK, OwesAfterImport, Owes
  <2>7. PlaylistsOK'
    BY <2>1 DEF XtreamInv, PlaylistsOK, StampedWasImported
  <2> QED
    BY <1>1, <1>3, <2>1, <2>3, <2>6, <2>7, PlaylistProceed DEF PlaylistSteps
<1>4. ASSUME SweepNext, Proceed(c, IF job[c].refreshed THEN "list" ELSE "idle"), UNCHANGED job
      PROVE  PlaylistShape(c)
  <2> DEFINE step == IF job[c].refreshed THEN "list" ELSE "idle"
  <2>1. pc[c] = "sweep" /\ UNCHANGED <<playlists, minted, day, imported>>
    BY <1>4 DEF SweepNext
  <2>2. pc'[c] = step
    BY <1>1, <1>4 DEF XtreamInv, Served, Proceed, Goto
  <2>3. JobOK(c)' /\ (OwesAfterImport(c) => OwesAfterImport(c)')
    BY <2>1, <2>2 DEF JobOK, OwesAfterImport, Owes
  <2>4. PlaylistsOK' /\ job' \in [Handlers -> Job]
    BY <1>4, <2>1 DEF XtreamInv, JobsOK, PlaylistsOK, StampedWasImported
  <2>5. step \in PlaylistSteps \union {"list"}
    BY DEF PlaylistSteps
  <2> QED
    BY <1>1, <1>4, <2>1, <2>3, <2>4, <2>5, PlaylistProceed DEF PlaylistSteps
<1> QED
  BY <1>2, <1>3, <1>4 DEF SweepNext

-----------------------------------------------------------------------------
(* The inductive invariant. *)

\* Every step is one of the shapes, a day that passes or a restart.
LEMMA XtreamShape ==
  ASSUME XtreamInv, XtreamNext
  PROVE  \/ /\ UNCHANGED playlistVars
            /\ \E c \in Handlers : Rebuild(c) \/ Change(c) \/ Quiet(c)
         \/ \E c \in Handlers : PlaylistShape(c)
         \/ Tick
         \/ Restart
<1>1. CASE Next /\ UNCHANGED playlistVars
  BY <1>1, NextShape DEF XtreamInv
<1>2. ASSUME NEW c \in Handlers, NEW r \in PlaylistRequests, PlaylistArrive(c, r)
      PROVE  PlaylistShape(c)
  BY <1>2, PlaylistArriveShape
<1>3. ASSUME NEW c \in Handlers, PlaylistStep(c) PROVE PlaylistShape(c)
  BY <1>3, GetPlaylistShape, FetchShape, SavePlaylistShape, ImportShape, StampShape,
     PatchShape, RemovePlaylistShape DEF PlaylistStep
<1>4. CASE SweepStart \/ SweepNext
  BY <1>4, SweepShape, SweeperIsHandler
<1> QED
  BY <1>1, <1>2, <1>3, <1>4 DEF XtreamNext

\* It holds at first.
LEMMA XtreamInitInv == XtreamInit => XtreamInv
<1> SUFFICES ASSUME XtreamInit PROVE XtreamInv
  OBVIOUS
<1>1. Inv
  BY InitInv DEF XtreamInit
<1>2. Served /\ CacheTrue
  BY <1>1, InvServed DEF Inv
<1>3. PublishedBy(ImportersOwing)
  BY <1>1 DEF XtreamInit, Init, CacheInit, PublishedBy
<1>4. \A c \in Handlers : req[c] = Idle /\ pc[c] = "idle"
  BY DEF XtreamInit, Init, CacheInit
<1>5. JobsOK
  BY <1>4, NoJobIsJob DEF XtreamInit, JobsOK, JobOK
<1>6. PlaylistsOK
  BY DaysAreNat DEF XtreamInit, PlaylistsOK, StampedWasImported
<1> QED
  BY <1>2, <1>3, <1>4, <1>5, <1>6 DEF XtreamInv

\* The channel handlers keep it.
LEMMA ChannelStepInv ==
  ASSUME XtreamInv, NEW c \in Handlers, Rebuild(c) \/ Change(c) \/ Quiet(c),
         UNCHANGED playlistVars
  PROVE  XtreamInv'
<1> USE DEF playlistVars
<1>1. Served' /\ CacheTrue'
  BY ServedKept, CacheKept DEF XtreamInv, Change
<1>2. /\ \E step \in Early \union {"list", "swap", "hook"} : Goto(c, step)
      /\ pc[c] \in Early \union {"list", "swap", "hook"}
      /\ \A d \in Handlers \ {c} : req'[d] = req[d]
      /\ req'[c] \in Requests \union {req[c]}
  BY DEF Rebuild, RebuildList, RebuildSwap, Finish, RebuildHook, Change, Writes, Quiet,
         OthersKeep, handlerVars, Early
<1>3. /\ pc'[c] \in Early \union {"list", "swap", "hook"}
      /\ \A d \in Handlers \ {c} : pc'[d] = pc[d]
  BY <1>2 DEF XtreamInv, Served, Goto
<1>4. \A d \in Handlers : req'[d] \in Requests \union PlaylistRequests \union {Idle}
  BY <1>2 DEF XtreamInv
<1>5. JobsOK'
  BY <1>2, <1>3 DEF XtreamInv, JobsOK, JobOK, Early
<1>6. PlaylistsOK'
  BY DEF XtreamInv, PlaylistsOK, StampedWasImported
<1>7. ASSUME Owing \subseteq Owing' PROVE ImportersOwing \subseteq ImportersOwing'
  BY <1>2, <1>3, <1>7 DEF ImportersOwing, OwesAfterImport, Owing, Early
<1>8. PublishedBy(ImportersOwing)'
  <2>1. CASE Rebuild(c)
    <3>1. RebuildStep(c)
      BY <2>1 DEF Rebuild, RebuildStep, Finish
    <3> QED
      BY <1>7, <2>1, <3>1, OwesKept, PublishedRebuild DEF XtreamInv
  <2>2. CASE Change(c)
    BY <2>2, WritesOwe DEF XtreamInv, Change, PublishedBy, ImportersOwing, OwesAfterImport
  <2>3. CASE Quiet(c)
    <3>1. UNCHANGED <<epoch, cacheVars>> /\ pc[c] \in Early
      BY <2>3 DEF Quiet
    <3>2. \A d \in Handlers : pc[d] \in {"swap", "hook"} => pc'[d] = pc[d]
      BY <1>3, <3>1 DEF Early
    <3> QED
      BY <1>7, <2>3, <3>1, <3>2, OwesKept, PublishedQuiet DEF XtreamInv
  <2> QED
    BY <2>1, <2>2, <2>3
<1> QED
  BY <1>1, <1>4, <1>5, <1>6, <1>8 DEF XtreamInv

\* The playlist handlers and the sweep keep it.
LEMMA PlaylistStepInv ==
  ASSUME XtreamInv, NEW c \in Handlers, PlaylistShape(c)
  PROVE  XtreamInv'
<1>1. PICK step \in PlaylistSteps \union {"list"} : Goto(c, step)
  BY DEF PlaylistShape
<1>2. /\ pc' = [d \in Handlers |-> pc'[d]] /\ pc'[c] = step
      /\ \A d \in Handlers \ {c} : pc'[d] = pc[d]
  BY <1>1 DEF XtreamInv, Served, Goto
<1>3. /\ \A d \in Handlers \ {c} : /\ req'[d] = req[d] /\ read'[d] = read[d]
                                   /\ answer'[d] = answer[d] /\ job'[d] = job[d]
      /\ UNCHANGED cacheVars /\ imported \subseteq imported' /\ pc[c] \in PlaylistSteps
  BY DEF PlaylistShape, OthersKeep
<1>4. UNCHANGED <<db, epoch>> \/ (epoch' = epoch + 1 /\ IsCatalog(db'))
  BY DEF PlaylistShape
<1>5. Served'
  <2>1. \A d \in Handlers : pc'[d] \in Early \ {"idle"} => Serving(d)'
    <3>1. \A d \in Handlers : pc'[d] \in Early \ {"idle"} => d # c
      BY <1>2 DEF PlaylistSteps, Early
    <3> QED
      BY <1>2, <1>3, <3>1 DEF XtreamInv, Served, Serving
  <2>2. IsCatalog(db') /\ epoch' \in Nat /\ HandlerTypes'
    BY <1>4 DEF XtreamInv, Served, PlaylistShape
  <2> QED
    BY <1>2, <2>1, <2>2 DEF Served
<1>6. \A d \in Handlers : req'[d] \in Requests \union PlaylistRequests \union {Idle}
  BY <1>3 DEF XtreamInv, PlaylistShape
<1>7. JobsOK'
  <2>1. \A d \in Handlers : JobOK(d)'
    BY <1>2, <1>3 DEF XtreamInv, JobsOK, JobOK, PlaylistShape
  <2> QED
    BY <2>1 DEF JobsOK, PlaylistShape
<1>8. CacheTrue'
  BY <1>1, <1>3, <1>4, CacheTrueHandler DEF XtreamInv, HandlerStep
<1>9. PublishedBy(ImportersOwing)'
  <2>1. CASE OwesAfterImport(c)'
    BY <2>1 DEF PublishedBy, ImportersOwing
  <2>2. CASE UNCHANGED <<db, epoch>> /\ (OwesAfterImport(c) => OwesAfterImport(c)')
    <3>1. ASSUME NEW d \in Handlers \ {c}, OwesAfterImport(d) PROVE OwesAfterImport(d)'
      <4>1. TargetId(d)' = TargetId(d)
        BY <1>3 DEF TargetId
      <4> QED
        BY <1>2, <1>3, <2>2, <3>1, <4>1 DEF OwesAfterImport, Owes
    <3>2. ImportersOwing \subseteq ImportersOwing'
      BY <2>2, <3>1 DEF ImportersOwing
    <3>3. \A d \in Handlers : pc[d] \in {"swap", "hook"} => pc'[d] = pc[d]
      BY <1>2, <1>3 DEF PlaylistSteps
    <3> QED
      BY <1>3, <2>2, <3>2, <3>3, PublishedQuiet DEF XtreamInv
  <2> QED
    BY <2>1, <2>2 DEF PlaylistShape
<1>10. PlaylistsOK'
  BY DEF PlaylistShape
<1> QED
  BY <1>5, <1>6, <1>7, <1>8, <1>9, <1>10 DEF XtreamInv

\* A day that passes keeps it.
LEMMA TickInv == ASSUME XtreamInv, Tick \/ UNCHANGED allVars PROVE XtreamInv'
<1>1. /\ UNCHANGED <<db, pc, epoch, cacheVars, listed, cached, headers, reordered,
                     req, read, answer, left, playlists, minted, job, imported>>
      /\ day' \in FirstDay..MaxDay
  BY DaysAreNat DEF Tick, allVars, vars, cacheVars, handlerVars, playlistVars, XtreamInv, PlaylistsOK
<1>2. Served'
  BY <1>1 DEF XtreamInv, Served, HandlerTypes, Serving
<1>3. CacheTrue'
  BY <1>1, CacheTrueIdle DEF XtreamInv
<1>4. JobsOK' /\ PlaylistsOK'
  BY <1>1 DEF XtreamInv, JobsOK, JobOK, PlaylistsOK, StampedWasImported
<1>5. PublishedBy(ImportersOwing)'
  <2>1. \A d \in Handlers : OwesAfterImport(d)' = OwesAfterImport(d)
    BY <1>1 DEF OwesAfterImport, Owes, TargetId
  <2> QED
    BY <1>1, <2>1, PublishedQuiet DEF XtreamInv, ImportersOwing
<1> QED
  BY <1>1, <1>2, <1>3, <1>4, <1>5 DEF XtreamInv

\* A restart keeps it: what was to be rebuilt is, before anything else runs.
LEMMA RestartInv == ASSUME XtreamInv, Restart PROVE XtreamInv'
<1>1. /\ pc' = [c \in Handlers |-> IF c = Sweeper THEN "start" ELSE "idle"]
      /\ cached' = [rows |-> db, at |-> epoch]
      /\ headers' = [map |-> UpstreamHeaders(db), at |-> epoch]
      /\ reordered' = FALSE
      /\ job' = [c \in Handlers |-> NoJob]
      /\ req' = [c \in Handlers |-> Idle]
      /\ answer' = [c \in Handlers |-> "none"]
      /\ UNCHANGED <<db, epoch, listed, read, left, playlists, minted, day, imported>>
  BY DEF Restart, Snapshot
<1>2. \A c \in Handlers : pc'[c] \in {"start", "idle"} /\ req'[c] = Idle
  BY <1>1
<1>3. Served'
  <2>1. HandlerTypes'
    BY <1>1 DEF XtreamInv, Served, HandlerTypes, Answers
  <2> QED
    BY <1>1, <1>2, <2>1 DEF XtreamInv, Served, Early
<1>4. JobsOK' /\ PlaylistsOK'
  BY <1>1, <1>2, NoJobIsJob DEF XtreamInv, JobsOK, JobOK, PlaylistsOK, StampedWasImported
<1>5. CacheTrue'
  <2>1. reordered' \in BOOLEAN
    BY <1>1
  <2> QED
    BY <1>1, <2>1 DEF XtreamInv, CacheTrue
<1>6. PublishedBy(ImportersOwing)'
  BY <1>1 DEF PublishedBy
<1> QED
  BY <1>2, <1>3, <1>4, <1>5, <1>6 DEF XtreamInv

\* It holds for ever.
LEMMA XtreamInvHolds == XtreamSpec => []XtreamInv
<1>1. XtreamInv /\ [XtreamNext]_allVars => XtreamInv'
  <2> SUFFICES ASSUME XtreamInv, [XtreamNext]_allVars PROVE XtreamInv'
    OBVIOUS
  <2>1. CASE XtreamNext
    BY <2>1, XtreamShape, ChannelStepInv, PlaylistStepInv, TickInv, RestartInv
  <2>2. CASE UNCHANGED allVars
    BY <2>2, TickInv
  <2> QED
    BY <2>1, <2>2
<1> QED
  BY XtreamInitInv, <1>1, PTL DEF XtreamSpec

-----------------------------------------------------------------------------
(* The theorems. *)

\* Whatever saves, refreshes, edits, deletions, sweeps and restarts interleave:
\* the catalog and the table of playlists keep their types, a playlist that
\* carries a refresh time has been imported, and a list at rest is the catalog
\* unless one rebuild overtook another.
THEOREM SavedPlaylistsSound == XtreamSpec => []SavedOK
<1>1. XtreamInv => SavedOK
  <2> SUFFICES ASSUME XtreamInv PROVE SavedOK
    OBVIOUS
  <2>1. XtreamTypeOK /\ StampedWasImported
    BY DEF XtreamInv, Served, JobsOK, JobOK, PlaylistsOK, XtreamTypeOK
  <2>2. AtRest => ImportersOwing = {}
    BY DEF AtRest, ImportersOwing, OwesAfterImport, Owes
  <2> QED
    BY <2>1, <2>2, PublishedAtRest DEF SavedOK, XtreamInv
<1> QED
  BY <1>1, XtreamInvHolds, PTL

\* No import, refresh, sweep or deletion of a playlist changes a favourite flag
\* of a channel that stays: only a favourite request does, and to its value.
THEOREM FavouritesSurviveImports == XtreamSpec => FavouriteOnlyByRequest
<1> DEFINE Kept == \A i \in DOMAIN db \intersect DOMAIN db' :
             db'[i].fav # db[i].fav =>
               \E c \in Handlers : /\ pc[c] = "write" /\ pc'[c] # "write"
                                   /\ req[c] = [op |-> "fav", id |-> i, on |-> db'[i].fav]
<1>1. XtreamInv /\ [XtreamNext]_allVars => [Kept]_vars
  <2> SUFFICES ASSUME XtreamInv, XtreamNext PROVE Kept
    BY DEF allVars
  <2>1. ASSUME NEW c \in Handlers, Rebuild(c) \/ Quiet(c) PROVE Kept
    BY <2>1 DEF Rebuild, RebuildList, RebuildSwap, Finish, RebuildHook, Quiet
  <2>2. ASSUME NEW c \in Handlers, Change(c) PROVE Kept
    <3>1. pc[c] = "write" /\ pc'[c] # "write"
      BY <2>2 DEF Change, Writes, Goto, XtreamInv, Served
    <3> QED
      BY <2>2, <3>1 DEF Change
  <2>3. ASSUME NEW c \in Handlers, PlaylistShape(c) PROVE Kept
    BY <2>3 DEF PlaylistShape, SameFavourites
  <2>4. CASE Tick \/ Restart
    BY <2>4 DEF Tick, Restart, vars
  <2> QED
    BY <2>1, <2>2, <2>3, <2>4, XtreamShape
<1> QED
  BY <1>1, XtreamInvHolds, PTL DEF XtreamSpec, FavouriteOnlyByRequest

\* A channel loses its playlist in one way only: its import is committed after
\* the playlist was deleted.  The deletion itself leaves none behind, and no
\* channel handler adds a channel to a playlist.
THEOREM OrphansAreLate == XtreamSpec => OrphansOnlyByLateImport
<1> DEFINE Late == \E c \in Handlers : /\ pc[c] = "import" /\ pc'[c] = "stamp"
                                       /\ job[c].id \notin DOMAIN playlists
           Step == Orphans(db', playlists') \subseteq Orphans(db, playlists) \/ Late
<1>1. XtreamInv /\ [XtreamNext]_allVars => [Step]_allVars
  <2> SUFFICES ASSUME XtreamInv, XtreamNext PROVE Step
    OBVIOUS
  <2>1. ASSUME NEW c \in Handlers, Rebuild(c) \/ Quiet(c), UNCHANGED playlistVars PROVE Step
    BY <2>1 DEF Rebuild, RebuildList, RebuildSwap, Finish, RebuildHook, Quiet, playlistVars
  <2>2. ASSUME NEW c \in Handlers, Change(c), UNCHANGED playlistVars PROVE Step
    BY <2>2 DEF Change, SamePlaylists, Orphans, playlistVars
  <2>3. ASSUME NEW c \in Handlers, PlaylistShape(c) PROVE Step
    BY <2>3 DEF PlaylistShape, OrphansOf
  <2>4. CASE Tick \/ Restart
    BY <2>4 DEF Tick, Restart, vars
  <2> QED
    BY <2>1, <2>2, <2>3, <2>4, XtreamShape
<1> QED
  BY <1>1, XtreamInvHolds, PTL DEF XtreamSpec, OrphansOnlyByLateImport

-----------------------------------------------------------------------------
(* The refinement of ServedCatalog by XtreamPlaylists. *)

\* Of the handlers at a step of a playlist only those that have imported are due
\* anything, and they owe a rebuild for it.
ImportersDue ==
  \A c \in Handlers : pc[c] \in PlaylistSteps /\ due[c] # 0 => OwesAfterImport(c)

\* A step of a playlist handler or of the sweep is a change or invisible.
LEMMA PlaylistPromise ==
  ASSUME XtreamInv, PromiseInv, ImportersDue, Record, NEW c \in Handlers, PlaylistShape(c)
  PROVE  PromiseInv' /\ ImportersDue' /\ [Public!Next]_Public!vars
<1>1. PICK step \in PlaylistSteps \union {"list"} : Goto(c, step)
  BY DEF PlaylistShape
<1>2. Served /\ CacheTrue /\ HistoryTypes
  BY DEF XtreamInv, PromiseInv
<1>3. /\ pc[c] \in PlaylistSteps /\ UNCHANGED <<listed, cached, headers>>
      /\ \A d \in Handlers \ {c} : req'[d] = req[d] /\ job'[d] = job[d]
  BY DEF PlaylistShape, OthersKeep, cacheVars
<1>4. best' = best /\ AsOf' = AsOf
  BY <1>2, <1>3, ViewsKept
<1>5. /\ due' = [due EXCEPT ![c] = due'[c]]
      /\ \A d \in Handlers \ {c} : due'[d] = due[d] /\ pc'[d] = pc[d]
      /\ due'[c] = IF step \in {"idle", "start"} THEN 0
                   ELSE IF epoch' # epoch /\ step # pc[c] THEN epoch' ELSE due[c]
      /\ pc'[c] = step
  BY <1>1, <1>2, DebtsKept
<1>6. epoch \in Nat /\ \A d \in Handlers : due[d] \in 0..epoch
  BY <1>2, CacheBounds DEF HistoryTypes
<1>7. OwesAfterImport(c)' => step \in {"list", "stamp", "sweep", "fetch", "save", "import"}
  BY <1>1, <1>5 DEF OwesAfterImport, Owes, PlaylistSteps
<1>8. ASSUME NEW d \in Handlers \ {c}, pc'[d] \in PlaylistSteps, due'[d] # 0
      PROVE  OwesAfterImport(d)'
  BY <1>3, <1>5, <1>8 DEF ImportersDue, OwesAfterImport, Owes, PlaylistSteps
<1>9. CASE UNCHANGED <<db, epoch>> /\ (OwesAfterImport(c) => OwesAfterImport(c)')
  <2>1. due'[c] = due[c] /\ (due[c] # 0 => OwesAfterImport(c)')
    BY <1>3, <1>5, <1>7, <1>9 DEF ImportersDue
  <2>2. due' = due
    BY <1>2, <1>5, <2>1 DEF HistoryTypes
  <2>3. ImportersDue'
    BY <1>8, <2>1 DEF ImportersDue
  <2>4. HistoryTypes' /\ NewestIsDue'
    BY <1>4, <1>9, <2>2 DEF PromiseInv, HistoryTypes, NewestIsDue
  <2>5. ASSUME NEW d \in Handlers PROVE DueAt(d)'
    <3>1. CASE d = c
      <4>1. step \in {"idle", "start"} => due'[c] = 0
        BY <1>5
      <4> QED
        BY <1>5, <3>1, <4>1 DEF DueAt, PlaylistSteps
    <3>2. CASE d # c
      <4>1. TargetId(d)' = TargetId(d)
        BY <1>3, <3>2 DEF TargetId
      <4> QED
        BY <1>3, <1>4, <1>5, <1>9, <3>2, <4>1 DEF PromiseInv, DueAt
    <3> QED
      BY <3>1, <3>2
  <2> QED
    BY <1>4, <1>9, <2>2, <2>3, <2>4, <2>5 DEF PromiseInv, Public!vars
<1>10. CASE epoch' = epoch + 1 /\ OwesAfterImport(c)' /\ pc'[c] # pc[c]
  <2>1. due'[c] = epoch' /\ due' = [due EXCEPT ![c] = epoch']
    BY <1>5, <1>6, <1>7, <1>10
  <2>2. Public!Change(c)
    BY <1>4, <1>10, <2>1 DEF Public!Change
  <2>3. ImportersDue'
    BY <1>8, <1>10 DEF ImportersDue
  <2>4. NewestIsDue'
    BY <2>1 DEF NewestIsDue
  <2>5. HistoryTypes'
    <3>1. \A w \in Views : AsOf[w] \in Nat
      BY <1>2, CacheBounds, ViewsFacts
    <3> QED
      BY <1>2, <1>4, <1>5, <1>6, <1>10, <2>1, <3>1 DEF HistoryTypes
  <2>6. ASSUME NEW d \in Handlers PROVE DueAt(d)'
    <3>1. CASE d = c
      BY <1>5, <1>7, <1>10, <3>1 DEF DueAt
    <3>2. CASE d # c
      BY <1>3, <1>4, <1>5, <1>6, <1>10, <3>2 DEF PromiseInv, DueAt
    <3> QED
      BY <3>1, <3>2
  <2> QED
    BY <2>2, <2>3, <2>4, <2>5, <2>6 DEF PromiseInv, Public!Next
<1> QED
  BY <1>9, <1>10 DEF PlaylistShape

\* A restart forgets what was due and shows the catalog.
LEMMA RestartPromise ==
  ASSUME XtreamInv, PromiseInv, Record, Restart
  PROVE  PromiseInv' /\ ImportersDue' /\ Public!Restart
<1>1. /\ \A c \in Handlers : pc'[c] \in {"idle", "start"}
      /\ cached'.at = epoch /\ headers'.at = epoch /\ epoch' = epoch
  BY DEF Restart, Snapshot
<1>2. epoch \in Nat /\ \A w \in Views : best[w] \in 0..epoch
  BY CacheBounds, ViewsFacts DEF XtreamInv, PromiseInv, HistoryTypes
<1>3. AsOf' = [w \in Views |-> epoch]
  BY <1>1 DEF AsOf
<1>4. best' = [w \in Views |-> epoch]
  BY <1>2, <1>3 DEF Record
<1>5. due' = [c \in Handlers |-> 0]
  BY <1>1 DEF Record
<1>6. PromiseInv'
  <2>1. HistoryTypes' /\ NewestIsDue'
    BY <1>1, <1>2, <1>3, <1>4, <1>5 DEF HistoryTypes, NewestIsDue
  <2>2. \A c \in Handlers : DueAt(c)'
    BY <1>1, <1>5 DEF DueAt
  <2> QED
    BY <2>1, <2>2 DEF PromiseInv
<1> QED
  BY <1>1, <1>3, <1>4, <1>5, <1>6 DEF ImportersDue, Public!Restart

\* Every step of XtreamPlaylists keeps it and is one of ServedCatalog, or invisible.
LEMMA XtreamPromiseStep ==
  ASSUME XtreamInv, PromiseInv, ImportersDue, [XtreamNext /\ Record]_allPromiseVars
  PROVE  PromiseInv' /\ ImportersDue' /\ [Public!Next]_Public!vars
<1>1. Served /\ CacheTrue
  BY DEF XtreamInv
<1>2. ASSUME Record, NEW c \in Handlers, Rebuild(c) \/ Change(c) \/ Quiet(c), UNCHANGED playlistVars
      PROVE  PromiseInv' /\ ImportersDue' /\ [Public!Next]_Public!vars
  <2>1. PICK step \in Early \union {"list", "swap", "hook"} : Goto(c, step)
    BY <1>2 DEF Rebuild, RebuildList, RebuildSwap, Finish, RebuildHook, Change, Writes, Quiet, Early
  <2>2. /\ \A d \in Handlers \ {c} : due'[d] = due[d] /\ pc'[d] = pc[d] /\ job'[d] = job[d]
        /\ pc'[c] = step /\ (step = "idle" => due'[c] = 0)
    BY <1>1, <1>2, <2>1, DebtsKept DEF playlistVars
  <2>3. ImportersDue'
    BY <2>1, <2>2 DEF ImportersDue, OwesAfterImport, Owes, PlaylistSteps, Early
  <2> QED
    BY <1>1, <1>2, <2>3, ChannelPromise
<1>3. ASSUME UNCHANGED <<db, pc, epoch, cacheVars, req, job, best, due>>
      PROVE  PromiseInv' /\ ImportersDue' /\ [Public!Next]_Public!vars
  <2>1. ImportersDue'
    BY <1>3 DEF ImportersDue, OwesAfterImport, Owes, PlaylistSteps
  <2> QED
    BY <1>3, <2>1, IdlePromise
<1>4. CASE UNCHANGED allPromiseVars
  BY <1>3, <1>4 DEF allPromiseVars, allVars, vars, handlerVars, playlistVars
<1>5. CASE Tick /\ Record
  <2>1. UNCHANGED <<db, pc, epoch, cacheVars, cached, headers, req, job>>
    BY <1>5 DEF Tick, vars, cacheVars, handlerVars
  <2>2. best' = best
    BY <1>1, <1>5, <2>1, ViewsKept DEF PromiseInv
  <2>3. due' = due
    BY <1>5, <2>1 DEF Record, PromiseInv, HistoryTypes, DueAt
  <2> QED
    BY <1>3, <2>1, <2>2, <2>3
<1>6. CASE XtreamNext /\ Record
  BY <1>2, <1>5, <1>6, XtreamShape, PlaylistPromise, RestartPromise DEF Public!Next
<1> QED
  BY <1>4, <1>6

\* With playlists, the sweep and restarts the server keeps the same promise: an
\* import is shown before its handler answers, the sweep shows all its imports before
\* it ends, and a kill between an import and its rebuild hides nothing for longer
\* than the start.
THEOREM SweepKeepsPromise == XtreamPromiseSpec => KeepsCatalogPromise
<1>1. XtreamPromiseSpec => XtreamSpec
  <2>1. [XtreamNext /\ Record]_allPromiseVars => [XtreamNext]_allVars
    BY DEF allPromiseVars
  <2> QED
    BY <2>1, PTL DEF XtreamPromiseSpec, XtreamPromiseInit, XtreamSpec
<1>2. XtreamPromiseSpec => []XtreamInv
  BY <1>1, XtreamInvHolds, PTL
<1>3. XtreamPromiseInit => PromiseInv /\ Public!Init
  BY PromiseInitInv DEF XtreamPromiseInit, XtreamInit, PromiseInit
<1>4. XtreamPromiseInit => ImportersDue
  BY DEF XtreamPromiseInit, ImportersDue
<1>5. XtreamInv /\ PromiseInv /\ ImportersDue /\ [XtreamNext /\ Record]_allPromiseVars
      => PromiseInv' /\ ImportersDue' /\ [Public!Next]_Public!vars
  BY XtreamPromiseStep
<1> QED
  BY <1>2, <1>3, <1>4, <1>5, PTL DEF XtreamPromiseSpec, KeepsCatalogPromise, Public!Spec
=============================================================================
