------------------------------ MODULE Library ------------------------------
(***************************************************************************)
(* The channels as the page lists them (web/static/channels.js, init.js,   *)
(* playlists.js, picker.js, util.js): loading, favourites, filters, the    *)
(* side bar and the picker, in front of the server's catalog.              *)
(*                                                                         *)
(* The page shows a favourite before the server knows, and loads the list  *)
(* anew after every edit.  It sends such requests without waiting for each *)
(* other, the server handles them in any order, and the answers come in    *)
(* any order.  Everything shown is drawn by the callback that changes what *)
(* it depends on.                                                          *)
(*                                                                         *)
(* A request to edit and the load its answer triggers are one action.  The *)
(* screens are external.  How much of a long list is drawn (RENDER_CAP),   *)
(* which sections are open, logos and wording are left out.                *)
(***************************************************************************)
EXTENDS Integers, FiniteSets, Sequences, FiniteSetsExt, SequencesExt

CONSTANTS
  Channel, Playlist,
  None,               \* no playlist, country or channel
  Manual,             \* channels added by hand
  PlaylistOf, Group,  \* ch.xtream_playlist_id, ch.group: the country
  TypeOf, CatOrder,   \* ch.type, ch.cat_order
  Categories,         \* CATEGORY_ORDER
  Rank,               \* alphabetical order of types, whatever their case
  NameOf,             \* ch.name.toLowerCase()
  Search,             \* search terms, "" for none
  Hits,               \* channels whose name or country contains a term
  Cell,               \* screens
  MaxActions          \* bound: actions of the user and marks of dead channels

ASSUME LibraryAssumption ==
  /\ None \notin Channel \union Playlist /\ Manual \subseteq Channel
  /\ IsFiniteSet(Playlist) /\ IsFiniteSet(Channel)
  /\ PlaylistOf \in [Channel -> Playlist \union {None}]
  /\ CatOrder \in [Channel -> Nat] /\ TypeOf \in [Channel -> STRING]
  /\ "" \in Search /\ Hits \in [Search -> SUBSET Channel] /\ Hits[""] = Channel
  /\ Categories \in Seq(STRING) /\ IsInjective(Categories)
  /\ \A ch \in Channel : Rank[TypeOf[ch]] \in Nat
  /\ Cell \subseteq Nat \ {0} /\ Cell # {} /\ MaxActions \in Nat

VARIABLES
  catalog, faved, playlists,    \* the server's tables
  calls,       \* requests under way
  list,        \* state.channels, and how often it was replaced
  loading,     \* state.channelsLoading
  search, box, timer,           \* state.search, els.search.value, searchDebounce
  country, countries,           \* state.country, the options of its select
  selected, offered,            \* state.selectedPlaylist, the options of its select
  tab,         \* state.activeTab
  view,        \* the side bar as last drawn
  marks, deadShown,             \* state.deadMarks; buttons drawn as dead
  cells, lit,                   \* channels of the screens; buttons drawn as playing
  target,      \* state.pickerTarget, 0 while the picker is closed
  pickerSearch, pickerBox, pickerTimer, pickerView,
  acts,        \* actions of the user and marks so far
  behind,      \* history: requests overlapped, or a load failed, since a load
               \* nothing overlapped
  cut          \* history: the drawer was closed on a term not searched for yet

server  == <<catalog, faved, playlists>>
filters == <<search, box, timer, country, countries, selected, offered, tab, cut>>
drawn   == <<view, deadShown, lit>>
picker  == <<target, pickerSearch, pickerBox, pickerTimer, pickerView>>
screens == <<marks, cells>>
vars == <<server, calls, list, loading, filters, drawn, picker, screens, acts, behind>>

Active == {cells[i] : i \in Cell} \ {None}
Countries(ids) == {Group[ch] : ch \in ids} \ {None}

-----------------------------------------------------------------------------
(* workingSet, and the sections renderChannelList makes of it. *)

OfPlaylist(ch) == selected = None \/ PlaylistOf[ch] = selected \/ ch \in Manual

WorkingSet ==
  {ch \in list.ids \intersect Hits[search] :
     OfPlaylist(ch) /\ (country = None \/ Group[ch] = country)}

TypesIn(ms) == {TypeOf[ch] : ch \in ms}

\* The panel's index of a section: the smallest of its channels, 0 for none.
GroupOrder(t, ms) ==
  LET indices == {CatOrder[ch] : ch \in {c \in ms : TypeOf[c] = t}} \ {0}
  IN IF indices = {} THEN 0 ELSE Min(indices)

\* Wrong on purpose: sections without an index come first.
BeforeByNumber(a, b, ms) ==
  LET x == GroupOrder(a, ms) y == GroupOrder(b, ms)
  IN IF x # y THEN x < y ELSE Rank[a] < Rank[b]

Before(a, b, ms) ==
  LET x == GroupOrder(a, ms) y == GroupOrder(b, ms)
  IN IF x # y THEN y = 0 \/ (x # 0 /\ x < y) ELSE Rank[a] < Rank[b]

\* S sorted by a comparator: before has the pairs it puts in that order; those
\* it puts in none may come either way.
Sorted(S, before) ==
  CHOOSE s \in [1 .. Cardinality(S) -> S] :
    \A i, j \in DOMAIN s : i < j => s[i] # s[j] /\ <<s[j], s[i]>> \notin before

\* The known categories that have a match, in their order, then the others.
Known(ms) ==
  LET here   == {i \in DOMAIN Categories : Categories[i] \in TypesIn(ms)}
      before == {p \in here \X here : p[1] < p[2]}
      order  == Sorted(here, before)
  IN [n \in DOMAIN order |-> Categories[order[n]]]

Extra(ms) ==
  LET types  == TypesIn(ms) \ ToSet(Categories)
      before == {p \in types \X types : Before(p[1], p[2], ms)}
  IN Sorted(types, before)

Sections(ms) == Known(ms) \o Extra(ms)

\* What renderChannelList draws.
Drawing(onTab, favs, ms) ==
  IF onTab THEN [favs |-> favs, matches |-> ms, sections |-> Sections(ms)]
  ELSE [favs |-> {}, matches |-> {}, sections |-> <<>>]

OnTab == tab = "channels" /\ ~loading
FavSection == {ch \in list.fav : OfPlaylist(ch)}

Browse == Drawing(OnTab, FavSection, WorkingSet)

Shown == view.favs \union view.matches

RenderChannelList ==
  /\ view' = Drawing(OnTab', FavSection', WorkingSet')
  /\ deadShown' = {ch \in Shown' : NameOf[ch] \in marks'}
  /\ lit' = Active'

PickerChannels == list.ids \intersect Hits[pickerSearch]

RenderPicker == pickerView' = PickerChannels'

-----------------------------------------------------------------------------
(* Requests: sent, handled, answered. *)

\* Two requests whose order matters to the list.
Clash(r, q) == "load" \in {r.kind, q.kind} \/ r.ch = q.ch

\* The requests under way that clash with r, and what the history knows of them.
Clashing(r) == {q \in calls : Clash(r, q)}
Joined(r) ==
  (calls \ Clashing(r)) \union {[q EXCEPT !.alone = FALSE] : q \in Clashing(r)}
    \union {[r EXCEPT !.alone = (Clashing(r) = {})]}

Call(no, kind, ch, on) ==
  [no |-> no, kind |-> kind, ch |-> ch, on |-> on, loads |-> list.loads,
   stage |-> "sent", ids |-> {}, fav |-> {}, alone |-> TRUE]

Send(kind, ch, on) ==
  LET r == Call(acts + 1, kind, ch, on)
  IN calls' = Joined(r) /\ behind' = (behind \/ Clashing(r) # {})

Serve(r) ==
  /\ r.stage = "sent"
  /\ \/ /\ r.kind = "load"
        /\ calls' = (calls \ {r}) \union
                    {[r EXCEPT !.stage = "ok", !.ids = catalog, !.fav = faved]}
        /\ UNCHANGED faved
     \/ /\ r.kind = "fav" /\ r.ch \in catalog
        /\ calls' = (calls \ {r}) \union {[r EXCEPT !.stage = "ok"]}
        /\ faved' = IF r.on THEN faved \union {r.ch} ELSE faved \ {r.ch}
     \/ calls' = (calls \ {r}) \union {[r EXCEPT !.stage = "failed"]} /\ UNCHANGED faved
  /\ UNCHANGED <<catalog, playlists, list, loading, filters, drawn, picker, screens, acts, behind>>

\* The options are made anew when they change; a country that is gone is let go.
PopulateCountryFilter(ids) ==
  /\ countries' = Countries(ids)
  /\ country' = IF countries' # countries /\ country \notin countries' THEN None ELSE country

\* loadChannels answered.
LoadAnswered(r) ==
  /\ r.kind = "load" /\ r.stage # "sent"
  /\ calls' = calls \ {r} /\ loading' = FALSE
  /\ IF r.stage = "ok"
       THEN /\ list' = [ids |-> r.ids, fav |-> r.fav, loads |-> list.loads + 1]
            /\ PopulateCountryFilter(r.ids)
            /\ behind' = (behind /\ ~r.alone)
       ELSE UNCHANGED <<list, country, countries>> /\ behind' = TRUE
  /\ UNCHANGED <<server, search, box, timer, selected, offered, tab, cut,
                 target, pickerSearch, pickerBox, pickerTimer, screens, acts>>
  /\ RenderChannelList
  /\ IF r.stage = "ok" /\ target # 0 THEN RenderPicker ELSE UNCHANGED pickerView

\* Wrong on purpose: the star is put back but not drawn.
FavAnsweredQuietly(r) ==
  /\ r.kind = "fav" /\ r.stage # "sent"
  /\ calls' = calls \ {r}
  /\ list' = IF r.stage = "failed" /\ r.loads = list.loads
               THEN [list EXCEPT !.fav = IF r.on THEN @ \ {r.ch} ELSE @ \union {r.ch}]
               ELSE list
  /\ UNCHANGED <<server, loading, filters, drawn, picker, screens, acts, behind>>

\* setFav answered: a failure puts the star of that channel object back.
FavAnswered(r) ==
  /\ r.kind = "fav" /\ r.stage # "sent"
  /\ calls' = calls \ {r}
  /\ list' = IF r.stage = "failed" /\ r.loads = list.loads
               THEN [list EXCEPT !.fav = IF r.on THEN @ \ {r.ch} ELSE @ \union {r.ch}]
               ELSE list
  /\ UNCHANGED <<server, loading, filters, picker, screens, acts, behind>>
  /\ IF r.stage = "failed" THEN RenderChannelList ELSE UNCHANGED drawn

\* initPlaylistFilter answered, once: the first playlist is selected.
PlaylistsAnswered ==
  /\ offered = <<None>>
  /\ \E ok \in BOOLEAN :
       offered' = IF ok THEN SetToSeq(playlists) ELSE <<>>
  /\ selected' = IF offered' = <<>> THEN None ELSE offered'[1]
  /\ UNCHANGED <<country, countries>>
  /\ UNCHANGED <<server, calls, list, loading, search, box, timer, tab, cut, picker,
                 screens, acts, behind>>
  /\ RenderChannelList

-----------------------------------------------------------------------------
(* What the user does. *)

Stars == Shown \union IF target = 0 THEN {} ELSE pickerView

\* Wrong on purpose: two quick presses on a star send one request.
SetFavUnsent(ch) ==
  /\ ch \in Stars
  /\ list' = [list EXCEPT !.fav = IF ch \in @ THEN @ \ {ch} ELSE @ \union {ch}]
  /\ IF \E q \in calls : q.ch = ch THEN UNCHANGED <<calls, behind>>
     ELSE Send("fav", ch, ch \notin list.fav)
  /\ UNCHANGED <<server, loading, filters, picker, screens>>
  /\ RenderChannelList

\* The star of a channel (setFav, onFavChanged).
SetFav(ch) ==
  /\ ch \in Stars
  /\ list' = [list EXCEPT !.fav = IF ch \in @ THEN @ \ {ch} ELSE @ \union {ch}]
  /\ Send("fav", ch, ch \notin list.fav)
  /\ UNCHANGED <<server, loading, filters, picker, screens>>
  /\ RenderChannelList

\* An edit by one of the forms, and the load that follows.
Edit ==
  /\ \/ /\ \E ch \in Manual :
            \/ catalog' = catalog \union {ch} /\ faved' = faved \union {ch}
            \/ catalog' = catalog \ {ch} /\ faved' = faved \ {ch}
        /\ UNCHANGED playlists
     \/ \E p \in Playlist :
          LET own == {ch \in Channel : PlaylistOf[ch] = p}
          IN \/ playlists' = playlists \union {p} /\ catalog' = catalog \union own
                /\ UNCHANGED faved
             \/ playlists' = playlists \ {p} /\ catalog' = catalog \ own
                /\ faved' = faved \ own
  /\ Send("load", None, FALSE)
  /\ UNCHANGED <<list, loading, filters, drawn, picker, screens>>

Filtered == UNCHANGED <<server, calls, list, loading, countries, offered, picker, screens, behind>>

TypeSearch(q) ==
  /\ box' = q /\ timer' = TRUE
  /\ UNCHANGED <<search, country, selected, tab, cut, drawn>> /\ Filtered

\* setSearch, by the timer, or by a button that empties the box.
SetSearch(q) ==
  /\ search' = q /\ box' = q /\ cut' = FALSE
  /\ UNCHANGED <<country, selected, tab>> /\ Filtered
  /\ RenderChannelList

\* closeDrawers: a search not made yet is dropped, the box keeps its term.
CloseDrawers ==
  /\ timer' = FALSE
  /\ cut' = (cut \/ (timer /\ box # search))
  /\ UNCHANGED <<search, box, country, selected, tab, drawn>> /\ Filtered

ChooseCountry(c) ==
  /\ c \in countries \union {None}
  /\ country' = c
  /\ UNCHANGED <<search, box, timer, selected, tab, cut>> /\ Filtered
  /\ RenderChannelList

ChoosePlaylist(p) ==
  /\ p \in ToSet(offered) \ {None}
  /\ selected' = p
  /\ UNCHANGED <<search, box, timer, country, tab, cut>> /\ Filtered
  /\ RenderChannelList

ChooseTab(t) ==
  /\ tab # t /\ tab' = t
  /\ UNCHANGED <<search, box, timer, country, selected, cut>> /\ Filtered
  /\ RenderChannelList

Picking == UNCHANGED <<server, calls, list, loading, filters, view, deadShown, marks, behind>>

OpenPicker(i) ==
  /\ target' = i
  /\ UNCHANGED <<pickerSearch, pickerBox, pickerTimer, cells, lit>> /\ Picking
  /\ RenderPicker

TypePicker(q) ==
  /\ target # 0
  /\ pickerBox' = q /\ pickerTimer' = TRUE
  /\ UNCHANGED <<target, pickerSearch, pickerView, cells, lit>> /\ Picking

PickerSearch(q) ==
  /\ pickerSearch' = q /\ pickerBox' = q
  /\ UNCHANGED <<target, cells, lit>> /\ Picking
  /\ RenderPicker

EmptyPicker ==
  /\ target' = 0 /\ pickerTimer' = FALSE /\ pickerBox' = "" /\ pickerSearch' = ""
  /\ UNCHANGED pickerView

ClosePicker == EmptyPicker /\ UNCHANGED <<cells, lit>> /\ Picking

Assign(i, ch) == cells' = [cells EXCEPT ![i] = ch] /\ lit' = Active'

Pick(ch) ==
  /\ target # 0 /\ ch \in pickerView
  /\ EmptyPicker /\ Assign(target, ch) /\ Picking

\* browseSelect: the first empty screen, or the one with the sound.
BrowseSelect(ch) ==
  LET empty == {i \in Cell : cells[i] = None}
  IN /\ ch \in Shown
     /\ \E i \in IF empty = {} THEN Cell ELSE {Min(empty)} : Assign(i, ch)
     /\ UNCHANGED <<target, pickerSearch, pickerBox, pickerTimer, pickerView>> /\ Picking

\* The player of a screen failed on every link, or plays (setDead).
SetDead(ch, dead) ==
  /\ dead # (NameOf[ch] \in marks)
  /\ marks' = IF dead THEN marks \union {NameOf[ch]} ELSE marks \ {NameOf[ch]}
  /\ deadShown' = IF ~dead THEN deadShown \ {ch}
                  ELSE deadShown \union ({ch} \intersect Shown)
  /\ UNCHANGED <<server, calls, list, loading, filters, view, lit, picker, cells, behind>>

User ==
  /\ acts < MaxActions /\ acts' = acts + 1
  /\ \/ \E ch \in Channel : SetFav(ch) \/ BrowseSelect(ch) \/ Pick(ch)
     \/ Edit
     \/ \E q \in Search : TypeSearch(q) \/ TypePicker(q)
     \/ UNCHANGED timer /\ SetSearch("")
     \/ CloseDrawers
     \/ \E c \in countries \union {None} : ChooseCountry(c)
     \/ \E p \in Playlist : ChoosePlaylist(p)
     \/ \E t \in {"channels", "movies"} : ChooseTab(t)
     \/ \E i \in Cell : OpenPicker(i)
     \/ target # 0 /\ PickerSearch("") /\ UNCHANGED pickerTimer
     \/ ClosePicker
     \/ \E ch \in Active, dead \in BOOLEAN : SetDead(ch, dead)

SearchFires == timer /\ timer' = FALSE /\ SetSearch(box) /\ UNCHANGED acts
PickerFires == pickerTimer /\ PickerSearch(pickerBox) /\ pickerTimer' = FALSE /\ UNCHANGED acts

Init ==
  /\ catalog = Channel /\ playlists = Playlist
  /\ faved = Manual
  /\ list = [ids |-> {}, fav |-> {}, loads |-> 0] /\ loading = TRUE
  /\ calls = {Call(0, "load", None, FALSE)}
  /\ search = "" /\ box = "" /\ timer = FALSE /\ cut = FALSE
  /\ country = None /\ countries = {} /\ selected = None /\ offered = <<None>>
  /\ tab = "channels" /\ view = Browse
  /\ marks = {} /\ deadShown = {} /\ lit = {}
  /\ cells = [i \in Cell |-> None]
  /\ target = 0 /\ pickerSearch = "" /\ pickerBox = "" /\ pickerTimer = FALSE
  /\ pickerView = {} /\ acts = 0 /\ behind = FALSE

Next ==
  \/ User \/ SearchFires \/ PickerFires \/ PlaylistsAnswered
  \/ \E r \in calls : Serve(r) \/ LoadAnswered(r) \/ FavAnswered(r)

Spec == Init /\ [][Next]_vars

-----------------------------------------------------------------------------
TypeOK ==
  /\ catalog \subseteq Channel /\ faved \subseteq catalog /\ playlists \subseteq Playlist
  /\ \A r \in calls : r.stage \in {"sent", "ok", "failed"} /\ r.loads \in 0 .. list.loads
  /\ list.ids \subseteq Channel /\ list.fav \subseteq list.ids
  /\ {search, box, pickerSearch, pickerBox} \subseteq Search
  /\ {loading, timer, cut, pickerTimer, behind} \subseteq BOOLEAN
  /\ cells \in [Cell -> Channel \union {None}] /\ target \in Cell \union {0}
  /\ acts \in 0 .. MaxActions

(* What the page shows as channels and favourites is what the server has,  *)
(* once nothing is under way (loadChannels, setFav with its optimistic     *)
(* star): it is not only if a load failed or requests overtook each other, *)
(* and a load that nothing overlaps puts it right.                         *)
AgreesAtRest ==
  calls = {} /\ ~behind => list.ids = catalog /\ list.fav = faved

Twins(ch) == {c \in Channel : NameOf[c] = NameOf[ch]}

(* The side bar, the picker, the marks of dead channels and the highlights *)
(* of playing ones show the page's present state, whichever callback       *)
(* changed it (renderChannelList, renderPicker, refreshHighlights,         *)
(* setDead).  Only a channel that shares its name with another may show    *)
(* its mark late: marks are kept by name, buttons found by id.             *)
ViewIsCurrent ==
  /\ view = Browse /\ lit = Active
  /\ target # 0 => pickerView = PickerChannels
  /\ \A ch \in Shown : Twins(ch) = {ch} => (ch \in deadShown <=> NameOf[ch] \in marks)

(* No filter works unseen: a search is what its box says unless its timer  *)
(* runs, or was cancelled with the drawer (closeDrawers); a closed picker  *)
(* forgets its own; the country and the playlist in force are options of   *)
(* their selects, whatever was loaded since they were chosen.              *)
FiltersShown ==
  /\ box # search => timer \/ cut
  /\ IF target = 0 THEN pickerSearch = "" /\ pickerBox = ""
     ELSE pickerBox # pickerSearch => pickerTimer
  /\ country \in countries \union {None} /\ countries = Countries(list.ids)
  /\ IF offered = <<>> THEN selected = None ELSE selected \in ToSet(offered)

\* Where the comment above the sort puts a section.
Place(t, ms) ==
  IF t \in ToSet(Categories) THEN <<0, CHOOSE i \in DOMAIN Categories : Categories[i] = t>>
  ELSE IF GroupOrder(t, ms) > 0 THEN <<1, GroupOrder(t, ms)>> ELSE <<2, Rank[t]>>

(* Every match is in one section, known categories come in their order,    *)
(* then the panel's by its index, then the others by name (the comparator  *)
(* of renderChannelList against the comment above it).                     *)
SectionsInOrder ==
  /\ ToSet(view.sections) = TypesIn(view.matches)
  /\ \A i, j \in DOMAIN view.sections : i < j =>
       LET p == Place(view.sections[i], view.matches)
           q == Place(view.sections[j], view.matches)
       IN p[1] < q[1] \/ (p[1] = q[1] /\ p[2] <= q[2] /\ view.sections[i] # view.sections[j])

(* The page in one invariant: types, what it shows and what filters it.    *)
ViewOK == TypeOK /\ ViewIsCurrent /\ FiltersShown
=============================================================================
