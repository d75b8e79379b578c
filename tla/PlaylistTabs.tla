---------------------------- MODULE PlaylistTabs ----------------------------
(***************************************************************************)
(* Three tabs of the form for a channel: "Xtream Codes", "Playlist" and    *)
(* "Channel List" (web/static/xtream.js, playlist-tab.js,                  *)
(* channel-list-tab.js, setAddTab of modals.js).  Each shows the saved     *)
(* playlists as the server listed them when the tab was shown last.        *)
(*                                                                         *)
(* Requests are handled in any order and answered in any order, by         *)
(* whatever the tab shows by then; any may fail, before the server has     *)
(* done what it was asked or after.  A click outside a text field that is  *)
(* edited takes the focus from it first.  The form for a new playlist, the *)
(* clipboard and messages are left out; the channels, which the page loads *)
(* anew after an import and a deletion, are Library's.                     *)
(***************************************************************************)
EXTENDS Integers, FiniteSets, FiniteSetsExt, Functions

CONSTANTS
  MaxPlaylists,     \* bound: playlists saved
  Text,             \* names and addresses
  FirstText,        \* those of a playlist that was not edited
  Freq, Type,       \* update_freq and stream_type in use
  MaxActions        \* bound: actions of the user

ASSUME PlaylistTabsAssumption ==
  /\ MaxPlaylists \in Nat /\ MaxActions \in Nat /\ FirstText \in Text \ {""}
  /\ "manual" \in Freq /\ "ts" \in Type /\ "" \notin Freq \union Type

Playlist == 1 .. MaxPlaylists     \* in the order they are saved
Field    == {"name", "server"}
Button   == {"select", "refresh", "save"}
Tab      == {"manual", "xtream", "playlist", "channels"}

VARIABLES
  saved,      \* the server's table: id -> name, server, freq, type, imported
  minted,     \* ids the server has given so far
  calls,      \* requests under way
  tab,        \* the tab that is shown, "closed" without the form
  loaded,     \* xtream.js: loadedPlaylists
  options,    \* the playlists its select offers
  chosen,     \* els.xtreamSaved.value, 0 for none
  settings,   \* its two other selects: shown, freq, type
  busy,       \* buttons that wait for an answer
  rows,       \* playlist-tab.js: the rows as they read
  edit,       \* the text field open in a row: at, field, from, text
  filter,     \* channel-list-tab.js: its select, 0 for the placeholder
  offered,    \* the playlists that select offers
  listing,    \* the playlist whose channels are listed, 0 for none
  acts,       \* actions of the user so far
  behind,     \* history: since a tab was shown with no request under way, one
              \* failed or crossed another of which one writes, the selection
              \* left a setting under way, or rows were drawn under a field
  confirmed   \* history: texts the user has confirmed, or was typing when the
              \* rows were drawn anew

server   == <<saved, minted>>
xtream   == <<loaded, options, chosen, settings, busy>>
manage   == <<rows, edit>>
channels == <<filter, offered, listing>>
vars == <<server, calls, tab, xtream, manage, channels, acts, behind, confirmed>>

NoEdit == [at |-> 0, field |-> "", from |-> "", text |-> ""]
NoBody == [name |-> "", server |-> "", freq |-> "", type |-> ""]
Fresh(imported) == [name |-> FirstText, server |-> FirstText, freq |-> "manual",
                    type |-> "ts", imported |-> imported]

\* Wrong on purpose: another type of streams is updated by hand again.
PatchedAnew(p, body) ==
  [f \in DOMAIN p |->
     CASE f = "freq" /\ body.type \notin {"", p.type} -> "manual"
       [] f \in DOMAIN body /\ body[f] # "" -> body[f]
       [] OTHER -> p[f]]

\* The fields a body has, the others as they were (UpdatePlaylistFields).
Patched(p, body) ==
  [f \in DOMAIN p |-> IF f \in DOMAIN body /\ body[f] # "" THEN body[f] ELSE p[f]]

Newest(list) == IF DOMAIN list = {} THEN 0 ELSE Max(DOMAIN list)

Init ==
  /\ minted \in 1 .. MaxPlaylists
  /\ \E late \in BOOLEAN : saved = [p \in 1 .. minted |-> Fresh(p > 1 \/ late)]
  /\ calls = {} /\ tab = "manual"
  /\ loaded = <<>> /\ options = {} /\ chosen = 0 /\ busy = {}
  /\ settings = [shown |-> FALSE, freq |-> "manual", type |-> "ts"]
  /\ rows = <<>> /\ edit = NoEdit
  /\ filter = 0 /\ offered = {} /\ listing = 0
  /\ acts = 0 /\ behind = FALSE
  /\ confirmed = Playlist \X Field \X {FirstText}

-----------------------------------------------------------------------------
(* Requests.  r.live: the row or cached playlist it was sent for is still   *)
(* the one the page shows.  r.no tells equal ones apart.                   *)

Writes == {"refresh", "create", "patch", "edit", "delete"}

Call(kind, id, body, button) ==
  [kind |-> kind, id |-> id, body |-> body, button |-> button, live |-> TRUE,
   stage |-> "sent", data |-> <<>>, no |-> 0]

Load(kind) == Call(kind, 0, NoBody, "")

\* Requests new join the set old.
Added(old, new) ==
  LET free == CHOOSE n \in 0 .. 2 * MaxActions : \A r \in old : r.no # n
  IN old \union {[r EXCEPT !.no = free] : r \in new}

Send(old, new) ==
  /\ calls' = Added(old, new)
  /\ behind' = (behind \/ \E r \in new, q \in old : {r.kind, q.kind} \intersect Writes # {})

Saved(r) ==
  CASE r.kind = "refresh" -> [saved EXCEPT ![r.id].imported = TRUE]
    [] r.kind \in {"patch", "edit"} -> [saved EXCEPT ![r.id] = Patched(@, r.body)]
    [] r.kind = "delete" -> Restrict(saved, DOMAIN saved \ {r.id})
    [] OTHER -> saved

Done(r, stage) ==
  /\ saved' = Saved(r)
  /\ calls' = (calls \ {r}) \union
       {[r EXCEPT !.stage = stage, !.data = IF stage = "ok" THEN saved' ELSE <<>>]}
  /\ UNCHANGED minted

\* The handlers of main.go.  A new playlist is saved before it is imported.
Serve(r) ==
  /\ r.stage = "sent"
  /\ \/ /\ r.kind # "create" /\ (r.id = 0 \/ r.id \in DOMAIN saved)
        /\ \E stage \in {"ok", "failed"} : Done(r, stage)
     \/ /\ r.kind = "create" /\ minted < MaxPlaylists /\ minted' = minted + 1
        /\ \E ok \in BOOLEAN :
             /\ saved' = [p \in DOMAIN saved \union {minted'} |->
                            IF p = minted' THEN Fresh(ok) ELSE saved[p]]
             /\ calls' = (calls \ {r}) \union
                  {[r EXCEPT !.id = minted', !.stage = IF ok THEN "ok" ELSE "failed"]}
     \/ /\ calls' = (calls \ {r}) \union {[r EXCEPT !.stage = "failed"]}
        /\ UNCHANGED server
  /\ UNCHANGED <<tab, xtream, manage, channels, acts, behind, confirmed>>

-----------------------------------------------------------------------------
(* The Xtream Codes tab. *)

\* syncSettings for the playlist p of a list.
SyncSettings(list, p) ==
  settings' = IF p = 0 THEN [settings EXCEPT !.shown = FALSE]
              ELSE [shown |-> TRUE, freq |-> list[p].freq, type |-> list[p].type]

Detached(rs, kind) == {[r EXCEPT !.live = @ /\ r.kind # kind] : r \in rs}

\* A list is cached and offered, and the settings of its first entry shown; the
\* objects that patches were sent for are no longer the cached ones.
RenderSaved(r) ==
  /\ loaded' = r.data /\ options' = DOMAIN r.data
  /\ SyncSettings(r.data, Newest(r.data))
  /\ calls' = Detached(calls \ {r}, "patch")

\* initXtreamTab answered; the list that is loaded after a save then has the
\* new playlist selected, or is ignored when the request fails altogether.
XtreamListAnswered(r) ==
  /\ r.stage # "sent"
  /\ \/ /\ r.kind = "xtreamList"
        /\ RenderSaved(r) /\ chosen' = Newest(r.data)
     \/ /\ r.kind = "savedList"
        /\ RenderSaved(r) /\ chosen' = IF r.id \in DOMAIN r.data THEN r.id ELSE 0
     \/ /\ r.kind = "savedList" /\ r.stage = "failed"
        /\ calls' = calls \ {r} /\ UNCHANGED <<loaded, options, chosen, settings>>
  /\ behind' = (behind \/ r.stage = "failed")
  /\ UNCHANGED <<server, tab, busy, manage, channels, acts, confirmed>>

\* setBusy puts a spinner, or the old text, into the button: a select loses its
\* options to either.
SetBusy(button, on) ==
  /\ busy' = IF on THEN busy \union {button} ELSE busy \ {button}
  /\ IF button = "select" THEN options' = {} /\ chosen' = 0
                          ELSE UNCHANGED <<options, chosen>>

ImportPlaylist(id, button) ==
  /\ SetBusy(button, TRUE)
  /\ Send(calls, {Call("refresh", id, NoBody, button)})

\* Wrong on purpose: a failure leaves the button as it is.
ImportAnsweredBusy(r) ==
  /\ r.kind = "refresh" /\ r.stage # "sent"
  /\ IF r.stage = "ok"
       THEN SetBusy(r.button, FALSE) /\ Send(calls \ {r}, {Load("xtreamList")})
       ELSE /\ calls' = calls \ {r} /\ behind' = TRUE
            /\ UNCHANGED <<busy, options, chosen>>
  /\ UNCHANGED <<server, tab, loaded, settings, manage, channels, acts, confirmed>>

ImportAnswered(r) ==
  /\ r.kind = "refresh" /\ r.stage # "sent"
  /\ SetBusy(r.button, FALSE)
  /\ IF r.stage = "ok"
       THEN Send(calls \ {r}, {Load("xtreamList")})
       ELSE calls' = calls \ {r} /\ behind' = TRUE
  /\ UNCHANGED <<server, tab, loaded, settings, manage, channels, acts, confirmed>>

\* A playlist is selected; one without channels is imported.
ChangeSaved(p) ==
  /\ p \in options \ {chosen} /\ "select" \notin busy
  /\ SyncSettings(loaded, p)
  /\ IF loaded[p].imported
       THEN /\ chosen' = p /\ UNCHANGED <<options, busy, calls>>
            /\ behind' = (behind \/ \E r \in calls : r.kind = "patch")
       ELSE ImportPlaylist(p, "select")
  /\ UNCHANGED <<server, tab, loaded, manage, channels, confirmed>>

Refresh ==
  /\ chosen # 0 /\ "refresh" \notin busy
  /\ ImportPlaylist(chosen, "refresh")
  /\ UNCHANGED <<server, tab, loaded, settings, manage, channels, confirmed>>

\* "Save & Import".
Save ==
  /\ "save" \notin busy
  /\ SetBusy("save", TRUE)
  /\ Send(calls, {Call("create", 0, NoBody, "save")})
  /\ UNCHANGED <<server, tab, loaded, settings, manage, channels, confirmed>>

SaveAnswered(r) ==
  /\ r.kind = "create" /\ r.stage # "sent"
  /\ SetBusy("save", FALSE)
  /\ IF r.stage = "ok"
       THEN Send(calls \ {r}, {Call("savedList", r.id, NoBody, "")})
       ELSE calls' = calls \ {r} /\ behind' = TRUE
  /\ UNCHANGED <<server, tab, loaded, settings, manage, channels, acts, confirmed>>

\* patchSettings: both settings are sent, whichever was changed.
ChangeSetting(freq, type) ==
  /\ settings.shown /\ settings' = [settings EXCEPT !.freq = freq, !.type = type]
  /\ settings'.freq = settings.freq <=> settings'.type # settings.type
  /\ IF chosen = 0 THEN UNCHANGED calls /\ behind' = TRUE
     ELSE Send(calls, {Call("patch", chosen, [NoBody EXCEPT !.freq = freq, !.type = type], "")})
  /\ UNCHANGED <<server, tab, loaded, options, chosen, busy, manage, channels, confirmed>>

PatchAnswered(r) ==
  /\ r.kind = "patch" /\ r.stage # "sent"
  /\ calls' = calls \ {r} /\ behind' = (behind \/ r.stage = "failed")
  /\ loaded' = IF r.stage = "ok" /\ r.live
                 THEN [loaded EXCEPT ![r.id].freq = r.data[r.id].freq,
                                     ![r.id].type = r.data[r.id].type]
                 ELSE loaded
  /\ UNCHANGED <<server, tab, options, chosen, settings, busy, manage, channels, acts, confirmed>>

-----------------------------------------------------------------------------
(* The Playlist tab. *)

\* onSave of the field that is open, for a text that is neither blank nor the
\* one it had.
Saves(save) ==
  IF save /\ edit.text \notin {"", edit.from}
    THEN {Call("edit", edit.at, [NoBody EXCEPT ![edit.field] = edit.text], "")}
    ELSE {}

StartEdit(p, f) ==
  /\ p \in DOMAIN rows
  /\ edit' = [at |-> p, field |-> f, from |-> rows[p][f], text |-> rows[p][f]]
  /\ UNCHANGED <<server, calls, tab, xtream, rows, channels, behind, confirmed>>

TypeText(text) ==
  /\ edit # NoEdit /\ edit' = [edit EXCEPT !.text = text]
  /\ UNCHANGED <<server, calls, tab, xtream, rows, channels, behind, confirmed>>

\* Wrong on purpose: the field taken out of the page loses the focus, which
\* saves what Escape has discarded.
FinishAgain(save) ==
  /\ edit # NoEdit /\ edit' = NoEdit
  /\ Send(calls, Saves(TRUE))
  /\ tab' = IF save THEN tab ELSE "closed"
  /\ confirmed' = IF save THEN confirmed \union {<<edit.at, edit.field, edit.text>>} ELSE confirmed
  /\ UNCHANGED <<server, xtream, rows, channels>>

\* finish: by Enter or the loss of the focus, or by Escape, which goes on to
\* close the form.  What it does to the focus itself finds done set.
Finish(save) ==
  /\ edit # NoEdit /\ edit' = NoEdit
  /\ Send(calls, Saves(save))
  /\ tab' = IF save THEN tab ELSE "closed"
  /\ confirmed' = IF save THEN confirmed \union {<<edit.at, edit.field, edit.text>>} ELSE confirmed
  /\ UNCHANGED <<server, xtream, rows, channels>>

ChangeRowType(p, type) ==
  /\ p \in DOMAIN rows /\ rows[p].type # type
  /\ rows' = [rows EXCEPT ![p].type = type]
  /\ Send(calls, {Call("edit", p, [NoBody EXCEPT !.type = type], "")})
  /\ UNCHANGED <<server, tab, xtream, edit, channels, confirmed>>

RemovePlaylist(p) ==
  /\ p \in DOMAIN rows
  /\ Send(calls, {Call("delete", p, NoBody, "")})
  /\ UNCHANGED <<server, tab, xtream, manage, channels, confirmed>>

\* Wrong on purpose: a failed edit is not discarded.
EditAnsweredKeeps(r) ==
  /\ r.kind = "edit" /\ r.stage # "sent"
  /\ calls' = calls \ {r} /\ UNCHANGED behind
  /\ rows' = IF r.stage = "ok" /\ r.live
               THEN [rows EXCEPT ![r.id] = Patched(@, [r.body EXCEPT !.type = ""])]
               ELSE rows
  /\ UNCHANGED <<server, tab, xtream, edit, channels, acts, confirmed>>

\* patchPlaylist answered: a name or address is shown, a failure loads the list.
EditAnswered(r) ==
  /\ r.kind = "edit" /\ r.stage # "sent"
  /\ Send(calls \ {r}, IF r.stage = "ok" THEN {} ELSE {Load("playlistList")})
  /\ rows' = IF r.stage = "ok" /\ r.live
               THEN [rows EXCEPT ![r.id] = Patched(@, [r.body EXCEPT !.type = ""])]
               ELSE rows
  /\ UNCHANGED <<server, tab, xtream, edit, channels, acts, confirmed>>

DeleteAnswered(r) ==
  /\ r.kind = "delete" /\ r.stage # "sent"
  /\ Send(calls \ {r}, {Load("playlistList")})
  /\ UNCHANGED <<server, tab, xtream, manage, channels, acts, confirmed>>

\* initPlaylistTab answered: the rows are drawn anew.  A field that is open goes
\* with its row, and the browser may tell it that it loses the focus.
PlaylistListAnswered(r) ==
  /\ r.kind = "playlistList" /\ r.stage # "sent"
  /\ rows' = [p \in DOMAIN r.data |-> Restrict(r.data[p], {"name", "server", "type"})]
  /\ edit' = NoEdit
  /\ \E blurs \in BOOLEAN :
       calls' = Added(Detached(calls \ {r}, "edit"),
                      {[s EXCEPT !.live = FALSE] : s \in Saves(blurs /\ edit # NoEdit)})
  /\ behind' = (behind \/ r.stage = "failed" \/ edit # NoEdit)
  /\ confirmed' = confirmed \union {<<e.at, e.field, e.text>> : e \in {edit} \ {NoEdit}}
  /\ UNCHANGED <<server, tab, xtream, channels, acts>>

-----------------------------------------------------------------------------
(* The Channel List tab. *)

Render == listing' = filter'

\* populateDropdown keeps a selection that is still there; render.
ChannelListAnswered(r) ==
  /\ r.kind = "channelList" /\ r.stage # "sent"
  /\ calls' = calls \ {r} /\ behind' = (behind \/ r.stage = "failed")
  /\ offered' = DOMAIN r.data
  /\ filter' = IF filter \in offered' THEN filter ELSE 0
  /\ Render
  /\ UNCHANGED <<server, tab, xtream, manage, acts, confirmed>>

ChangeFilter(p) ==
  /\ p \in offered \ {filter} /\ filter' = p
  /\ Render
  /\ UNCHANGED <<server, calls, tab, xtream, manage, offered, behind, confirmed>>

-----------------------------------------------------------------------------
ListOf(t) == CASE t = "xtream" -> {Load("xtreamList")}
               [] t = "playlist" -> {Load("playlistList")}
               [] t = "channels" -> {Load("channelList")}
               [] OTHER -> {}

\* setAddTab; openChannelModal shows the tab "manual".  With nothing under way
\* the tab gets what there is.
SetAddTab(t) ==
  /\ tab' = t /\ (tab = "closed" => t = "manual")
  /\ IF calls = {} THEN calls' = Added({}, ListOf(t)) /\ behind' = FALSE
                   ELSE Send(calls, ListOf(t))
  /\ UNCHANGED <<server, xtream, manage, channels, confirmed>>

CloseAddChannel ==
  /\ tab # "closed" /\ tab' = "closed"
  /\ UNCHANGED <<server, calls, xtream, manage, channels, behind, confirmed>>

InXtreamTab ==
  /\ tab = "xtream"
  /\ \/ \E p \in options : ChangeSaved(p)
     \/ Refresh \/ Save
     \/ \E freq \in Freq, type \in Type : ChangeSetting(freq, type)

InPlaylistTab ==
  /\ tab = "playlist"
  /\ \/ \E p \in DOMAIN rows :
          \/ \E f \in Field : StartEdit(p, f)
          \/ \E type \in Type : ChangeRowType(p, type)
          \/ RemovePlaylist(p)

InChannelsTab == tab = "channels" /\ \E p \in offered : ChangeFilter(p)

User ==
  /\ acts < MaxActions /\ acts' = acts + 1
  /\ IF edit # NoEdit
       THEN (\E text \in Text : TypeText(text)) \/ \E save \in BOOLEAN : Finish(save)
       ELSE \/ InXtreamTab \/ InPlaylistTab \/ InChannelsTab
            \/ CloseAddChannel \/ \E t \in Tab : SetAddTab(t)

Answer ==
  \E r \in calls :
    \/ Serve(r)
    \/ XtreamListAnswered(r) \/ ImportAnswered(r) \/ SaveAnswered(r) \/ PatchAnswered(r)
    \/ EditAnswered(r) \/ DeleteAnswered(r) \/ PlaylistListAnswered(r)
    \/ ChannelListAnswered(r)

Next == User \/ Answer

Spec == Init /\ [][Next]_vars

-----------------------------------------------------------------------------
TypeOK ==
  /\ minted \in Playlist /\ DOMAIN saved \subseteq 1 .. minted
  /\ tab \in Tab \union {"closed"} /\ busy \subseteq Button
  /\ options \in {DOMAIN loaded, {}} /\ chosen \in options \union {0}
  /\ filter \in offered \union {0} /\ listing = filter
  /\ edit # NoEdit => edit.at \in DOMAIN rows /\ edit.field \in Field

(* With nothing under way, the tab that is shown agrees with the server:   *)
(* the cached playlists and the settings of the selected one, the rows,    *)
(* the playlists offered.  So it does after an edit that failed, whether   *)
(* or not the server carried it out (patchPlaylist loads the list anew).   *)
(* Only a request that crossed another, the failure of a load, an import   *)
(* or a setting, a selection changed while a setting was under way, or     *)
(* rows drawn anew under a field leave it behind until it is shown again.  *)
AgreesAtRest ==
  calls = {} /\ ~behind =>
    /\ tab = "xtream" => /\ loaded = saved /\ (chosen = 0 <=> saved = <<>>)
                         /\ settings.shown <=> chosen # 0
                         /\ chosen # 0 => /\ settings.freq = saved[chosen].freq
                                          /\ settings.type = saved[chosen].type
    /\ tab = "playlist" => /\ DOMAIN rows = DOMAIN saved
                           /\ \A p \in DOMAIN rows, f \in Field \union {"type"} :
                                rows[p][f] = saved[p][f]
    /\ tab = "channels" => offered = DOMAIN saved

(* A name or address on the server is one the user has confirmed, or was   *)
(* typing when the rows were drawn anew under the field: Escape discards   *)
(* a text although it takes the focus from the field (done in startEdit).  *)
NothingUnconfirmed ==
  \A p \in DOMAIN saved, f \in Field : <<p, f, saved[p][f]>> \in confirmed

(* A settings request writes both settings of the playlist selected; the   *)
(* one that was not changed must be the server's own, or a click on the    *)
(* frequency changes the type of the streams (patchSettings).              *)
OneSettingAtATime ==
  [][\A r \in calls :
       r.kind = "patch" /\ Serve(r) /\ ~behind /\ r.id \in DOMAIN saved =>
         saved'[r.id].freq = saved[r.id].freq \/ saved'[r.id].type = saved[r.id].type]_vars

(* A button waits for a request that is under way, which will give it back *)
(* however it ends: no failure leaves a spinner.  A spinner without a      *)
(* request would turn for ever.                                            *)
BusyUntilAnswered ==
  \A b \in Button : b \in busy <=> \E r \in calls : r.button = b

(* The tabs in one invariant: types and spinners.                          *)
TabsOK == TypeOK /\ BusyUntilAnswered

(* syncSettings "shows the settings block only when a playlist is          *)
(* selected" (xtream.js:75-76).                                            *)
SettingsOfSelected == settings.shown => chosen # 0
=============================================================================
