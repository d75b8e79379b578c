----------------------------- MODULE TabsProofs -----------------------------
(***************************************************************************)
(* Proofs about PlaylistTabs, for any playlists, texts and settings and    *)
(* any number of actions.  As long as nothing has left the tabs behind, a  *)
(* request that writes is the only one under way, so that a list that was  *)
(* answered is the server's; the tab that is shown agrees with the server  *)
(* or waits for the request that will make it agree.                       *)
(***************************************************************************)
EXTENDS PlaylistTabs, TLAPS, WellFoundedInduction

Texts   == Text \union {""}
Freqs   == Freq \union {""}
Types   == Type \union {""}
Lists   == {"xtreamList", "savedList", "playlistList", "channelList"}
Kinds   == Writes \union Lists
Stages  == {"sent", "ok", "failed"}

Row  == [name : Texts, server : Texts, freq : Freq, type : Type, imported : BOOLEAN]
Line == [name : Texts, server : Texts, type : Type]
Body == [name : Texts, server : Texts, freq : Freqs, type : Types]

\* A list of saved playlists.
IsTable(t) ==
  /\ t = [p \in DOMAIN t |-> t[p]] /\ DOMAIN t \subseteq Playlist
  /\ \A p \in DOMAIN t : t[p] \in Row

SavedTyped ==
  /\ minted \in Playlist /\ IsTable(saved) /\ DOMAIN saved \subseteq 1 .. minted
  /\ tab \in Tab \union {"closed"} /\ behind \in BOOLEAN

XtreamTyped ==
  /\ IsTable(loaded) /\ options \in {DOMAIN loaded, {}} /\ chosen \in options \union {0}
  /\ settings \in [shown : BOOLEAN, freq : Freq, type : Type]
  /\ busy \subseteq Button

ManageTyped ==
  /\ rows = [p \in DOMAIN rows |-> rows[p]] /\ DOMAIN rows \subseteq Playlist
  /\ \A p \in DOMAIN rows : rows[p] \in Line
  /\ edit \in [at : Nat, field : Field \union {""}, from : Texts, text : Texts]
  /\ edit # NoEdit => edit.at \in DOMAIN rows /\ edit.field \in Field /\ tab = "playlist"

ChannelsTyped == filter \in offered \union {0} /\ listing = filter

\* The button a request is shown on.
ButtonOf(r) ==
  CASE r.kind = "refresh" -> r.button \in {"select", "refresh"}
    [] r.kind = "create"  -> r.button = "save"
    [] OTHER              -> r.button = ""

\* r has the fields of a request.
IsCall(r) ==
  r = [kind |-> r.kind, id |-> r.id, body |-> r.body, button |-> r.button,
       live |-> r.live, stage |-> r.stage, data |-> r.data, no |-> r.no]

\* A request is what Call made it, and has the answer of its stage.
Request(r) ==
  /\ IsCall(r) /\ r.kind \in Kinds /\ r.body \in Body /\ r.live \in BOOLEAN /\ r.stage \in Stages
  /\ ButtonOf(r) /\ IsTable(r.data)
  /\ r.kind = "patch" => /\ r.body.name = "" /\ r.body.server = ""
                         /\ r.body.freq \in Freq /\ r.body.type \in Type
  /\ r.kind = "edit" => r.body.freq = ""
  /\ r.kind \in {"patch", "edit", "delete", "refresh"} =>
       r.id \in Playlist /\ (r.stage = "ok" => r.id \in DOMAIN r.data \/ r.kind = "delete")
  /\ r.kind \in Lists => r.body = NoBody

\* One request for a button, which waits for it.
Spinners ==
  /\ BusyUntilAnswered
  /\ \A r, q \in calls : r.button = q.button /\ r.button # "" => r = q

\* What is on the server, or on its way there, is confirmed.
Confirmed ==
  /\ NothingUnconfirmed
  /\ Playlist \X Field \X {FirstText} \subseteq confirmed
  /\ \A r \in calls : r.kind = "edit" =>
       \A f \in Field : r.body[f] # "" => <<r.id, f, r.body[f]>> \in confirmed

-----------------------------------------------------------------------------
(* What holds as long as nothing has left the tabs behind. *)

\* A request that writes is the only one; lists that were answered are current.
Orderly ==
  /\ \A r, q \in calls : r.kind \in Writes => r = q
  /\ \A r \in calls : r.kind \in Lists /\ r.stage = "ok" => r.data = saved
  /\ \A r \in calls :
       (r.kind = "create" /\ r.stage = "ok") \/ r.kind = "savedList" =>
         r.id = minted /\ minted \in DOMAIN saved

\* A settings request would change one setting of the playlist.
ChangesOne(r) ==
  r.kind = "patch" /\ r.stage = "sent" /\ r.id \in DOMAIN saved =>
    r.body.freq = saved[r.id].freq \/ r.body.type = saved[r.id].type

SettingsShown ==
  /\ chosen = 0 <=> DOMAIN saved = {}
  /\ settings.shown <=> chosen # 0

XtreamAgrees ==
  /\ loaded = saved /\ SettingsShown
  /\ chosen # 0 => settings.freq = saved[chosen].freq /\ settings.type = saved[chosen].type

\* The tab waits for r, a change of the settings of the playlist selected.
XtreamWaits(r) ==
  /\ r.live
  /\ r.stage = "failed" \/
       /\ SettingsShown /\ r.id = chosen /\ chosen \in DOMAIN loaded
       /\ settings.freq = r.body.freq /\ settings.type = r.body.type
       /\ saved = IF r.stage = "sent" THEN loaded
                  ELSE [loaded EXCEPT ![chosen] = Patched(@, r.body)]
       /\ r.stage = "ok" => r.data = saved

XtreamShown ==
  tab = "xtream" =>
    /\ \A r \in calls : r.kind \notin {"edit", "delete"}
    /\ \A r \in calls : r.kind = "patch" => XtreamWaits(r)
    /\ \/ \E r \in calls : r.kind \in {"xtreamList", "savedList", "refresh", "create", "patch"}
       \/ XtreamAgrees

RowAgrees(p, f) == rows[p][f] = saved[p][f]

RowsAgree ==
  DOMAIN rows = DOMAIN saved /\ \A p \in DOMAIN rows, f \in Field \union {"type"} : RowAgrees(p, f)

\* The tab waits for r, an edit: a type is shown already, a text when it is saved.
RowWaits(r, p, f) ==
  IF f = "type"
    THEN rows[p][f] = IF r.stage = "sent" /\ r.body[f] # "" THEN r.body[f] ELSE saved[p][f]
    ELSE saved[p][f] = IF r.stage = "ok" /\ r.body[f] # "" THEN r.body[f] ELSE rows[p][f]

RowsWait(r) ==
  /\ r.live
  /\ r.stage = "failed" \/
       /\ DOMAIN rows = DOMAIN saved /\ r.id \in DOMAIN rows
       /\ \A p \in DOMAIN rows, f \in Field \union {"type"} :
            IF p = r.id THEN RowWaits(r, p, f) ELSE RowAgrees(p, f)

ManageShown ==
  tab = "playlist" =>
    /\ \A r \in calls : r.kind \notin {"refresh", "create", "patch"}
    /\ \A r \in calls : r.kind = "edit" => RowsWait(r)
    /\ \/ \E r \in calls : r.kind \in {"playlistList", "delete", "edit"}
       \/ RowsAgree

ChannelsShown ==
  tab = "channels" =>
    /\ \A r \in calls : r.kind \notin Writes
    /\ (\E r \in calls : r.kind = "channelList") \/ offered = DOMAIN saved

TabsInv ==
  /\ SavedTyped /\ XtreamTyped /\ ManageTyped /\ ChannelsTyped
  /\ \A r \in calls : Request(r)
  /\ Spinners /\ Confirmed
  /\ ~behind => /\ Orderly /\ \A r \in calls : ChangesOne(r)
                /\ XtreamShown /\ ManageShown /\ ChannelsShown

-----------------------------------------------------------------------------
(* Lists and requests. *)

LEMMA PlaylistsAreNumbers == Playlist \subseteq Nat /\ 0 \notin Playlist
  BY DEF Playlist

\* The newest playlist is one of the list.
LEMMA NewestListed ==
  ASSUME NEW t, DOMAIN t \subseteq Playlist, DOMAIN t # {}
  PROVE  Newest(t) \in DOMAIN t /\ \A p \in DOMAIN t : Newest(t) >= p
<1> DEFINE D == DOMAIN t
           Above == {MaxPlaylists - p : p \in D}
<1>1. MaxPlaylists \in Nat /\ D \subseteq Nat /\ \A p \in D : p <= MaxPlaylists
  <2>1. MaxPlaylists \in Nat
    BY PlaylistTabsAssumption
  <2>2. \A p \in D : p \in 1 .. MaxPlaylists
    BY DEF Playlist
  <2> QED BY <2>1, <2>2
<1>2. Above \subseteq Nat /\ Above # {}
  BY <1>1
<1>3. PICK least \in Above : \A n \in Above : <<n, least>> \notin OpToRel(<, Nat)
  BY <1>2, NatLessThanWellFounded, WFMin
<1>4. PICK p \in D : least = MaxPlaylists - p
  BY <1>3
<1>5. \A q \in D : p >= q
  <2> SUFFICES ASSUME NEW q \in D PROVE p >= q
    OBVIOUS
  <2>1. ~(MaxPlaylists - q < MaxPlaylists - p)
    BY <1>2, <1>3, <1>4 DEF OpToRel
  <2> QED BY <1>1, <2>1
<1>6. Newest(t) \in D /\ \A q \in D : Newest(t) >= q
  BY <1>5 DEF Newest, Max
<1> QED BY <1>6

LEMMA NewestIs ==
  ASSUME NEW t, DOMAIN t \subseteq Playlist, NEW last \in DOMAIN t,
         \A p \in DOMAIN t : p <= last
  PROVE  Newest(t) = last
<1>1. Newest(t) \in DOMAIN t /\ Newest(t) >= last
  BY NewestListed
<1>2. Newest(t) \in Nat /\ last \in Nat /\ Newest(t) <= last
  BY <1>1, PlaylistsAreNumbers
<1> QED BY <1>1, <1>2

LEMMA NewestOrNone ==
  ASSUME NEW t, DOMAIN t \subseteq Playlist
  PROVE  /\ Newest(t) \in DOMAIN t \union {0} /\ 0 \notin DOMAIN t
         /\ Newest(t) = 0 <=> DOMAIN t = {}
<1>1. 0 \notin DOMAIN t
  BY DEF Playlist
<1>2. CASE DOMAIN t = {}
  BY <1>1, <1>2 DEF Newest
<1>3. CASE DOMAIN t # {}
  BY <1>1, <1>3, NewestListed
<1> QED BY <1>2, <1>3

\* A list without playlists is the empty one.
LEMMA EmptyTable ==
  ASSUME NEW t, IsTable(t)
  PROVE  t = <<>> <=> DOMAIN t = {}
  BY DEF IsTable

LEMMA NoneIsTable == IsTable(<<>>)
  BY DEF IsTable

\* A list that is changed in one of its rows.
Rewritten(t, p, body) == [t EXCEPT ![p] = Patched(@, body)]

HasWritten(s, t, p, body) ==
  \A q \in DOMAIN t, f \in Field \union {"freq", "type"} :
    s[q][f] = IF q = p /\ body[f] # "" THEN body[f] ELSE t[q][f]

LEMMA PatchedIsTable ==
  ASSUME NEW t, IsTable(t), NEW p, NEW body \in Body
  PROVE  /\ IsTable(Rewritten(t, p, body)) /\ DOMAIN Rewritten(t, p, body) = DOMAIN t
         /\ HasWritten(Rewritten(t, p, body), t, p, body)
<1> DEFINE s == Rewritten(t, p, body)
<1>1. ASSUME NEW q \in DOMAIN t
      PROVE  /\ Patched(t[q], body) \in Row
             /\ \A f \in {"name", "server", "freq", "type"} :
                  Patched(t[q], body)[f] = IF body[f] # "" THEN body[f] ELSE t[q][f]
  <2>1. t[q] \in Row
    BY DEF IsTable
  <2> QED BY <2>1, PlaylistTabsAssumption DEF Row, Body, Freqs, Types, Patched
<1>2. DOMAIN s = DOMAIN t /\ s = [q \in DOMAIN s |-> s[q]]
  BY DEF Rewritten
<1>3. \A q \in DOMAIN t : s[q] = IF q = p THEN Patched(t[q], body) ELSE t[q]
  BY DEF Rewritten
<1> HIDE DEF s
<1>4. IsTable(s)
  BY <1>1, <1>2, <1>3 DEF IsTable
<1>5. HasWritten(s, t, p, body)
  BY <1>1, <1>3 DEF HasWritten, Field
<1> QED BY <1>2, <1>4, <1>5 DEF s

\* c is a new request.
Sent(c, kind, id, body, button) ==
  /\ IsCall(c) /\ c.kind = kind /\ c.id = id /\ c.body = body /\ c.button = button
  /\ c.live /\ c.stage = "sent" /\ c.data = <<>>

LEMMA Renumbered ==
  ASSUME NEW r, IsCall(r), NEW n
  PROVE  LET c == [r EXCEPT !.no = n]
         IN  /\ IsCall(c) /\ c.kind = r.kind /\ c.id = r.id /\ c.body = r.body
             /\ c.button = r.button /\ c.live = r.live /\ c.stage = r.stage /\ c.data = r.data
  BY DEF IsCall

LEMMA CallIsSent ==
  ASSUME NEW kind, NEW id, NEW body, NEW button
  PROVE  Sent(Call(kind, id, body, button), kind, id, body, button)
<1>0. PICK yes \in BOOLEAN : yes = TRUE
  OBVIOUS
<1>1. PICK zero \in Int : zero = 0
  OBVIOUS
<1> DEFINE c == [kind |-> kind, id |-> id, body |-> body, button |-> button, live |-> yes,
                 stage |-> "sent", data |-> <<>>, no |-> zero]
<1>2. Sent(c, kind, id, body, button)
  BY <1>0, <1>1 DEF Sent, IsCall
<1> QED BY <1>0, <1>1, <1>2 DEF Call

LEMMA AddedOne ==
  ASSUME NEW old, NEW kind, NEW id, NEW body, NEW button
  PROVE  \E c : /\ Sent(c, kind, id, body, button)
                /\ Added(old, {Call(kind, id, body, button)}) = old \union {c}
<1> DEFINE call == Call(kind, id, body, button)
           free == CHOOSE n \in 0 .. 2 * MaxActions : \A r \in old : r.no # n
           c    == [call EXCEPT !.no = free]
<1>1. Added(old, {call}) = old \union {c}
  BY DEF Added
<1>2. Sent(call, kind, id, body, button)
  BY CallIsSent
<1> HIDE DEF call, free
<1>3. Sent(c, kind, id, body, button)
  BY <1>2, Renumbered DEF Sent
<1> QED BY <1>1, <1>3 DEF call

LEMMA SentOne ==
  ASSUME NEW old, NEW kind, NEW id, NEW body, NEW button,
         Send(old, {Call(kind, id, body, button)})
  PROVE  \E c : /\ Sent(c, kind, id, body, button) /\ calls' = old \union {c}
                /\ behind' = (behind \/ \E q \in old : {kind, q.kind} \intersect Writes # {})
<1>1. Call(kind, id, body, button).kind = kind
  BY DEF Call
<1> QED BY <1>1, AddedOne DEF Send

LEMMA JoinedOne ==
  ASSUME NEW old, NEW kind, NEW id, NEW body, NEW button,
         calls' = Added(old, {Call(kind, id, body, button)})
  PROVE  \E c : Sent(c, kind, id, body, button) /\ calls' = old \union {c}
  BY AddedOne

LEMMA SentNone ==
  ASSUME NEW old, behind \in BOOLEAN, Send(old, {})
  PROVE  calls' = old /\ behind' = behind
  BY DEF Send, Added

-----------------------------------------------------------------------------
(* What is shown stays right as long as nothing changes what it is of. *)

LEMMA RowsSame ==
  ASSUME UNCHANGED <<saved, rows>>
  PROVE  /\ \A r : RowsWait(r)' <=> RowsWait(r)
         /\ RowsAgree' <=> RowsAgree
<1>1. \A p, f : RowAgrees(p, f)' <=> RowAgrees(p, f)
  BY DEF RowAgrees
<1>2. \A r, p, f : RowWaits(r, p, f)' <=> RowWaits(r, p, f)
  BY DEF RowWaits
<1> QED BY <1>1, <1>2 DEF RowsWait, RowsAgree

LEMMA XtreamSame ==
  ASSUME UNCHANGED <<saved, loaded, chosen, settings>>
  PROVE  /\ \A r : XtreamWaits(r)' <=> XtreamWaits(r)
         /\ XtreamAgrees' <=> XtreamAgrees
  BY DEF XtreamWaits, XtreamAgrees, SettingsShown

\* The bodies of requests.
LEMMA Bodies ==
  /\ NoBody \in Body
  /\ \A freq \in Freq, type \in Type : [NoBody EXCEPT !.freq = freq, !.type = type] \in Body
  /\ \A type \in Type : [NoBody EXCEPT !.type = type] \in Body
  /\ \A f \in Field, text \in Texts : [NoBody EXCEPT ![f] = text] \in Body
  BY DEF NoBody, Body, Texts, Freqs, Types, Field

LEMMA BodyWith ==
  ASSUME NEW f \in Field, NEW text, NEW g \in Field \union {"type", "freq"}
  PROVE  [NoBody EXCEPT ![f] = text][g] = IF g = f THEN text ELSE ""
<1>1. NoBody.name = "" /\ NoBody.server = "" /\ NoBody.freq = "" /\ NoBody.type = ""
  BY DEF NoBody
<1>2. NoBody[g] = ""
  BY <1>1 DEF Field
<1>3. CASE g = f
  BY <1>3 DEF NoBody, Field
<1>4. CASE g # f
  <2>1. [NoBody EXCEPT ![f] = text][g] = NoBody[g]
    BY <1>4 DEF NoBody, Field
  <2> QED BY <1>2, <1>4, <2>1
<1> QED BY <1>3, <1>4

\* The body of the edit of a text.
TextBody(f, text) == [NoBody EXCEPT ![f] = text]

LEMMA TextBodyHas ==
  ASSUME NEW f \in Field, NEW text \in Texts
  PROVE  /\ TextBody(f, text) \in Body
         /\ \A g \in Field \union {"type", "freq"} :
              TextBody(f, text)[g] = IF g = f THEN text ELSE ""
<1>1. TextBody(f, text) \in Body
  BY Bodies DEF TextBody
<1>2. ASSUME NEW g \in Field \union {"type", "freq"}
      PROVE  TextBody(f, text)[g] = IF g = f THEN text ELSE ""
  BY BodyWith DEF TextBody
<1> QED BY <1>1, <1>2

LEMMA NewRequest ==
  ASSUME NEW c, NEW kind \in Kinds, NEW id, NEW body \in Body, NEW button,
         Sent(c, kind, id, body, button),
         CASE kind = "refresh" -> button \in {"select", "refresh"}
           [] kind = "create"  -> button = "save"
           [] OTHER            -> button = "",
         kind = "patch" => /\ body.name = "" /\ body.server = ""
                           /\ body.freq \in Freq /\ body.type \in Type,
         kind = "edit" => body.freq = "",
         kind \in {"patch", "edit", "delete", "refresh"} => id \in Playlist,
         kind \in Lists => body = NoBody
  PROVE  Request(c)
  BY NoneIsTable DEF Sent, Request, ButtonOf, Stages

\* A request that writes is sent with no other under way, or the tabs are behind.
LEMMA WriteAlone ==
  ASSUME NEW old, NEW kind \in Writes, ~behind',
         behind' = (behind \/ \E q \in old : {kind, q.kind} \intersect Writes # {})
  PROVE  ~behind /\ old = {}
  OBVIOUS

LEMMA ReadAmongReads ==
  ASSUME NEW old, NEW kind, ~behind',
         behind' = (behind \/ \E q \in old : {kind, q.kind} \intersect Writes # {})
  PROVE  ~behind /\ \A q \in old : q.kind \notin Writes
  OBVIOUS

LEMMA SetBusyTyped ==
  ASSUME XtreamTyped, NEW button \in Button, UNCHANGED <<loaded, settings>>,
         SetBusy(button, TRUE) \/ SetBusy(button, FALSE)
  PROVE  /\ XtreamTyped'
         /\ SetBusy(button, TRUE) => busy' = busy \union {button}
         /\ SetBusy(button, FALSE) => busy' = busy \ {button}
         /\ button # "select" => UNCHANGED <<options, chosen>>
<1>1. SetBusy(button, TRUE) => busy' = busy \union {button}
  BY DEF SetBusy
<1>2. SetBusy(button, FALSE) => busy' = busy \ {button}
  BY DEF SetBusy
<1>3. IF button = "select" THEN options' = {} /\ chosen' = 0 ELSE UNCHANGED <<options, chosen>>
  BY DEF SetBusy
<1>4. options' \in {DOMAIN loaded, {}} /\ chosen' \in options' \union {0}
  BY <1>3 DEF XtreamTyped
<1> QED BY <1>1, <1>2, <1>3, <1>4 DEF XtreamTyped

\* A button pressed waits for its request, and is given back with the answer;
\* the other requests have no button.
LEMMA SpinnersOn ==
  ASSUME Spinners, NEW c, calls' = calls \union {c}, c.button \in Button \ busy,
         busy' = busy \union {c.button}
  PROVE  Spinners'
  BY DEF Spinners, BusyUntilAnswered, Button

LEMMA SpinnersOff ==
  ASSUME Spinners, NEW r \in calls, r.button \in Button,
         \A q \in calls' : q \in calls \ {r} \/ q.button = "", calls \ {r} \subseteq calls',
         busy' = busy \ {r.button}
  PROVE  Spinners'
  BY DEF Spinners, BusyUntilAnswered, Button

LEMMA SpinnersQuiet ==
  ASSUME Spinners, UNCHANGED busy,
         \A q \in calls' : q \in calls \/ q.button = "",
         \A q \in calls : q \in calls' \/ q.button = ""
  PROVE  Spinners'
  BY DEF Spinners, BusyUntilAnswered, Button

LEMMA SpinnersMoved ==
  ASSUME Spinners, UNCHANGED busy, NEW r \in calls, NEW c, c.button = r.button,
         calls' = (calls \ {r}) \union {c}
  PROVE  Spinners'
<1>1. BusyUntilAnswered'
  BY DEF Spinners, BusyUntilAnswered
<1>2. ASSUME NEW q1 \in calls', NEW q2 \in calls', q1.button = q2.button, q1.button # ""
      PROVE  q1 = q2
  BY <1>2 DEF Spinners
<1> QED BY <1>1, <1>2 DEF Spinners

-----------------------------------------------------------------------------
(* Requests answered. *)

\* Two requests that differ in whether they are live, and in their number.
Alike(c, r) ==
  /\ IsCall(c) /\ c.kind = r.kind /\ c.id = r.id /\ c.body = r.body
  /\ c.button = r.button /\ c.stage = r.stage /\ c.data = r.data /\ c.live \in BOOLEAN

LEMMA AlikeRequest == ASSUME NEW r, NEW c, Request(r), Alike(c, r) PROVE Request(c)
  BY DEF Request, Alike, ButtonOf

LEMMA LiveSet ==
  ASSUME NEW r, IsCall(r), NEW on \in BOOLEAN
  PROVE  LET c == [r EXCEPT !.live = on] IN Alike(c, r) /\ c.no = r.no /\ c.live = on
  BY DEF IsCall, Alike

\* What becomes of a request when those of a kind are detached.
Left(r, kind) == [r EXCEPT !.live = r.live /\ r.kind # kind]

LEMMA DetachedLeft ==
  ASSUME NEW rs, NEW kind
  PROVE  Detached(rs, kind) = {Left(r, kind) : r \in rs}
  BY DEF Detached, Left

LEMMA LeftAlike ==
  ASSUME NEW r, Request(r), NEW kind
  PROVE  Alike(Left(r, kind), r) /\ (r.kind # kind => Left(r, kind) = r)
<1>1. IsCall(r) /\ r.live \in BOOLEAN
  BY DEF Request
<1>2. PICK on \in BOOLEAN : on = (r.live /\ r.kind # kind)
  OBVIOUS
<1>3. Left(r, kind) = [r EXCEPT !.live = on]
  BY <1>2 DEF Left
<1>4. Alike(Left(r, kind), r)
  BY <1>1, <1>3, LiveSet
<1>5. r.kind # kind => [r EXCEPT !.live = on] = r
  <2>1. r.kind # kind => on = r.live
    BY <1>1, <1>2
  <2> QED BY <1>1, <2>1 DEF IsCall
<1> QED BY <1>3, <1>4, <1>5

LEMMA DetachedAlike ==
  ASSUME NEW rs, \A r \in rs : Request(r), NEW kind
  PROVE  \A c \in Detached(rs, kind) : \E r \in rs : Alike(c, r) /\ c = Left(r, kind)
  BY DetachedLeft, LeftAlike

\* Nothing is detached where no request is of the kind.
LEMMA NoneDetached ==
  ASSUME NEW rs, \A r \in rs : Request(r), NEW kind, \A r \in rs : r.kind # kind
  PROVE  Detached(rs, kind) = rs
<1>1. \A r \in rs : Left(r, kind) = r
  BY LeftAlike
<1> QED BY <1>1, DetachedLeft

\* The row of a text that was saved keeps its type.
Retexted(row, body) == Patched(row, [body EXCEPT !.type = ""])

LEMMA RowPatched ==
  ASSUME NEW row \in Line, NEW body \in Body
  PROVE  /\ Retexted(row, body) \in Line
         /\ Retexted(row, body)["type"] = row["type"]
         /\ \A f \in Field : Retexted(row, body)[f] = IF body[f] # "" THEN body[f] ELSE row[f]
<1> DEFINE b   == [body EXCEPT !.type = ""]
           new == Patched(row, b)
<1>1. /\ b.name = body.name /\ b.server = body.server /\ b.type = "" /\ b.freq = body.freq
      /\ DOMAIN b = {"name", "server", "freq", "type"}
  BY DEF Body, Line
<1>2. /\ DOMAIN row = {"name", "server", "type"}
      /\ row.name \in Texts /\ row.server \in Texts /\ row.type \in Type
      /\ body.name \in Texts /\ body.server \in Texts
  BY DEF Body, Line
<1> HIDE DEF b
<1>3. new = [f \in {"name", "server", "type"} |-> IF b[f] # "" THEN b[f] ELSE row[f]]
  BY <1>1, <1>2 DEF Patched
<1>4. new \in Line
  BY <1>1, <1>2, <1>3 DEF Line
<1>5. \A f \in Field : new[f] = IF body[f] # "" THEN body[f] ELSE row[f]
  BY <1>1, <1>3, ZenonT(30) DEF Field
<1>6. new["type"] = row["type"]
  BY <1>1, <1>3
<1> QED BY <1>4, <1>5, <1>6 DEF b, Retexted

TextAfter(row, body, f) == IF f # "type" /\ body[f] # "" THEN body[f] ELSE row[f]

LEMMA RowRetexted ==
  ASSUME NEW row \in Line, NEW body \in Body,
         NEW f \in Field \union {"type"}
  PROVE  Retexted(row, body)[f] = TextAfter(row, body, f)
<1>0. /\ Retexted(row, body)["type"] = row["type"]
      /\ \A g \in Field : Retexted(row, body)[g] = IF body[g] # "" THEN body[g] ELSE row[g]
  BY RowPatched
<1> DEFINE it == Retexted(row, body)
<1> HIDE DEF it
<1>1. CASE f = "type"
  BY <1>0, <1>1 DEF it, TextAfter
<1>2. CASE f # "type"
  <2>1. f \in Field
    BY <1>2
  <2>2. it[f] = IF body[f] # "" THEN body[f] ELSE row[f]
    BY <1>0, <2>1 DEF it
  <2> QED BY <1>2, <2>2 DEF it, TextAfter
<1> QED BY <1>1, <1>2

WithSettings(row, freq, type) == [row EXCEPT !.freq = freq, !.type = type]

LEMMA SettingsPatched ==
  ASSUME NEW row \in Row, NEW body \in Body,
         body.name = "", body.server = "", body.freq \in Freq, body.type \in Type
  PROVE  /\ Patched(row, body) = WithSettings(row, body.freq, body.type)
         /\ Patched(row, body).freq = body.freq /\ Patched(row, body).type = body.type
<1>1. body.freq # "" /\ body.type # ""
  BY PlaylistTabsAssumption
<1> QED BY <1>1 DEF Row, Body, Patched, WithSettings

\* The cached settings of a playlist are replaced.
Cached(t, p, freq, type) == [t EXCEPT ![p].freq = freq, ![p].type = type]

LEMMA SettingsCached ==
  ASSUME NEW t, IsTable(t), NEW p, NEW freq \in Freq, NEW type \in Type
  PROVE  /\ IsTable(Cached(t, p, freq, type)) /\ DOMAIN Cached(t, p, freq, type) = DOMAIN t
         /\ \A q \in DOMAIN t :
              Cached(t, p, freq, type)[q] = IF q = p THEN WithSettings(t[q], freq, type) ELSE t[q]
<1> DEFINE s == Cached(t, p, freq, type)
<1>1. DOMAIN s = DOMAIN t /\ s = [q \in DOMAIN s |-> s[q]]
  BY DEF Cached
<1>2. \A q \in DOMAIN t : s[q] = IF q = p THEN WithSettings(t[q], freq, type) ELSE t[q]
  BY DEF Cached, WithSettings
<1>3. \A q \in DOMAIN t : WithSettings(t[q], freq, type) \in Row /\ t[q] \in Row
  BY DEF IsTable, Row, WithSettings
<1> HIDE DEF s
<1>4. IsTable(s)
  BY <1>1, <1>2, <1>3 DEF IsTable
<1> QED BY <1>1, <1>2, <1>4 DEF s

LEMMA RequestsDetached ==
  ASSUME NEW rs, \A r \in rs : Request(r), NEW kind
  PROVE  \A c \in Detached(rs, kind) : Request(c)
<1> SUFFICES ASSUME NEW c \in Detached(rs, kind) PROVE Request(c)
  OBVIOUS
<1>1. PICK r \in rs : Alike(c, r)
  BY DetachedAlike
<1> QED BY <1>1, AlikeRequest

LEMMA SpinnersDetached ==
  ASSUME Spinners, UNCHANGED busy, \A q \in calls : Request(q), NEW r \in calls, r.button = "",
         NEW kind, Detached(calls \ {r}, kind) \subseteq calls',
         \A q \in calls' : q \in Detached(calls \ {r}, kind) \/ q.button = ""
  PROVE  Spinners'
<1> DEFINE old == calls \ {r}
<1>1. /\ Detached(old, kind) = {Left(q, kind) : q \in old}
      /\ \A q \in old : Alike(Left(q, kind), q)
  BY DetachedLeft, LeftAlike
<1>2. \A q \in old : Left(q, kind) \in calls' /\ Left(q, kind).button = q.button
  BY <1>1 DEF Alike
<1>3. \A c \in calls' : c.button # "" => \E q \in old : c = Left(q, kind)
  BY <1>1
<1>4. BusyUntilAnswered'
  <2> SUFFICES ASSUME NEW b \in Button
               PROVE  b \in busy' <=> \E q \in calls' : q.button = b
    BY DEF BusyUntilAnswered
  <2>1. b # "" /\ (b \in busy' <=> \E q \in calls : q.button = b)
    BY DEF Spinners, BusyUntilAnswered, Button
  <2>2. (\E q \in calls : q.button = b) <=> (\E q \in old : q.button = b)
    BY <2>1
  <2>3. (\E q \in old : q.button = b) => (\E q \in calls' : q.button = b)
    BY <1>2
  <2>4. (\E q \in calls' : q.button = b) => (\E q \in old : q.button = b)
    BY <1>2, <1>3, <2>1
  <2> QED BY <2>1, <2>3, <2>4
<1>5. ASSUME NEW c \in calls', NEW d \in calls', c.button = d.button, c.button # ""
      PROVE  c = d
  <2>1. PICK q1 \in old : c = Left(q1, kind)
    BY <1>3, <1>5
  <2>2. PICK q2 \in old : d = Left(q2, kind)
    BY <1>3, <1>5
  <2>3. q1 = q2
    BY <1>2, <1>5, <2>1, <2>2 DEF Spinners
  <2> QED BY <2>1, <2>2, <2>3
<1> QED BY <1>4, <1>5 DEF Spinners

\* An edit on its way has texts that are confirmed.
TextsConfirmed(r, known) ==
  r.kind = "edit" => \A f \in Field : r.body[f] # "" => <<r.id, f, r.body[f]>> \in known

LEMMA ConfirmedDetached ==
  ASSUME NEW rs, \A r \in rs : Request(r), NEW kind, NEW known,
         \A r \in rs : TextsConfirmed(r, known)
  PROVE  \A c \in Detached(rs, kind) : TextsConfirmed(c, known)
<1> SUFFICES ASSUME NEW c \in Detached(rs, kind) PROVE TextsConfirmed(c, known)
  OBVIOUS
<1>1. PICK r \in rs : Alike(c, r)
  BY DetachedAlike
<1> QED BY <1>1 DEF Alike, TextsConfirmed

\* The list r is shown, with the playlist selected that r asks for.
Rendered(r) ==
  /\ RenderSaved(r)
  /\ r.kind = "xtreamList" => chosen' = Newest(r.data)
  /\ r.kind = "savedList" => chosen' = IF r.id \in DOMAIN r.data THEN r.id ELSE 0

-----------------------------------------------------------------------------
(* The rows drawn anew, and the field that goes with them. *)

LEMMA RowRestricted ==
  ASSUME NEW row \in Row
  PROVE  LET line == Restrict(row, {"name", "server", "type"})
         IN  line \in Line /\ \A f \in Field \union {"type"} : line[f] = row[f]
<1> DEFINE line == Restrict(row, {"name", "server", "type"})
<1>1. line = [f \in {"name", "server", "type"} |-> row[f]]
  BY DEF Restrict, Row
<1>2. row.name \in Texts /\ row.server \in Texts /\ row.type \in Type
  BY DEF Row
<1>3. line \in Line
  BY <1>1, <1>2 DEF Line
<1>4. \A f \in Field \union {"type"} : line[f] = row[f]
  BY <1>1 DEF Field
<1> QED BY <1>3, <1>4

\* An edit of the text in the field that is open.
IsEditOfField(q) ==
  /\ IsCall(q) /\ q.kind = "edit" /\ q.id = edit.at /\ q.body = TextBody(edit.field, edit.text)
  /\ q.button = "" /\ q.live \in BOOLEAN /\ q.stage = "sent" /\ q.data = <<>>

LEMMA LateAdded ==
  ASSUME NEW old, NEW blurs \in BOOLEAN,
         calls' = Added(old, {[s EXCEPT !.live = FALSE] : s \in Saves(blurs /\ edit # NoEdit)})
  PROVE  /\ old \subseteq calls'
         /\ \A q \in calls' : q \in old \/ (edit # NoEdit /\ IsEditOfField(q))
         /\ edit = NoEdit => calls' = old
<1>1. CASE Saves(blurs /\ edit # NoEdit) = {}
  BY <1>1 DEF Added
<1>2. CASE Saves(blurs /\ edit # NoEdit) # {}
  <2> DEFINE call == Call("edit", edit.at, TextBody(edit.field, edit.text), "")
             free == CHOOSE n \in 0 .. 2 * MaxActions : \A r \in old : r.no # n
             late == [call EXCEPT !.live = FALSE]
  <2>1. edit # NoEdit /\ Saves(blurs /\ edit # NoEdit) = {call}
    BY <1>2 DEF Saves, TextBody
  <2>2. calls' = old \union {[late EXCEPT !.no = free]}
    <3>1. {[s EXCEPT !.live = FALSE] : s \in Saves(blurs /\ edit # NoEdit)} = {late}
      BY <2>1
    <3>2. calls' = Added(old, {late})
      BY <3>1
    <3> HIDE DEF late
    <3> QED BY <3>2 DEF Added
  <2>3. Sent(call, "edit", edit.at, TextBody(edit.field, edit.text), "")
    BY CallIsSent
  <2> HIDE DEF call, free
  <2>4. PICK on \in BOOLEAN : on = FALSE
    OBVIOUS
  <2>5. late = [call EXCEPT !.live = on]
    BY <2>4
  <2>6. IsEditOfField(late)
    BY <2>3, <2>5, LiveSet DEF Sent, Alike, IsEditOfField
  <2> HIDE DEF late
  <2>7. IsEditOfField([late EXCEPT !.no = free])
    BY <2>6, Renumbered DEF IsEditOfField
  <2> QED BY <2>1, <2>2, <2>7
<1> QED BY <1>1, <1>2

LEMMA LateRequest ==
  ASSUME ManageTyped, edit # NoEdit, NEW q, IsEditOfField(q)
  PROVE  /\ Request(q)
         /\ \A known : <<edit.at, edit.field, edit.text>> \in known => TextsConfirmed(q, known)
<1>1. /\ edit.at \in Playlist /\ edit.field \in Field /\ edit.text \in Texts
  BY DEF ManageTyped
<1> DEFINE body == TextBody(edit.field, edit.text)
<1>2. /\ body \in Body
      /\ \A f \in Field \union {"type", "freq"} : body[f] = IF f = edit.field THEN edit.text ELSE ""
  BY <1>1, TextBodyHas
<1>3. body["freq"] = ""
  BY <1>1, <1>2 DEF Field
<1> HIDE DEF body
<1>4. /\ IsCall(q) /\ q.kind = "edit" /\ q.id = edit.at /\ q.body = body
      /\ q.button = "" /\ q.live \in BOOLEAN /\ q.stage = "sent" /\ q.data = <<>>
  BY DEF IsEditOfField, body
<1>5. Request(q)
  BY <1>1, <1>2, <1>3, <1>4, NoneIsTable DEF Request, ButtonOf, Stages, Kinds, Writes,
     Lists
<1>6. \A known : <<edit.at, edit.field, edit.text>> \in known => TextsConfirmed(q, known)
  BY <1>2, <1>4 DEF TextsConfirmed
<1> QED BY <1>5, <1>6

-----------------------------------------------------------------------------
(* Requests that are served. *)

\* c is the request r with another stage, and what it was answered with.
Served(c, r, id, stage, data) ==
  /\ IsCall(c) /\ c.kind = r.kind /\ c.id = id /\ c.body = r.body /\ c.button = r.button
  /\ c.live = r.live /\ c.stage = stage /\ c.data = data

LEMMA ServedFailed ==
  ASSUME NEW r, IsCall(r), NEW stage
  PROVE  Served([r EXCEPT !.stage = stage], r, r.id, stage, r.data)
  BY DEF IsCall, Served

LEMMA ServedDone ==
  ASSUME NEW r, IsCall(r), NEW stage, NEW data
  PROVE  Served([r EXCEPT !.stage = stage, !.data = data], r, r.id, stage, data)
<1> DEFINE s == [r EXCEPT !.stage = stage]
<1>1. Served(s, r, r.id, stage, r.data)
  BY ServedFailed
<1>2. [r EXCEPT !.stage = stage, !.data = data] = [s EXCEPT !.data = data]
  OBVIOUS
<1> HIDE DEF s
<1>3. Served([s EXCEPT !.data = data], r, r.id, stage, data)
  BY <1>1 DEF IsCall, Served
<1> QED BY <1>2, <1>3

LEMMA ServedNew ==
  ASSUME NEW r, IsCall(r), NEW stage, NEW id
  PROVE  Served([r EXCEPT !.id = id, !.stage = stage], r, id, stage, r.data)
<1> DEFINE s == [r EXCEPT !.id = id]
<1>1. Served(s, r, id, r.stage, r.data)
  BY DEF IsCall, Served
<1>2. [r EXCEPT !.id = id, !.stage = stage] = [s EXCEPT !.stage = stage]
  OBVIOUS
<1> HIDE DEF s
<1>3. Served([s EXCEPT !.stage = stage], r, id, stage, r.data)
  BY <1>1 DEF IsCall, Served
<1> QED BY <1>2, <1>3

LEMMA FreshIsRow ==
  ASSUME NEW ok \in BOOLEAN
  PROVE  Fresh(ok) \in Row /\ \A f \in Field : Fresh(ok)[f] = FirstText
<1>1. FirstText \in Texts /\ "manual" \in Freq /\ "ts" \in Type
  BY PlaylistTabsAssumption DEF Texts
<1> QED BY <1>1 DEF Fresh, Row, Field

\* Of the names and addresses in the table new only those an edit brings are new.
OnlyEdited(new, r) ==
  \A q \in DOMAIN new, f \in Field :
    \/ new[q][f] = saved[q][f]
    \/ r.kind = "edit" /\ q = r.id /\ r.body[f] # "" /\ new[q][f] = r.body[f]

\* What is saved of a request: the table is one still, and of the texts only
\* those an edit brings are new.
LEMMA SavedBy ==
  ASSUME IsTable(saved), NEW r, Request(r), r.kind # "create",
         r.id = 0 \/ r.id \in DOMAIN saved
  PROVE  /\ IsTable(Saved(r)) /\ DOMAIN Saved(r) \subseteq DOMAIN saved
         /\ r.kind \in Lists => Saved(r) = saved
         /\ r.kind \in {"refresh", "patch", "edit"} =>
              DOMAIN Saved(r) = DOMAIN saved /\ r.id \in DOMAIN saved
         /\ r.kind \in {"patch", "edit"} =>
              /\ Saved(r) = Rewritten(saved, r.id, r.body)
              /\ HasWritten(Saved(r), saved, r.id, r.body)
         /\ OnlyEdited(Saved(r), r)
<1>0. /\ r.kind \in {"refresh", "patch", "edit", "delete"} => r.id \in DOMAIN saved
      /\ r.kind \in Kinds \ {"create"}
  BY PlaylistsAreNumbers DEF Request
<1>1. CASE r.kind = "refresh"
  <2>1. Saved(r) = [saved EXCEPT ![r.id].imported = TRUE]
    BY <1>1 DEF Saved
  <2>2. /\ DOMAIN Saved(r) = DOMAIN saved /\ Saved(r) = [q \in DOMAIN Saved(r) |-> Saved(r)[q]]
    BY <2>1
  <2> DEFINE Imported(row) == [row EXCEPT !.imported = TRUE]
  <2>3. \A q \in DOMAIN saved : Saved(r)[q] = IF q = r.id THEN Imported(saved[q]) ELSE saved[q]
    BY <2>1
  <2>4. \A row \in Row : Imported(row) \in Row /\ \A f \in Field : Imported(row)[f] = row[f]
    BY DEF Row, Field
  <2> HIDE DEF Imported
  <2>5. ASSUME NEW q \in DOMAIN saved
        PROVE  Saved(r)[q] \in Row /\ \A f \in Field : Saved(r)[q][f] = saved[q][f]
    <3>1. saved[q] \in Row
      BY DEF IsTable
    <3> QED BY <2>3, <2>4, <3>1
  <2>6. IsTable(Saved(r))
    BY <2>2, <2>5 DEF IsTable
  <2>7. OnlyEdited(Saved(r), r)
    BY <2>2, <2>5 DEF OnlyEdited
  <2> QED BY <1>0, <1>1, <2>2, <2>6, <2>7 DEF Lists
<1>2. CASE r.kind \in {"patch", "edit"}
  <2>1. Saved(r) = Rewritten(saved, r.id, r.body)
    BY <1>2 DEF Saved, Rewritten
  <2>2. r.body \in Body /\ r.kind = "patch" => r.body.name = "" /\ r.body.server = ""
    BY DEF Request
  <2>3. /\ IsTable(Saved(r)) /\ DOMAIN Saved(r) = DOMAIN saved
        /\ HasWritten(Saved(r), saved, r.id, r.body)
    <3>1. r.body \in Body
      BY DEF Request
    <3> QED BY <2>1, <3>1, PatchedIsTable
  <2>4. \A f \in Field : r.kind = "patch" => r.body[f] = ""
    BY DEF Request, Field
  <2>5. OnlyEdited(Saved(r), r)
    BY <1>2, <2>3, <2>4 DEF HasWritten, OnlyEdited
  <2> QED BY <1>0, <1>2, <2>1, <2>3, <2>5 DEF Lists
<1>3. CASE r.kind = "delete"
  <2>1. Saved(r) = [q \in DOMAIN saved \ {r.id} |-> saved[q]]
    BY <1>3 DEF Saved, Restrict
  <2>2. IsTable(Saved(r)) /\ DOMAIN Saved(r) \subseteq DOMAIN saved
    BY <2>1 DEF IsTable
  <2>3. OnlyEdited(Saved(r), r)
    BY <2>1 DEF OnlyEdited
  <2> QED BY <1>3, <2>2, <2>3 DEF Lists
<1>4. CASE r.kind \in Lists
  <2>1. Saved(r) = saved
    BY <1>4 DEF Saved, Lists
  <2> QED BY <1>4, <2>1 DEF Lists, OnlyEdited
<1> QED BY <1>0, <1>1, <1>2, <1>3, <1>4 DEF Kinds, Writes

-----------------------------------------------------------------------------
(* Each step of the user keeps the invariant.                              *)

LEMMA TypeTextInv ==
  ASSUME TabsInv, NEW text \in Text, TypeText(text)
  PROVE  TabsInv'
<1> USE DEF TabsInv
<1>1. SavedTyped'
  BY DEF TypeText, server, SavedTyped
<1>2. XtreamTyped'
  BY DEF TypeText, xtream, XtreamTyped
<1>3. ManageTyped'
  <2>1. edit' \in [at : Nat, field : Field \union {""}, from : Texts, text : Texts]
    BY DEF TypeText, ManageTyped, Texts
  <2>2. edit'.at = edit.at /\ edit'.field = edit.field /\ edit # NoEdit
        /\ UNCHANGED <<rows, tab>>
    BY DEF TypeText, ManageTyped
  <2> QED BY <2>1, <2>2 DEF ManageTyped
<1>4. ChannelsTyped'
  BY DEF TypeText, channels, ChannelsTyped
<1>5. (\A q \in calls : Request(q))'
  BY DEF TypeText, Request, ButtonOf
<1>6. Spinners'
  BY DEF TypeText, xtream, Spinners, BusyUntilAnswered, Request, ButtonOf, Button
<1>7. Confirmed'
  BY DEF TypeText, server, Confirmed, NothingUnconfirmed
<1>8. ASSUME ~behind' PROVE Orderly'
  BY <1>8 DEF TypeText, server, Orderly, Writes, Lists
<1>9. ASSUME ~behind' PROVE (\A q \in calls : ChangesOne(q))'
  BY <1>9 DEF TypeText, server, ChangesOne
<1>10. ASSUME ~behind' PROVE XtreamShown'
  BY <1>10, XtreamSame DEF TypeText, server, xtream, XtreamShown
<1>11. ASSUME ~behind' PROVE ManageShown'
  BY <1>11, RowsSame DEF TypeText, server, manage, ManageShown
<1>12. ASSUME ~behind' PROVE ChannelsShown'
  BY <1>12 DEF TypeText, server, channels, ChannelsShown
<1> QED BY <1>1, <1>2, <1>3, <1>4, <1>5, <1>6, <1>7, <1>8, <1>9, <1>10, <1>11, <1>12

LEMMA StartEditInv ==
  ASSUME TabsInv, tab = "playlist", NEW p \in DOMAIN rows, NEW f \in Field, StartEdit(p, f)
  PROVE  TabsInv'
<1> USE DEF TabsInv
<1>1. SavedTyped'
  BY DEF StartEdit, server, SavedTyped
<1>2. XtreamTyped'
  BY DEF StartEdit, xtream, XtreamTyped
<1>3. ManageTyped'
  <2>1. rows[p] \in Line /\ p \in Nat
    BY PlaylistsAreNumbers DEF ManageTyped
  <2>2. edit' = [at |-> p, field |-> f, from |-> rows[p][f], text |-> rows[p][f]]
        /\ UNCHANGED <<rows, tab>>
    BY DEF StartEdit
  <2>3. rows[p][f] \in Texts
    BY <2>1 DEF Field, Line
  <2> QED BY <2>1, <2>2, <2>3 DEF ManageTyped
<1>4. ChannelsTyped'
  BY DEF StartEdit, channels, ChannelsTyped
<1>5. (\A q \in calls : Request(q))'
  BY DEF StartEdit, Request, ButtonOf
<1>6. Spinners'
  BY DEF StartEdit, xtream, Spinners, BusyUntilAnswered, Request, ButtonOf, Button
<1>7. Confirmed'
  BY DEF StartEdit, server, Confirmed, NothingUnconfirmed
<1>8. ASSUME ~behind' PROVE Orderly'
  BY <1>8 DEF StartEdit, server, Orderly, Writes, Lists
<1>9. ASSUME ~behind' PROVE (\A q \in calls : ChangesOne(q))'
  BY <1>9 DEF StartEdit, server, ChangesOne
<1>10. ASSUME ~behind' PROVE XtreamShown'
  BY <1>10, XtreamSame DEF StartEdit, XtreamShown
<1>11. ASSUME ~behind' PROVE ManageShown'
  BY <1>11, RowsSame DEF StartEdit, server, manage, ManageShown
<1>12. ASSUME ~behind' PROVE ChannelsShown'
  BY <1>12 DEF StartEdit, ChannelsShown
<1> QED BY <1>1, <1>2, <1>3, <1>4, <1>5, <1>6, <1>7, <1>8, <1>9, <1>10, <1>11, <1>12

LEMMA ChangeFilterInv ==
  ASSUME TabsInv, NEW p \in offered, ChangeFilter(p)
  PROVE  TabsInv'
<1> USE DEF TabsInv
<1>1. SavedTyped'
  BY DEF ChangeFilter, server, SavedTyped
<1>2. XtreamTyped'
  BY DEF ChangeFilter, xtream, XtreamTyped
<1>3. ManageTyped'
  BY DEF ChangeFilter, manage, ManageTyped
<1>4. ChannelsTyped'
  BY DEF ChangeFilter, Render, ChannelsTyped
<1>5. (\A q \in calls : Request(q))'
  BY DEF ChangeFilter, Request, ButtonOf
<1>6. Spinners'
  BY DEF ChangeFilter, xtream, Spinners, BusyUntilAnswered, Request, ButtonOf, Button
<1>7. Confirmed'
  BY DEF ChangeFilter, server, Confirmed, NothingUnconfirmed
<1>8. ASSUME ~behind' PROVE Orderly'
  BY <1>8 DEF ChangeFilter, server, Orderly, Writes, Lists
<1>9. ASSUME ~behind' PROVE (\A q \in calls : ChangesOne(q))'
  BY <1>9 DEF ChangeFilter, server, ChangesOne
<1>10. ASSUME ~behind' PROVE XtreamShown'
  BY <1>10, XtreamSame DEF ChangeFilter, server, xtream, XtreamShown
<1>11. ASSUME ~behind' PROVE ManageShown'
  BY <1>11, RowsSame DEF ChangeFilter, server, manage, ManageShown
<1>12. ASSUME ~behind' PROVE ChannelsShown'
  BY <1>12 DEF ChangeFilter, server, channels, ChannelsShown
<1> QED BY <1>1, <1>2, <1>3, <1>4, <1>5, <1>6, <1>7, <1>8, <1>9, <1>10, <1>11, <1>12

LEMMA CloseAddChannelInv ==
  ASSUME TabsInv, edit = NoEdit, CloseAddChannel
  PROVE  TabsInv'
<1> USE DEF TabsInv
<1>1. SavedTyped'
  BY DEF CloseAddChannel, server, SavedTyped
<1>2. XtreamTyped'
  BY DEF CloseAddChannel, xtream, XtreamTyped
<1>3. ManageTyped'
  BY DEF CloseAddChannel, manage, ManageTyped
<1>4. ChannelsTyped'
  BY DEF CloseAddChannel, channels, ChannelsTyped
<1>5. (\A q \in calls : Request(q))'
  BY DEF CloseAddChannel, Request, ButtonOf
<1>6. Spinners'
  BY DEF CloseAddChannel, xtream, Spinners, BusyUntilAnswered, Request, ButtonOf, Button
<1>7. Confirmed'
  BY DEF CloseAddChannel, server, Confirmed, NothingUnconfirmed
<1>8. ASSUME ~behind' PROVE Orderly'
  BY <1>8 DEF CloseAddChannel, server, Orderly, Writes, Lists
<1>9. ASSUME ~behind' PROVE (\A q \in calls : ChangesOne(q))'
  BY <1>9 DEF CloseAddChannel, server, ChangesOne
<1>10. ASSUME ~behind' PROVE XtreamShown'
  BY <1>10, XtreamSame DEF CloseAddChannel, XtreamShown
<1>11. ASSUME ~behind' PROVE ManageShown'
  BY <1>11, RowsSame DEF CloseAddChannel, ManageShown
<1>12. ASSUME ~behind' PROVE ChannelsShown'
  BY <1>12 DEF CloseAddChannel, ChannelsShown
<1> QED BY <1>1, <1>2, <1>3, <1>4, <1>5, <1>6, <1>7, <1>8, <1>9, <1>10, <1>11, <1>12

LEMMA RefreshInv ==
  ASSUME TabsInv, tab = "xtream", Refresh
  PROVE  TabsInv'
<1> USE DEF TabsInv
<1>0. PICK c : /\ Sent(c, "refresh", chosen, NoBody, "refresh") /\ calls' = calls \union {c}
               /\ behind' = (behind \/ \E q \in calls : {"refresh", q.kind} \intersect Writes # {})
  BY SentOne DEF Refresh, ImportPlaylist
<1>a. /\ c.kind = "refresh" /\ c.id = chosen /\ c.body = NoBody /\ c.button = "refresh"
      /\ c.stage = "sent" /\ c.live
  BY <1>0 DEF Sent
<1>b. Request(c)
  BY <1>0, Bodies, NewRequest DEF Refresh, Kinds, Lists, Writes, XtreamTyped, IsTable
<1>c. ~behind' => ~behind /\ calls = {}
  BY <1>0, WriteAlone DEF Writes
<1>1. SavedTyped'
  BY <1>0, <1>a, <1>b, <1>c DEF Refresh, server, SavedTyped
<1>2. XtreamTyped'
  <2>1. /\ SetBusy("refresh", TRUE) /\ UNCHANGED <<loaded, settings>> /\ "refresh" \notin busy
    BY DEF Refresh, ImportPlaylist
  <2>2. PICK b \in Button : b = "refresh"
    BY DEF Button
  <2> QED BY <2>1, <2>2, SetBusyTyped
<1>3. ManageTyped'
  BY <1>0, <1>a, <1>b, <1>c DEF Refresh, manage, ManageTyped
<1>4. ChannelsTyped'
  BY <1>0, <1>a, <1>b, <1>c DEF Refresh, channels, ChannelsTyped
<1>5. (\A q \in calls : Request(q))'
  BY <1>0, <1>a, <1>b, <1>c
<1>6. Spinners'
  <2>1. /\ SetBusy("refresh", TRUE) /\ UNCHANGED <<loaded, settings>> /\ "refresh" \notin busy
    BY DEF Refresh, ImportPlaylist
  <2>2. PICK b \in Button : b = "refresh"
    BY DEF Button
  <2>3. busy' = busy \union {c.button} /\ c.button \in Button \ busy
    BY <1>a, <2>1, <2>2, SetBusyTyped
  <2> QED BY <1>0, <2>3, SpinnersOn
<1>7. Confirmed'
  BY <1>0, <1>a, <1>b, <1>c DEF Refresh, server, Confirmed, NothingUnconfirmed
<1>8. ASSUME ~behind' PROVE Orderly'
  BY <1>0, <1>a, <1>b, <1>c, <1>8 DEF Orderly, Writes, Lists
<1>9. ASSUME ~behind' PROVE (\A q \in calls : ChangesOne(q))'
  BY <1>0, <1>a, <1>b, <1>c, <1>9 DEF ChangesOne
<1>10. ASSUME ~behind' PROVE XtreamShown'
  BY <1>0, <1>a, <1>b, <1>c, <1>10, XtreamSame DEF XtreamShown
<1>11. ASSUME ~behind' PROVE ManageShown'
  BY <1>0, <1>a, <1>b, <1>c, <1>11, RowsSame DEF Refresh, ManageShown
<1>12. ASSUME ~behind' PROVE ChannelsShown'
  BY <1>0, <1>a, <1>b, <1>c, <1>12 DEF Refresh, ChannelsShown
<1> QED BY <1>1, <1>2, <1>3, <1>4, <1>5, <1>6, <1>7, <1>8, <1>9, <1>10, <1>11, <1>12

LEMMA SaveInv ==
  ASSUME TabsInv, tab = "xtream", Save
  PROVE  TabsInv'
<1> USE DEF TabsInv
<1>0. PICK c : /\ Sent(c, "create", 0, NoBody, "save") /\ calls' = calls \union {c}
               /\ behind' = (behind \/ \E q \in calls : {"create", q.kind} \intersect Writes # {})
  BY SentOne DEF Save
<1>a. /\ c.kind = "create" /\ c.id = 0 /\ c.body = NoBody /\ c.button = "save"
      /\ c.stage = "sent" /\ c.live
  BY <1>0 DEF Sent
<1>b. Request(c)
  BY <1>0, Bodies, NewRequest DEF Kinds, Writes
<1>c. ~behind' => ~behind /\ calls = {}
  BY <1>0, WriteAlone DEF Writes
<1>1. SavedTyped'
  BY <1>0, <1>a, <1>b, <1>c DEF Save, server, SavedTyped
<1>2. XtreamTyped'
  <2>1. /\ SetBusy("save", TRUE) /\ UNCHANGED <<loaded, settings>> /\ "save" \notin busy
    BY DEF Save
  <2>2. PICK b \in Button : b = "save"
    BY DEF Button
  <2> QED BY <2>1, <2>2, SetBusyTyped
<1>3. ManageTyped'
  BY <1>0, <1>a, <1>b, <1>c DEF Save, manage, ManageTyped
<1>4. ChannelsTyped'
  BY <1>0, <1>a, <1>b, <1>c DEF Save, channels, ChannelsTyped
<1>5. (\A q \in calls : Request(q))'
  BY <1>0, <1>a, <1>b, <1>c
<1>6. Spinners'
  <2>1. /\ SetBusy("save", TRUE) /\ UNCHANGED <<loaded, settings>> /\ "save" \notin busy
    BY DEF Save
  <2>2. PICK b \in Button : b = "save"
    BY DEF Button
  <2>3. busy' = busy \union {c.button} /\ c.button \in Button \ busy
    BY <1>a, <2>1, <2>2, SetBusyTyped
  <2> QED BY <1>0, <2>3, SpinnersOn
<1>7. Confirmed'
  BY <1>0, <1>a, <1>b, <1>c DEF Save, server, Confirmed, NothingUnconfirmed
<1>8. ASSUME ~behind' PROVE Orderly'
  BY <1>0, <1>a, <1>b, <1>c, <1>8 DEF Orderly, Writes, Lists
<1>9. ASSUME ~behind' PROVE (\A q \in calls : ChangesOne(q))'
  BY <1>0, <1>a, <1>b, <1>c, <1>9 DEF ChangesOne
<1>10. ASSUME ~behind' PROVE XtreamShown'
  BY <1>0, <1>a, <1>b, <1>c, <1>10, XtreamSame DEF XtreamShown
<1>11. ASSUME ~behind' PROVE ManageShown'
  BY <1>0, <1>a, <1>b, <1>c, <1>11, RowsSame DEF Save, ManageShown
<1>12. ASSUME ~behind' PROVE ChannelsShown'
  BY <1>0, <1>a, <1>b, <1>c, <1>12 DEF Save, ChannelsShown
<1> QED BY <1>1, <1>2, <1>3, <1>4, <1>5, <1>6, <1>7, <1>8, <1>9, <1>10, <1>11, <1>12

LEMMA RemovePlaylistInv ==
  ASSUME TabsInv, tab = "playlist", NEW p \in DOMAIN rows, RemovePlaylist(p)
  PROVE  TabsInv'
<1> USE DEF TabsInv
<1>0. PICK c : /\ Sent(c, "delete", p, NoBody, "") /\ calls' = calls \union {c}
               /\ behind' = (behind \/ \E q \in calls : {"delete", q.kind} \intersect Writes # {})
  BY SentOne DEF RemovePlaylist
<1>a. /\ c.kind = "delete" /\ c.id = p /\ c.body = NoBody /\ c.button = ""
      /\ c.stage = "sent" /\ c.live
  BY <1>0 DEF Sent
<1>b. Request(c)
  BY <1>0, Bodies, NewRequest DEF Kinds, Writes, ManageTyped
<1>c. ~behind' => ~behind /\ calls = {}
  BY <1>0, WriteAlone DEF Writes
<1>1. SavedTyped'
  BY <1>0, <1>a, <1>b, <1>c DEF RemovePlaylist, server, SavedTyped
<1>2. XtreamTyped'
  BY <1>0, <1>a, <1>b, <1>c DEF RemovePlaylist, xtream, XtreamTyped
<1>3. ManageTyped'
  BY <1>0, <1>a, <1>b, <1>c DEF RemovePlaylist, manage, ManageTyped
<1>4. ChannelsTyped'
  BY <1>0, <1>a, <1>b, <1>c DEF RemovePlaylist, channels, ChannelsTyped
<1>5. (\A q \in calls : Request(q))'
  BY <1>0, <1>a, <1>b, <1>c
<1>6. Spinners'
  BY <1>0, <1>a, SpinnersQuiet DEF RemovePlaylist, xtream
<1>7. Confirmed'
  BY <1>0, <1>a, <1>b, <1>c DEF RemovePlaylist, server, Confirmed, NothingUnconfirmed
<1>8. ASSUME ~behind' PROVE Orderly'
  BY <1>0, <1>a, <1>b, <1>c, <1>8 DEF Orderly, Writes, Lists
<1>9. ASSUME ~behind' PROVE (\A q \in calls : ChangesOne(q))'
  BY <1>0, <1>a, <1>b, <1>c, <1>9 DEF ChangesOne
<1>10. ASSUME ~behind' PROVE XtreamShown'
  BY <1>0, <1>a, <1>b, <1>c, <1>10, XtreamSame DEF RemovePlaylist, XtreamShown
<1>11. ASSUME ~behind' PROVE ManageShown'
  BY <1>0, <1>a, <1>b, <1>c, <1>11, RowsSame DEF ManageShown
<1>12. ASSUME ~behind' PROVE ChannelsShown'
  BY <1>0, <1>a, <1>b, <1>c, <1>12 DEF RemovePlaylist, ChannelsShown
<1> QED BY <1>1, <1>2, <1>3, <1>4, <1>5, <1>6, <1>7, <1>8, <1>9, <1>10, <1>11, <1>12

LEMMA ChangeRowTypeInv ==
  ASSUME TabsInv, tab = "playlist", NEW p \in DOMAIN rows, NEW type \in Type, ChangeRowType(p, type)
  PROVE  TabsInv'
<1> USE DEF TabsInv
<1>0. PICK c : /\ Sent(c, "edit", p, [NoBody EXCEPT !.type = type], "") /\ calls' = calls \union {c}
               /\ behind' = (behind \/ \E q \in calls : {"edit", q.kind} \intersect Writes # {})
  BY SentOne DEF ChangeRowType
<1>a. /\ c.kind = "edit" /\ c.id = p /\ c.body = [NoBody EXCEPT !.type = type] /\ c.button = ""
      /\ c.stage = "sent" /\ c.live
  BY <1>0 DEF Sent
<1>b. Request(c)
  BY <1>0, Bodies, NewRequest DEF Kinds, Lists, Writes, ManageTyped, NoBody
<1>c. ~behind' => ~behind /\ calls = {}
  BY <1>0, WriteAlone DEF Writes
<1>d. \A f \in Field : c.body[f] = ""
  BY <1>a DEF Field, NoBody
<1>e. c.body.type = type /\ type # ""
  BY <1>a, PlaylistTabsAssumption DEF NoBody
<1>f. rows' = [rows EXCEPT ![p].type = type]
  BY DEF ChangeRowType
<1>1. SavedTyped'
  BY <1>0, <1>a, <1>b, <1>c, <1>d, <1>e, <1>f DEF ChangeRowType, server, SavedTyped
<1>2. XtreamTyped'
  BY <1>0, <1>a, <1>b, <1>c, <1>d, <1>e, <1>f DEF ChangeRowType, xtream, XtreamTyped
<1>3. ManageTyped'
  <2>1. \A q \in DOMAIN rows' : rows'[q] \in Line
    BY <1>f DEF ManageTyped, Line
  <2>2. DOMAIN rows' = DOMAIN rows /\ rows' = [q \in DOMAIN rows' |-> rows'[q]]
    BY <1>f
  <2>3. UNCHANGED <<edit, tab>>
    BY DEF ChangeRowType
  <2> QED BY <2>1, <2>2, <2>3 DEF ManageTyped
<1>4. ChannelsTyped'
  BY <1>0, <1>a, <1>b, <1>c, <1>d, <1>e, <1>f DEF ChangeRowType, channels, ChannelsTyped
<1>5. (\A q \in calls : Request(q))'
  BY <1>0, <1>a, <1>b, <1>c, <1>d, <1>e, <1>f
<1>6. Spinners'
  BY <1>0, <1>a, SpinnersQuiet DEF ChangeRowType, xtream
<1>7. Confirmed'
  BY <1>0, <1>a, <1>b, <1>c, <1>d, <1>e, <1>f DEF ChangeRowType, server, Confirmed,
     NothingUnconfirmed
<1>8. ASSUME ~behind' PROVE Orderly'
  BY <1>0, <1>a, <1>b, <1>c, <1>d, <1>e, <1>f, <1>8 DEF Orderly, Writes, Lists
<1>9. ASSUME ~behind' PROVE (\A q \in calls : ChangesOne(q))'
  BY <1>0, <1>a, <1>b, <1>c, <1>d, <1>e, <1>f, <1>9 DEF ChangesOne
<1>10. ASSUME ~behind' PROVE XtreamShown'
  BY <1>0, <1>a, <1>b, <1>c, <1>d, <1>e, <1>f, <1>10, XtreamSame DEF ChangeRowType,
     XtreamShown
<1>11. ASSUME ~behind' PROVE ManageShown'
  <2>1. RowsAgree /\ UNCHANGED saved /\ calls' = {c}
    BY <1>0, <1>c, <1>11 DEF ManageShown, ChangeRowType, server
  <2>2. ASSUME NEW q \in DOMAIN rows, NEW f \in Field \union {"type"}
        PROVE  rows'[q][f] = IF q = p /\ f = "type" THEN type ELSE rows[q][f]
    BY <1>f DEF ManageTyped, Field, Line
  <2>3. DOMAIN rows' = DOMAIN saved
    BY <1>f, <2>1 DEF RowsAgree
  <2>4. ASSUME NEW q \in DOMAIN rows', NEW f \in Field \union {"type"}
        PROVE  IF q = p THEN RowWaits(c, q, f)' ELSE RowAgrees(q, f)'
    <3>1. rows[q][f] = saved[q][f] /\ q \in DOMAIN rows
      BY <2>1, <2>3 DEF RowsAgree, RowAgrees
    <3>2. CASE q = p
      BY <1>a, <1>d, <1>e, <2>1, <2>2, <3>1, <3>2 DEF RowWaits, Field
    <3>3. CASE q # p
      BY <2>1, <2>2, <3>1, <3>3 DEF RowAgrees
    <3> QED BY <3>2, <3>3
  <2>5. RowsWait(c)'
    BY <1>a, <2>1, <2>3, <2>4, <1>f DEF RowsWait
  <2> QED BY <1>a, <2>1, <2>5 DEF ManageShown
<1>12. ASSUME ~behind' PROVE ChannelsShown'
  BY <1>0, <1>a, <1>b, <1>c, <1>d, <1>e, <1>f, <1>12 DEF ChangeRowType, ChannelsShown
<1> QED BY <1>1, <1>2, <1>3, <1>4, <1>5, <1>6, <1>7, <1>8, <1>9, <1>10, <1>11, <1>12

LEMMA ChangeSettingNoneInv ==
  ASSUME TabsInv, tab = "xtream", NEW freq \in Freq, NEW type \in Type, chosen = 0, ChangeSetting(freq, type)
  PROVE  TabsInv'
<1> USE DEF TabsInv
<1>1. SavedTyped'
  BY DEF ChangeSetting, server, SavedTyped
<1>2. XtreamTyped'
  BY DEF ChangeSetting, xtream, XtreamTyped
<1>3. ManageTyped'
  BY DEF ChangeSetting, manage, ManageTyped
<1>4. ChannelsTyped'
  BY DEF ChangeSetting, channels, ChannelsTyped
<1>5. (\A q \in calls : Request(q))'
  BY DEF ChangeSetting, Request, ButtonOf
<1>6. Spinners'
  BY SpinnersQuiet DEF ChangeSetting, xtream
<1>7. Confirmed'
  BY DEF ChangeSetting, server, Confirmed, NothingUnconfirmed
<1>8. ASSUME ~behind' PROVE Orderly'
  BY <1>8 DEF ChangeSetting, Writes, Lists
<1>9. ASSUME ~behind' PROVE (\A q \in calls : ChangesOne(q))'
  BY <1>9 DEF ChangeSetting
<1>10. ASSUME ~behind' PROVE XtreamShown'
  BY <1>10, XtreamSame DEF ChangeSetting, XtreamShown
<1>11. ASSUME ~behind' PROVE ManageShown'
  BY <1>11, RowsSame DEF ChangeSetting, ManageShown
<1>12. ASSUME ~behind' PROVE ChannelsShown'
  BY <1>12 DEF ChangeSetting, ChannelsShown
<1> QED BY <1>1, <1>2, <1>3, <1>4, <1>5, <1>6, <1>7, <1>8, <1>9, <1>10, <1>11, <1>12

LEMMA ChangeSettingInv ==
  ASSUME TabsInv, tab = "xtream", NEW freq \in Freq, NEW type \in Type, chosen # 0, ChangeSetting(freq, type)
  PROVE  TabsInv'
<1> USE DEF TabsInv
<1>0. PICK c : /\ Sent(c, "patch", chosen, [NoBody EXCEPT !.freq = freq, !.type = type], "") /\ calls' = calls \union {c}
               /\ behind' = (behind \/ \E q \in calls : {"patch", q.kind} \intersect Writes # {})
  BY SentOne DEF ChangeSetting
<1>a. /\ c.kind = "patch" /\ c.id = chosen /\ c.body = [NoBody EXCEPT !.freq = freq, !.type = type] /\ c.button = ""
      /\ c.stage = "sent" /\ c.live
  BY <1>0 DEF Sent
<1>b. Request(c)
  BY <1>0, Bodies, NewRequest DEF Kinds, Lists, Writes, XtreamTyped, IsTable, NoBody
<1>c. ~behind' => ~behind /\ calls = {}
  BY <1>0, WriteAlone DEF Writes
<1>d. c.body.freq = freq /\ c.body.type = type
  BY <1>a DEF NoBody
<1>e. /\ settings'.shown = settings.shown /\ settings'.freq = freq /\ settings'.type = type
      /\ freq = settings.freq \/ type = settings.type
  BY DEF ChangeSetting, XtreamTyped
<1>f. ~behind' => XtreamAgrees
  BY <1>c DEF XtreamShown
<1>g. chosen \in DOMAIN loaded
  BY DEF XtreamTyped
<1>1. SavedTyped'
  BY <1>0, <1>a, <1>b, <1>c, <1>d, <1>e, <1>f, <1>g DEF ChangeSetting, server,
     SavedTyped
<1>2. XtreamTyped'
  BY <1>0, <1>a, <1>b, <1>c, <1>d, <1>e, <1>f, <1>g DEF ChangeSetting, xtream,
     XtreamTyped
<1>3. ManageTyped'
  BY <1>0, <1>a, <1>b, <1>c, <1>d, <1>e, <1>f, <1>g DEF ChangeSetting, manage,
     ManageTyped
<1>4. ChannelsTyped'
  BY <1>0, <1>a, <1>b, <1>c, <1>d, <1>e, <1>f, <1>g DEF ChangeSetting, channels,
     ChannelsTyped
<1>5. (\A q \in calls : Request(q))'
  BY <1>0, <1>a, <1>b, <1>c, <1>d, <1>e, <1>f, <1>g
<1>6. Spinners'
  BY <1>0, <1>a, SpinnersQuiet DEF ChangeSetting, xtream
<1>7. Confirmed'
  BY <1>0, <1>a, <1>b, <1>c, <1>d, <1>e, <1>f, <1>g DEF ChangeSetting, server,
     Confirmed, NothingUnconfirmed
<1>8. ASSUME ~behind' PROVE Orderly'
  BY <1>0, <1>a, <1>b, <1>c, <1>d, <1>e, <1>f, <1>g, <1>8 DEF Orderly, Writes, Lists
<1>9. ASSUME ~behind' PROVE (\A q \in calls : ChangesOne(q))'
  <2>1. XtreamAgrees /\ UNCHANGED saved /\ calls' = {c}
    BY <1>0, <1>c, <1>f, <1>9 DEF ChangeSetting, server
  <2>2. c.body.freq = saved[chosen].freq \/ c.body.type = saved[chosen].type
    BY <1>d, <1>e, <2>1 DEF XtreamAgrees
  <2> QED BY <1>a, <2>1, <2>2 DEF ChangesOne
<1>10. ASSUME ~behind' PROVE XtreamShown'
  <2>1. UNCHANGED <<saved, loaded, chosen, tab>> /\ calls' = {c}
    BY <1>0, <1>c, <1>10 DEF ChangeSetting, server
  <2>2. XtreamWaits(c)'
    BY <1>a, <1>d, <1>e, <1>f, <1>g, <1>10, <2>1 DEF XtreamWaits, XtreamAgrees,
       SettingsShown
  <2> QED BY <1>a, <2>1, <2>2 DEF XtreamShown
<1>11. ASSUME ~behind' PROVE ManageShown'
  BY <1>0, <1>a, <1>b, <1>c, <1>d, <1>e, <1>f, <1>g, <1>11, RowsSame DEF ChangeSetting,
     ManageShown
<1>12. ASSUME ~behind' PROVE ChannelsShown'
  BY <1>0, <1>a, <1>b, <1>c, <1>d, <1>e, <1>f, <1>g, <1>12 DEF ChangeSetting,
     ChannelsShown
<1> QED BY <1>1, <1>2, <1>3, <1>4, <1>5, <1>6, <1>7, <1>8, <1>9, <1>10, <1>11, <1>12

LEMMA ChangeSavedImportedInv ==
  ASSUME TabsInv, tab = "xtream", NEW p \in options, loaded[p].imported, ChangeSaved(p)
  PROVE  TabsInv'
<1> USE DEF TabsInv
<1>0. /\ p \in DOMAIN loaded /\ p # 0 /\ chosen' = p /\ calls' = calls
      /\ UNCHANGED <<saved, minted, tab, loaded, options, busy, rows, edit, filter, offered,
                     listing, confirmed>>
  BY PlaylistsAreNumbers DEF ChangeSaved, XtreamTyped, IsTable, server, manage, channels
<1>a. settings' = [shown |-> TRUE, freq |-> loaded[p].freq, type |-> loaded[p].type]
  BY <1>0 DEF ChangeSaved, SyncSettings
<1>b. loaded[p] \in Row
  BY <1>0 DEF XtreamTyped, IsTable
<1>c. behind' = (behind \/ \E r \in calls : r.kind = "patch")
  BY DEF ChangeSaved
<1>1. SavedTyped'
  BY <1>0, <1>b, <1>c DEF SavedTyped
<1>2. XtreamTyped'
  <2>1. settings' \in [shown : BOOLEAN, freq : Freq, type : Type]
    BY <1>a, <1>b DEF Row
  <2> QED BY <1>0, <2>1 DEF XtreamTyped
<1>3. ManageTyped'
  BY <1>0, <1>b, <1>c DEF ManageTyped
<1>4. ChannelsTyped'
  BY <1>0, <1>b, <1>c DEF ChannelsTyped
<1>5. (\A q \in calls : Request(q))'
  BY <1>0, <1>a, <1>b, <1>c
<1>6. Spinners'
  BY <1>0, <1>a, <1>b, <1>c DEF Spinners, BusyUntilAnswered, ButtonOf, Button
<1>7. Confirmed'
  BY <1>0, <1>a, <1>b, <1>c DEF Confirmed, NothingUnconfirmed
<1>8. ASSUME ~behind' PROVE Orderly'
  BY <1>0, <1>a, <1>b, <1>c, <1>8 DEF Orderly
<1>9. ASSUME ~behind' PROVE (\A q \in calls : ChangesOne(q))'
  BY <1>0, <1>b, <1>c, <1>9 DEF ChangesOne
<1>10. ASSUME ~behind' PROVE XtreamShown'
  <2>1. /\ settings'.shown /\ settings'.freq = loaded[p].freq /\ settings'.type = loaded[p].type
    BY <1>a
  <2>2. XtreamAgrees => XtreamAgrees'
    BY <1>0, <2>1 DEF XtreamAgrees, SettingsShown
  <2>3. ~behind /\ \A r \in calls : r.kind # "patch"
    BY <1>c, <1>10
  <2> QED BY <1>0, <2>2, <2>3 DEF XtreamShown
<1>11. ASSUME ~behind' PROVE ManageShown'
  BY <1>0, <1>b, <1>c, <1>11, RowsSame DEF ManageShown
<1>12. ASSUME ~behind' PROVE ChannelsShown'
  BY <1>0, <1>b, <1>c, <1>12 DEF ChannelsShown
<1> QED BY <1>1, <1>2, <1>3, <1>4, <1>5, <1>6, <1>7, <1>8, <1>9, <1>10, <1>11, <1>12

LEMMA ChangeSavedImportInv ==
  ASSUME TabsInv, tab = "xtream", NEW p \in options, ~loaded[p].imported, ChangeSaved(p)
  PROVE  TabsInv'
<1> USE DEF TabsInv
<1>0. PICK c : /\ Sent(c, "refresh", p, NoBody, "select") /\ calls' = calls \union {c}
               /\ behind' = (behind \/ \E q \in calls : {"refresh", q.kind} \intersect Writes # {})
  BY SentOne DEF ChangeSaved, ImportPlaylist
<1>a. /\ c.kind = "refresh" /\ c.id = p /\ c.body = NoBody /\ c.button = "select"
      /\ c.stage = "sent" /\ c.live
  BY <1>0 DEF Sent
<1>b. Request(c)
  BY <1>0, Bodies, NewRequest DEF Kinds, Lists, Writes, XtreamTyped, IsTable
<1>c. ~behind' => ~behind /\ calls = {}
  BY <1>0, WriteAlone DEF Writes
<1>1. SavedTyped'
  BY <1>0, <1>a, <1>b, <1>c DEF ChangeSaved, server, SavedTyped
<1>2. XtreamTyped'
  <2>1. SetBusy("select", TRUE) /\ UNCHANGED loaded
    BY DEF ChangeSaved, ImportPlaylist
  <2>2. /\ options' = {} /\ chosen' = 0 /\ busy' = busy \union {"select"}
    BY <2>1 DEF SetBusy
  <2>3. p \in DOMAIN loaded /\ p # 0
    BY PlaylistsAreNumbers DEF XtreamTyped, IsTable
  <2>4. settings' = [shown |-> TRUE, freq |-> loaded[p].freq, type |-> loaded[p].type]
    BY <2>3 DEF ChangeSaved, SyncSettings
  <2>5. settings' \in [shown : BOOLEAN, freq : Freq, type : Type]
    BY <2>3, <2>4 DEF XtreamTyped, IsTable, Row
  <2> QED BY <2>1, <2>2, <2>5 DEF XtreamTyped, Button
<1>3. ManageTyped'
  BY <1>0, <1>a, <1>b, <1>c DEF ChangeSaved, manage, ManageTyped
<1>4. ChannelsTyped'
  BY <1>0, <1>a, <1>b, <1>c DEF ChangeSaved, channels, ChannelsTyped
<1>5. (\A q \in calls : Request(q))'
  BY <1>0, <1>a, <1>b, <1>c
<1>6. Spinners'
  <2>1. SetBusy("select", TRUE) /\ "select" \notin busy
    BY DEF ChangeSaved, ImportPlaylist
  <2>2. busy' = busy \union {c.button} /\ c.button \in Button \ busy
    BY <1>a, <2>1 DEF SetBusy, Button
  <2> QED BY <1>0, <2>2, SpinnersOn
<1>7. Confirmed'
  BY <1>0, <1>a, <1>b, <1>c DEF ChangeSaved, server, Confirmed, NothingUnconfirmed
<1>8. ASSUME ~behind' PROVE Orderly'
  BY <1>0, <1>a, <1>b, <1>c, <1>8 DEF Orderly, Writes, Lists
<1>9. ASSUME ~behind' PROVE (\A q \in calls : ChangesOne(q))'
  BY <1>0, <1>a, <1>b, <1>c, <1>9 DEF ChangesOne
<1>10. ASSUME ~behind' PROVE XtreamShown'
  BY <1>0, <1>a, <1>b, <1>c, <1>10, XtreamSame DEF XtreamShown
<1>11. ASSUME ~behind' PROVE ManageShown'
  BY <1>0, <1>a, <1>b, <1>c, <1>11, RowsSame DEF ChangeSaved, ManageShown
<1>12. ASSUME ~behind' PROVE ChannelsShown'
  BY <1>0, <1>a, <1>b, <1>c, <1>12 DEF ChangeSaved, ChannelsShown
<1> QED BY <1>1, <1>2, <1>3, <1>4, <1>5, <1>6, <1>7, <1>8, <1>9, <1>10, <1>11, <1>12

LEMMA FinishNoneInv ==
  ASSUME TabsInv, edit # NoEdit, NEW save \in BOOLEAN, Saves(save) = {}, Finish(save)
  PROVE  TabsInv'
<1> USE DEF TabsInv
<1>0. /\ calls' = calls /\ behind' = behind /\ edit' = NoEdit /\ tab' \in {tab, "closed"}
      /\ UNCHANGED <<saved, minted, rows>> /\ UNCHANGED xtream /\ UNCHANGED channels
      /\ confirmed \subseteq confirmed'
  BY SentNone DEF Finish, SavedTyped, server
<1>1. SavedTyped'
  BY <1>0 DEF SavedTyped
<1>2. XtreamTyped'
  BY <1>0 DEF xtream, XtreamTyped
<1>3. ManageTyped'
  BY <1>0 DEF ManageTyped, NoEdit, Texts
<1>4. ChannelsTyped'
  BY <1>0 DEF channels, ChannelsTyped
<1>5. (\A q \in calls : Request(q))'
  BY <1>0 DEF Request, ButtonOf
<1>6. Spinners'
  BY <1>0, SpinnersQuiet DEF xtream
<1>7. Confirmed'
  BY <1>0 DEF Confirmed, NothingUnconfirmed
<1>8. ASSUME ~behind' PROVE Orderly'
  BY <1>0, <1>8 DEF Orderly
<1>9. ASSUME ~behind' PROVE (\A q \in calls : ChangesOne(q))'
  BY <1>0, <1>9 DEF ChangesOne
<1>10. ASSUME ~behind' PROVE XtreamShown'
  BY <1>0, <1>10, XtreamSame DEF xtream, XtreamShown
<1>11. ASSUME ~behind' PROVE ManageShown'
  BY <1>0, <1>11, RowsSame DEF ManageShown
<1>12. ASSUME ~behind' PROVE ChannelsShown'
  BY <1>0, <1>12 DEF channels, ChannelsShown
<1> QED BY <1>1, <1>2, <1>3, <1>4, <1>5, <1>6, <1>7, <1>8, <1>9, <1>10, <1>11, <1>12

LEMMA FinishOneInv ==
  ASSUME TabsInv, edit # NoEdit, NEW save \in BOOLEAN, Saves(save) # {}, Finish(save)
  PROVE  TabsInv'
<1> USE DEF TabsInv
<1>z. /\ edit.at \in DOMAIN rows /\ edit.field \in Field /\ edit.text \in Texts
      /\ tab = "playlist" /\ edit.at \in Playlist
  BY DEF ManageTyped
<1> DEFINE body == TextBody(edit.field, edit.text)
<1>y. /\ body \in Body
      /\ \A f \in Field \union {"type", "freq"} :
           body[f] = IF f = edit.field THEN edit.text ELSE ""
  BY <1>z, TextBodyHas
<1>x. /\ save /\ edit.text # ""
      /\ Saves(save) = {Call("edit", edit.at, body, "")}
  BY DEF Saves, TextBody
<1> HIDE DEF body
<1>w. Send(calls, {Call("edit", edit.at, body, "")})
  BY <1>x DEF Finish
<1>u. body.freq = "" /\ body["type"] = ""
  BY <1>y, <1>z DEF Field
<1>0. PICK c : /\ Sent(c, "edit", edit.at, body, "") /\ calls' = calls \union {c}
               /\ behind' = (behind \/ \E q \in calls : {"edit", q.kind} \intersect Writes # {})
  BY <1>w, SentOne
<1>a. /\ c.kind = "edit" /\ c.id = edit.at /\ c.body = body /\ c.button = ""
      /\ c.stage = "sent" /\ c.live
  BY <1>0 DEF Sent
<1>b. Request(c)
  BY <1>0, <1>u, <1>y, <1>z, NewRequest DEF Kinds, Lists, Writes
<1>c. ~behind' => ~behind /\ calls = {}
  BY <1>0, WriteAlone DEF Writes
<1>e. /\ edit' = NoEdit /\ tab' = tab /\ UNCHANGED <<saved, minted, rows>>
      /\ UNCHANGED xtream /\ UNCHANGED channels
      /\ confirmed' = confirmed \union {<<edit.at, edit.field, edit.text>>}
  BY <1>x DEF Finish, server
<1>1. SavedTyped'
  BY <1>x, <1>w, <1>u, <1>0, <1>a, <1>b, <1>c, <1>e DEF SavedTyped
<1>2. XtreamTyped'
  BY <1>y, <1>x, <1>w, <1>u, <1>0, <1>a, <1>b, <1>c, <1>e DEF xtream, XtreamTyped
<1>3. ManageTyped'
  BY <1>e DEF ManageTyped, NoEdit, Texts
<1>4. ChannelsTyped'
  BY <1>y, <1>x, <1>w, <1>u, <1>0, <1>a, <1>b, <1>c, <1>e DEF channels, ChannelsTyped
<1>5. (\A q \in calls : Request(q))'
  BY <1>y, <1>x, <1>w, <1>u, <1>0, <1>a, <1>b, <1>c, <1>e
<1>6. Spinners'
  BY <1>0, <1>a, <1>e, SpinnersQuiet DEF xtream
<1>7. Confirmed'
  <2>1. \A f \in Field : c.body[f] # "" => <<c.id, f, c.body[f]>> \in confirmed'
    BY <1>a, <1>y, <1>e
  <2> QED BY <1>0, <1>e, <2>1 DEF Confirmed, NothingUnconfirmed
<1>8. ASSUME ~behind' PROVE Orderly'
  BY <1>z, <1>y, <1>x, <1>w, <1>u, <1>0, <1>a, <1>b, <1>c, <1>e, <1>8 DEF Orderly
<1>9. ASSUME ~behind' PROVE (\A q \in calls : ChangesOne(q))'
  BY <1>x, <1>w, <1>u, <1>0, <1>a, <1>b, <1>c, <1>e, <1>9 DEF ChangesOne
<1>10. ASSUME ~behind' PROVE XtreamShown'
  BY <1>z, <1>y, <1>x, <1>w, <1>u, <1>0, <1>a, <1>b, <1>c, <1>e, <1>10, XtreamSame
     DEF XtreamShown
<1>11. ASSUME ~behind' PROVE ManageShown'
  <2>1. RowsAgree /\ UNCHANGED <<saved, rows>> /\ calls' = {c}
    BY <1>0, <1>c, <1>e, <1>z, <1>11 DEF ManageShown
  <2>2. c.body["type"] = ""
    BY <1>a, <1>u
  <2>3. ASSUME NEW p \in DOMAIN rows, NEW f \in Field \union {"type"}
        PROVE  RowAgrees(p, f)' /\ RowWaits(c, p, f)'
    BY <1>a, <2>1, <2>2 DEF RowsAgree, RowAgrees, RowWaits
  <2>4. RowsWait(c)'
    BY <1>a, <1>z, <2>1, <2>3 DEF RowsAgree, RowsWait
  <2> QED BY <1>a, <2>1, <2>4 DEF ManageShown
<1>12. ASSUME ~behind' PROVE ChannelsShown'
  BY <1>z, <1>y, <1>x, <1>w, <1>u, <1>0, <1>a, <1>b, <1>c, <1>e, <1>12 DEF ChannelsShown
<1> QED BY <1>1, <1>2, <1>3, <1>4, <1>5, <1>6, <1>7, <1>8, <1>9, <1>10, <1>11, <1>12

LEMMA SetAddTabManualInv ==
  ASSUME TabsInv, edit = NoEdit, NEW t, t = "manual", SetAddTab(t)
  PROVE  TabsInv'
<1> USE DEF TabsInv
<1>0. calls' = calls /\ (~behind' => ~behind \/ calls = {}) /\ behind' \in BOOLEAN
  <2>1. ListOf(t) = {} /\ Added({}, {}) = {}
    BY DEF ListOf, Added
  <2>2. CASE calls = {}
    BY <2>1, <2>2 DEF SetAddTab
  <2>3. CASE calls # {}
    <3>1. Send(calls, {})
      BY <2>1, <2>3 DEF SetAddTab
    <3> QED BY <3>1, SentNone DEF SavedTyped
  <2> QED BY <2>2, <2>3
<1>a. /\ tab' = "manual" /\ UNCHANGED <<saved, minted, confirmed>>
      /\ UNCHANGED xtream /\ UNCHANGED manage /\ UNCHANGED channels
  BY DEF SetAddTab, server
<1>1. SavedTyped'
  BY <1>0, <1>a DEF SavedTyped, Tab
<1>2. XtreamTyped'
  BY <1>a DEF xtream, XtreamTyped
<1>3. ManageTyped'
  BY <1>a DEF manage, ManageTyped
<1>4. ChannelsTyped'
  BY <1>a DEF channels, ChannelsTyped
<1>5. (\A q \in calls : Request(q))'
  BY <1>0, <1>a
<1>6. Spinners'
  BY <1>0, <1>a, SpinnersQuiet DEF xtream
<1>7. Confirmed'
  BY <1>0, <1>a DEF Confirmed, NothingUnconfirmed
<1>8. ASSUME ~behind' PROVE Orderly'
  BY <1>0, <1>a, <1>8 DEF Orderly
<1>9. ASSUME ~behind' PROVE (\A q \in calls : ChangesOne(q))'
  BY <1>0, <1>a, <1>9 DEF ChangesOne
<1>10. ASSUME ~behind' PROVE XtreamShown'
  BY <1>a, <1>10, XtreamSame DEF XtreamShown
<1>11. ASSUME ~behind' PROVE ManageShown'
  BY <1>a, <1>11, RowsSame DEF ManageShown
<1>12. ASSUME ~behind' PROVE ChannelsShown'
  BY <1>a, <1>12 DEF ChannelsShown
<1> QED BY <1>1, <1>2, <1>3, <1>4, <1>5, <1>6, <1>7, <1>8, <1>9, <1>10, <1>11, <1>12

LEMMA SetAddTabListInv ==
  ASSUME TabsInv, edit = NoEdit, NEW t \in {"xtream", "playlist", "channels"}, SetAddTab(t)
  PROVE  TabsInv'
<1> USE DEF TabsInv
<1>y. PICK kind \in {"xtreamList", "playlistList", "channelList"} :
        /\ ListOf(t) = {Call(kind, 0, NoBody, "")}
        /\ t = "xtream" => kind = "xtreamList"
        /\ t = "playlist" => kind = "playlistList"
        /\ t = "channels" => kind = "channelList"
  BY DEF ListOf, Load
<1>z. /\ kind \in Lists /\ kind \in Kinds /\ kind \notin {"savedList", "patch", "edit", "delete", "refresh", "create"}
       /\ kind \notin Writes
  BY DEF Lists, Kinds, Writes
<1>0. PICK c : /\ Sent(c, kind, 0, NoBody, "") /\ calls' = calls \union {c}
               /\ ~behind' => \A q \in calls : q.kind \notin Writes
               /\ ~behind' => ~behind \/ calls = {}
               /\ behind' \in BOOLEAN
  <2>1. CASE calls = {}
    <3>1. calls' = Added(calls, {Call(kind, 0, NoBody, "")}) /\ behind' = FALSE
      BY <1>y, <2>1 DEF SetAddTab
    <3>2. PICK c : Sent(c, kind, 0, NoBody, "") /\ calls' = calls \union {c}
      BY <3>1, JoinedOne
    <3> QED BY <2>1, <3>1, <3>2
  <2>2. CASE calls # {}
    <3>1. Send(calls, {Call(kind, 0, NoBody, "")})
      BY <1>y, <2>2 DEF SetAddTab
    <3>2. PICK c : /\ Sent(c, kind, 0, NoBody, "") /\ calls' = calls \union {c}
                   /\ behind' = (behind \/ \E q \in calls : {kind, q.kind} \intersect Writes # {})
      BY <3>1, SentOne
    <3> QED BY <3>2 DEF SavedTyped
  <2> QED BY <2>1, <2>2
<1>a. /\ c.kind = kind /\ c.stage = "sent" /\ c.button = ""
  BY <1>0 DEF Sent
<1>b. Request(c)
  BY <1>0, <1>z, Bodies, NewRequest
<1>c. /\ tab' = t /\ UNCHANGED <<saved, minted, confirmed>>
      /\ UNCHANGED xtream /\ UNCHANGED manage /\ UNCHANGED channels
  BY DEF SetAddTab, server
<1>1. SavedTyped'
  BY <1>0, <1>c DEF SavedTyped, Tab
<1>2. XtreamTyped'
  BY <1>z, <1>0, <1>a, <1>b, <1>c DEF xtream, XtreamTyped
<1>3. ManageTyped'
  BY <1>z, <1>0, <1>a, <1>b, <1>c DEF manage, ManageTyped
<1>4. ChannelsTyped'
  BY <1>z, <1>0, <1>a, <1>b, <1>c DEF channels, ChannelsTyped
<1>5. (\A q \in calls : Request(q))'
  BY <1>z, <1>0, <1>a, <1>b, <1>c
<1>6. Spinners'
  BY <1>0, <1>a, <1>c, SpinnersQuiet DEF xtream
<1>7. Confirmed'
  BY <1>z, <1>0, <1>a, <1>b, <1>c DEF Confirmed, NothingUnconfirmed
<1>8. ASSUME ~behind' PROVE Orderly'
  BY <1>y, <1>z, <1>0, <1>a, <1>b, <1>c, <1>8 DEF Orderly
<1>9. ASSUME ~behind' PROVE (\A q \in calls : ChangesOne(q))'
  BY <1>0, <1>a, <1>b, <1>c, <1>9 DEF ChangesOne
<1>10. ASSUME ~behind' PROVE XtreamShown'
  BY <1>y, <1>0, <1>a, <1>c, <1>10 DEF XtreamShown, Writes
<1>11. ASSUME ~behind' PROVE ManageShown'
  BY <1>y, <1>0, <1>a, <1>c, <1>11 DEF ManageShown, Writes
<1>12. ASSUME ~behind' PROVE ChannelsShown'
  BY <1>y, <1>z, <1>0, <1>a, <1>b, <1>c, <1>12 DEF ChannelsShown
<1> QED BY <1>1, <1>2, <1>3, <1>4, <1>5, <1>6, <1>7, <1>8, <1>9, <1>10, <1>11, <1>12

-----------------------------------------------------------------------------
(* So does each answer.                                                    *)

LEMMA ImportOkInv ==
  ASSUME TabsInv, NEW r \in calls, r.stage = "ok", ImportAnswered(r)
  PROVE  TabsInv'
<1> USE DEF TabsInv
<1>z. r.kind = "refresh" /\ r.stage # "sent" /\ Send(calls \ {r}, {Call("xtreamList", 0, NoBody, "")})
  BY DEF ImportAnswered, Load
<1>0. PICK c : /\ Sent(c, "xtreamList", 0, NoBody, "") /\ calls' = (calls \ {r}) \union {c}
               /\ behind' = (behind \/ \E q \in calls \ {r} : {"xtreamList", q.kind} \intersect Writes # {})
  BY <1>z, SentOne
<1>a. c.kind = "xtreamList" /\ c.id = 0 /\ c.body = NoBody /\ c.button = "" /\ c.stage = "sent"
  BY <1>0 DEF Sent
<1>b. Request(c)
  BY <1>0, Bodies, NewRequest DEF Kinds, Lists, NoBody
<1>c. ~behind' => ~behind /\ calls = {r} /\ calls' = {c}
  BY <1>z, <1>0 DEF Orderly, Writes
<1>1. SavedTyped'
  BY <1>z, <1>0, <1>a, <1>b, <1>c DEF ImportAnswered, server, SavedTyped
<1>2. XtreamTyped'
  <2>1. SetBusy(r.button, FALSE) /\ UNCHANGED <<loaded, settings>> /\ r.button \in Button
    BY DEF ImportAnswered, Request, ButtonOf, Button
  <2> QED BY <2>1, SetBusyTyped
<1>3. ManageTyped'
  BY <1>z, <1>0, <1>a, <1>b, <1>c DEF ImportAnswered, manage, ManageTyped
<1>4. ChannelsTyped'
  BY <1>z, <1>0, <1>a, <1>b, <1>c DEF ImportAnswered, channels, ChannelsTyped
<1>5. (\A q \in calls : Request(q))'
  BY <1>z, <1>0, <1>a, <1>b, <1>c
<1>6. Spinners'
  <2>1. SetBusy(r.button, FALSE) /\ UNCHANGED <<loaded, settings>> /\ r.button \in Button
    BY DEF ImportAnswered, Request, ButtonOf, Button
  <2>2. busy' = busy \ {r.button}
    BY <2>1, SetBusyTyped
  <2> QED BY <1>0, <1>a, <2>1, <2>2, SpinnersOff
<1>7. Confirmed'
  BY <1>z, <1>0, <1>a, <1>b, <1>c DEF ImportAnswered, server, Confirmed,
     NothingUnconfirmed
<1>8. ASSUME ~behind' PROVE Orderly'
  BY <1>z, <1>0, <1>a, <1>b, <1>c, <1>8 DEF Orderly, Writes, Lists
<1>9. ASSUME ~behind' PROVE (\A q \in calls : ChangesOne(q))'
  BY <1>z, <1>0, <1>a, <1>b, <1>c, <1>9 DEF ChangesOne
<1>10. ASSUME ~behind' PROVE XtreamShown'
  BY <1>z, <1>0, <1>a, <1>b, <1>c, <1>10, XtreamSame DEF XtreamShown
<1>11. ASSUME ~behind' PROVE ManageShown'
  BY <1>z, <1>0, <1>a, <1>b, <1>c, <1>11, RowsSame DEF ImportAnswered, ManageShown
<1>12. ASSUME ~behind' PROVE ChannelsShown'
  <2>1. r.kind \in Writes /\ tab' = tab
    BY <1>z DEF Writes, ImportAnswered
  <2> QED BY <1>c, <1>12, <2>1 DEF ChannelsShown
<1> QED BY <1>1, <1>2, <1>3, <1>4, <1>5, <1>6, <1>7, <1>8, <1>9, <1>10, <1>11, <1>12

LEMMA ImportFailedInv ==
  ASSUME TabsInv, NEW r \in calls, r.stage # "ok", ImportAnswered(r)
  PROVE  TabsInv'
<1> USE DEF TabsInv
<1>0. calls' = calls \ {r} /\ behind' = TRUE
  BY DEF ImportAnswered
<1>1. SavedTyped'
  BY <1>0 DEF ImportAnswered, server, SavedTyped
<1>2. XtreamTyped'
  <2>1. SetBusy(r.button, FALSE) /\ UNCHANGED <<loaded, settings>> /\ r.button \in Button
    BY DEF ImportAnswered, Request, ButtonOf, Button
  <2> QED BY <2>1, SetBusyTyped
<1>3. ManageTyped'
  BY <1>0 DEF ImportAnswered, manage, ManageTyped
<1>4. ChannelsTyped'
  BY <1>0 DEF ImportAnswered, channels, ChannelsTyped
<1>5. (\A q \in calls : Request(q))'
  BY <1>0
<1>6. Spinners'
  <2>1. SetBusy(r.button, FALSE) /\ UNCHANGED <<loaded, settings>> /\ r.button \in Button
    BY DEF ImportAnswered, Request, ButtonOf, Button
  <2>2. busy' = busy \ {r.button}
    BY <2>1, SetBusyTyped
  <2> QED BY <1>0, <2>1, <2>2, SpinnersOff
<1>7. Confirmed'
  BY <1>0 DEF ImportAnswered, server, Confirmed, NothingUnconfirmed
<1>8. ASSUME ~behind' PROVE Orderly'
  BY <1>0, <1>8 DEF Writes, Lists
<1>9. ASSUME ~behind' PROVE (\A q \in calls : ChangesOne(q))'
  BY <1>0, <1>9
<1>10. ASSUME ~behind' PROVE XtreamShown'
  BY <1>0, <1>10, XtreamSame DEF XtreamShown
<1>11. ASSUME ~behind' PROVE ManageShown'
  BY <1>0, <1>11, RowsSame DEF ManageShown
<1>12. ASSUME ~behind' PROVE ChannelsShown'
  BY <1>0, <1>12 DEF ChannelsShown
<1> QED BY <1>1, <1>2, <1>3, <1>4, <1>5, <1>6, <1>7, <1>8, <1>9, <1>10, <1>11, <1>12

LEMMA SaveOkInv ==
  ASSUME TabsInv, NEW r \in calls, r.stage = "ok", SaveAnswered(r)
  PROVE  TabsInv'
<1> USE DEF TabsInv
<1>z. r.kind = "create" /\ r.stage # "sent" /\ Send(calls \ {r}, {Call("savedList", r.id, NoBody, "")})
  BY DEF SaveAnswered, Load
<1>0. PICK c : /\ Sent(c, "savedList", r.id, NoBody, "") /\ calls' = (calls \ {r}) \union {c}
               /\ behind' = (behind \/ \E q \in calls \ {r} : {"savedList", q.kind} \intersect Writes # {})
  BY <1>z, SentOne
<1>a. c.kind = "savedList" /\ c.id = r.id /\ c.body = NoBody /\ c.button = "" /\ c.stage = "sent"
  BY <1>0 DEF Sent
<1>b. Request(c)
  BY <1>0, Bodies, NewRequest DEF Kinds, Lists, NoBody
<1>c. ~behind' => ~behind /\ calls = {r} /\ calls' = {c}
  BY <1>z, <1>0 DEF Orderly, Writes
<1>1. SavedTyped'
  BY <1>z, <1>0, <1>a, <1>b, <1>c DEF SaveAnswered, server, SavedTyped
<1>2. XtreamTyped'
  <2>1. SetBusy(r.button, FALSE) /\ UNCHANGED <<loaded, settings>> /\ r.button \in Button
    BY DEF SaveAnswered, Request, ButtonOf, Button
  <2> QED BY <2>1, SetBusyTyped
<1>3. ManageTyped'
  BY <1>z, <1>0, <1>a, <1>b, <1>c DEF SaveAnswered, manage, ManageTyped
<1>4. ChannelsTyped'
  BY <1>z, <1>0, <1>a, <1>b, <1>c DEF SaveAnswered, channels, ChannelsTyped
<1>5. (\A q \in calls : Request(q))'
  BY <1>z, <1>0, <1>a, <1>b, <1>c
<1>6. Spinners'
  <2>1. SetBusy(r.button, FALSE) /\ UNCHANGED <<loaded, settings>> /\ r.button \in Button
    BY DEF SaveAnswered, Request, ButtonOf, Button
  <2>2. busy' = busy \ {r.button}
    BY <2>1, SetBusyTyped
  <2> QED BY <1>0, <1>a, <2>1, <2>2, SpinnersOff
<1>7. Confirmed'
  BY <1>z, <1>0, <1>a, <1>b, <1>c DEF SaveAnswered, server, Confirmed,
     NothingUnconfirmed
<1>8. ASSUME ~behind' PROVE Orderly'
  BY <1>z, <1>0, <1>a, <1>b, <1>c, <1>8 DEF SaveAnswered, server, Orderly, Writes, Lists
<1>9. ASSUME ~behind' PROVE (\A q \in calls : ChangesOne(q))'
  BY <1>z, <1>0, <1>a, <1>b, <1>c, <1>9 DEF ChangesOne
<1>10. ASSUME ~behind' PROVE XtreamShown'
  BY <1>z, <1>0, <1>a, <1>b, <1>c, <1>10, XtreamSame DEF XtreamShown
<1>11. ASSUME ~behind' PROVE ManageShown'
  BY <1>z, <1>0, <1>a, <1>b, <1>c, <1>11, RowsSame DEF SaveAnswered, ManageShown
<1>12. ASSUME ~behind' PROVE ChannelsShown'
  <2>1. r.kind \in Writes /\ tab' = tab
    BY <1>z DEF Writes, SaveAnswered
  <2> QED BY <1>c, <1>12, <2>1 DEF ChannelsShown
<1> QED BY <1>1, <1>2, <1>3, <1>4, <1>5, <1>6, <1>7, <1>8, <1>9, <1>10, <1>11, <1>12

LEMMA SaveFailedInv ==
  ASSUME TabsInv, NEW r \in calls, r.stage # "ok", SaveAnswered(r)
  PROVE  TabsInv'
<1> USE DEF TabsInv
<1>0. calls' = calls \ {r} /\ behind' = TRUE
  BY DEF SaveAnswered
<1>1. SavedTyped'
  BY <1>0 DEF SaveAnswered, server, SavedTyped
<1>2. XtreamTyped'
  <2>1. SetBusy(r.button, FALSE) /\ UNCHANGED <<loaded, settings>> /\ r.button \in Button
    BY DEF SaveAnswered, Request, ButtonOf, Button
  <2> QED BY <2>1, SetBusyTyped
<1>3. ManageTyped'
  BY <1>0 DEF SaveAnswered, manage, ManageTyped
<1>4. ChannelsTyped'
  BY <1>0 DEF SaveAnswered, channels, ChannelsTyped
<1>5. (\A q \in calls : Request(q))'
  BY <1>0
<1>6. Spinners'
  <2>1. SetBusy(r.button, FALSE) /\ UNCHANGED <<loaded, settings>> /\ r.button \in Button
    BY DEF SaveAnswered, Request, ButtonOf, Button
  <2>2. busy' = busy \ {r.button}
    BY <2>1, SetBusyTyped
  <2> QED BY <1>0, <2>1, <2>2, SpinnersOff
<1>7. Confirmed'
  BY <1>0 DEF SaveAnswered, server, Confirmed, NothingUnconfirmed
<1>8. ASSUME ~behind' PROVE Orderly'
  BY <1>0, <1>8 DEF Writes, Lists
<1>9. ASSUME ~behind' PROVE (\A q \in calls : ChangesOne(q))'
  BY <1>0, <1>9
<1>10. ASSUME ~behind' PROVE XtreamShown'
  BY <1>0, <1>10, XtreamSame DEF XtreamShown
<1>11. ASSUME ~behind' PROVE ManageShown'
  BY <1>0, <1>11, RowsSame DEF ManageShown
<1>12. ASSUME ~behind' PROVE ChannelsShown'
  BY <1>0, <1>12 DEF ChannelsShown
<1> QED BY <1>1, <1>2, <1>3, <1>4, <1>5, <1>6, <1>7, <1>8, <1>9, <1>10, <1>11, <1>12

LEMMA DeleteAnsweredInv ==
  ASSUME TabsInv, NEW r \in calls, DeleteAnswered(r)
  PROVE  TabsInv'
<1> USE DEF TabsInv
<1>z. r.kind = "delete" /\ r.stage # "sent" /\ Send(calls \ {r}, {Call("playlistList", 0, NoBody, "")})
  BY DEF DeleteAnswered, Load
<1>0. PICK c : /\ Sent(c, "playlistList", 0, NoBody, "") /\ calls' = (calls \ {r}) \union {c}
               /\ behind' = (behind \/ \E q \in calls \ {r} : {"playlistList", q.kind} \intersect Writes # {})
  BY <1>z, SentOne
<1>a. c.kind = "playlistList" /\ c.id = 0 /\ c.body = NoBody /\ c.button = "" /\ c.stage = "sent"
  BY <1>0 DEF Sent
<1>b. Request(c)
  BY <1>0, Bodies, NewRequest DEF Kinds, Lists, NoBody
<1>c. ~behind' => ~behind /\ calls = {r} /\ calls' = {c}
  BY <1>z, <1>0 DEF Orderly, Writes
<1>1. SavedTyped'
  BY <1>z, <1>0, <1>a, <1>b, <1>c DEF DeleteAnswered, server, SavedTyped
<1>2. XtreamTyped'
  BY <1>z, <1>0, <1>a, <1>b, <1>c DEF DeleteAnswered, xtream, XtreamTyped
<1>3. ManageTyped'
  BY <1>z, <1>0, <1>a, <1>b, <1>c DEF DeleteAnswered, manage, ManageTyped
<1>4. ChannelsTyped'
  BY <1>z, <1>0, <1>a, <1>b, <1>c DEF DeleteAnswered, channels, ChannelsTyped
<1>5. (\A q \in calls : Request(q))'
  BY <1>z, <1>0, <1>a, <1>b, <1>c
<1>6. Spinners'
  <2>1. r.button = ""
    BY <1>z DEF Request, ButtonOf
  <2> QED BY <1>0, <1>a, <2>1, SpinnersQuiet DEF DeleteAnswered, EditAnswered, xtream
<1>7. Confirmed'
  BY <1>z, <1>0, <1>a, <1>b, <1>c DEF DeleteAnswered, server, Confirmed,
     NothingUnconfirmed
<1>8. ASSUME ~behind' PROVE Orderly'
  BY <1>z, <1>0, <1>a, <1>b, <1>c, <1>8 DEF Orderly, Writes, Lists
<1>9. ASSUME ~behind' PROVE (\A q \in calls : ChangesOne(q))'
  BY <1>z, <1>0, <1>a, <1>b, <1>c, <1>9 DEF ChangesOne
<1>10. ASSUME ~behind' PROVE XtreamShown'
  BY <1>z, <1>0, <1>a, <1>b, <1>c, <1>10, XtreamSame DEF DeleteAnswered, XtreamShown
<1>11. ASSUME ~behind' PROVE ManageShown'
  BY <1>z, <1>0, <1>a, <1>b, <1>c, <1>11, RowsSame DEF ManageShown
<1>12. ASSUME ~behind' PROVE ChannelsShown'
  <2>1. r.kind \in Writes /\ tab' = tab
    BY <1>z DEF Writes, DeleteAnswered
  <2> QED BY <1>c, <1>12, <2>1 DEF ChannelsShown
<1> QED BY <1>1, <1>2, <1>3, <1>4, <1>5, <1>6, <1>7, <1>8, <1>9, <1>10, <1>11, <1>12

LEMMA EditFailedInv ==
  ASSUME TabsInv, NEW r \in calls, r.stage # "ok", EditAnswered(r)
  PROVE  TabsInv'
<1> USE DEF TabsInv
<1>z. r.kind = "edit" /\ r.stage # "sent" /\ Send(calls \ {r}, {Call("playlistList", 0, NoBody, "")})
  BY DEF EditAnswered, Load
<1>0. PICK c : /\ Sent(c, "playlistList", 0, NoBody, "") /\ calls' = (calls \ {r}) \union {c}
               /\ behind' = (behind \/ \E q \in calls \ {r} : {"playlistList", q.kind} \intersect Writes # {})
  BY <1>z, SentOne
<1>a. c.kind = "playlistList" /\ c.id = 0 /\ c.body = NoBody /\ c.button = "" /\ c.stage = "sent"
  BY <1>0 DEF Sent
<1>b. Request(c)
  BY <1>0, Bodies, NewRequest DEF Kinds, Lists, NoBody
<1>c. ~behind' => ~behind /\ calls = {r} /\ calls' = {c}
  BY <1>z, <1>0 DEF Orderly, Writes
<1>1. SavedTyped'
  BY <1>z, <1>0, <1>a, <1>b, <1>c DEF EditAnswered, server, SavedTyped
<1>2. XtreamTyped'
  BY <1>z, <1>0, <1>a, <1>b, <1>c DEF EditAnswered, xtream, XtreamTyped
<1>3. ManageTyped'
  BY <1>z, <1>0, <1>a, <1>b, <1>c DEF EditAnswered, manage, ManageTyped
<1>4. ChannelsTyped'
  BY <1>z, <1>0, <1>a, <1>b, <1>c DEF EditAnswered, channels, ChannelsTyped
<1>5. (\A q \in calls : Request(q))'
  BY <1>z, <1>0, <1>a, <1>b, <1>c
<1>6. Spinners'
  <2>1. r.button = ""
    BY <1>z DEF Request, ButtonOf
  <2> QED BY <1>0, <1>a, <2>1, SpinnersQuiet DEF DeleteAnswered, EditAnswered, xtream
<1>7. Confirmed'
  BY <1>z, <1>0, <1>a, <1>b, <1>c DEF EditAnswered, server, Confirmed,
     NothingUnconfirmed
<1>8. ASSUME ~behind' PROVE Orderly'
  BY <1>z, <1>0, <1>a, <1>b, <1>c, <1>8 DEF Orderly, Writes, Lists
<1>9. ASSUME ~behind' PROVE (\A q \in calls : ChangesOne(q))'
  BY <1>z, <1>0, <1>a, <1>b, <1>c, <1>9 DEF ChangesOne
<1>10. ASSUME ~behind' PROVE XtreamShown'
  BY <1>z, <1>0, <1>a, <1>b, <1>c, <1>10, XtreamSame DEF EditAnswered, XtreamShown
<1>11. ASSUME ~behind' PROVE ManageShown'
  BY <1>z, <1>0, <1>a, <1>b, <1>c, <1>11, RowsSame DEF ManageShown
<1>12. ASSUME ~behind' PROVE ChannelsShown'
  <2>1. r.kind \in Writes /\ tab' = tab
    BY <1>z DEF Writes, EditAnswered
  <2> QED BY <1>c, <1>12, <2>1 DEF ChannelsShown
<1> QED BY <1>1, <1>2, <1>3, <1>4, <1>5, <1>6, <1>7, <1>8, <1>9, <1>10, <1>11, <1>12

LEMMA ChannelListAnsweredInv ==
  ASSUME TabsInv, NEW r \in calls, ChannelListAnswered(r)
  PROVE  TabsInv'
<1> USE DEF TabsInv
<1>0. /\ r.kind = "channelList" /\ r.stage # "sent" /\ calls' = calls \ {r}
      /\ ~behind' => ~behind /\ r.stage = "ok"
      /\ behind' \in BOOLEAN /\ offered' = DOMAIN r.data
  BY DEF ChannelListAnswered, Request, Stages
<1>1. SavedTyped'
  BY <1>0 DEF ChannelListAnswered, server, SavedTyped
<1>2. XtreamTyped'
  BY <1>0 DEF ChannelListAnswered, xtream, XtreamTyped
<1>3. ManageTyped'
  BY <1>0 DEF ChannelListAnswered, manage, ManageTyped
<1>4. ChannelsTyped'
  BY DEF ChannelListAnswered, Render, ChannelsTyped
<1>5. (\A q \in calls : Request(q))'
  BY <1>0
<1>6. Spinners'
  <2>1. r.button = ""
    BY <1>0 DEF Request, ButtonOf
  <2> QED BY <2>1, SpinnersQuiet DEF ChannelListAnswered, xtream
<1>7. Confirmed'
  BY <1>0 DEF ChannelListAnswered, server, Confirmed, NothingUnconfirmed
<1>8. ASSUME ~behind' PROVE Orderly'
  BY <1>0, <1>8 DEF ChannelListAnswered, server, Orderly, Writes, Lists
<1>9. ASSUME ~behind' PROVE (\A q \in calls : ChangesOne(q))'
  BY <1>0, <1>9 DEF ChannelListAnswered, server, ChangesOne
<1>10. ASSUME ~behind' PROVE XtreamShown'
  BY <1>0, <1>10, XtreamSame DEF ChannelListAnswered, server, xtream, XtreamShown
<1>11. ASSUME ~behind' PROVE ManageShown'
  BY <1>0, <1>11, RowsSame DEF ChannelListAnswered, server, manage, ManageShown
<1>12. ASSUME ~behind' PROVE ChannelsShown'
  <2>1. offered' = DOMAIN saved /\ UNCHANGED <<saved, tab>>
    BY <1>0, <1>12 DEF Orderly, Lists, ChannelListAnswered, server
  <2> QED BY <1>0, <1>12, <2>1 DEF ChannelsShown
<1> QED BY <1>1, <1>2, <1>3, <1>4, <1>5, <1>6, <1>7, <1>8, <1>9, <1>10, <1>11, <1>12

LEMMA EditOkInv ==
  ASSUME TabsInv, NEW r \in calls, r.stage = "ok", EditAnswered(r)
  PROVE  TabsInv'
<1> USE DEF TabsInv
<1>z. r.kind = "edit" /\ r.body \in Body
  BY DEF EditAnswered, Request
<1>0. calls' = calls \ {r} /\ behind' = behind /\ (~behind => calls' = {})
  <2>1. Send(calls \ {r}, {})
    BY DEF EditAnswered
  <2>2. calls' = calls \ {r} /\ behind' = behind
    BY <2>1, SentNone DEF SavedTyped
  <2> QED BY <1>z, <2>2 DEF Orderly, Writes
<1>a. rows' = IF r.live THEN [rows EXCEPT ![r.id] = Retexted(@, r.body)] ELSE rows
  BY DEF EditAnswered, Retexted
<1>b. DOMAIN rows' = DOMAIN rows /\ rows' = [p \in DOMAIN rows' |-> rows'[p]]
  BY <1>a DEF ManageTyped
<1>c. \A p \in DOMAIN rows :
        rows'[p] = IF r.live /\ p = r.id THEN Retexted(rows[p], r.body) ELSE rows[p]
  BY <1>a
<1>1. SavedTyped'
  BY <1>z, <1>0, <1>a, <1>b, <1>c DEF EditAnswered, server, SavedTyped
<1>2. XtreamTyped'
  BY <1>z, <1>0, <1>a, <1>b, <1>c DEF EditAnswered, xtream, XtreamTyped
<1>3. ManageTyped'
  <2>1. \A p \in DOMAIN rows : rows'[p] \in Line
    <3> SUFFICES ASSUME NEW p \in DOMAIN rows
                 PROVE  rows'[p] \in Line
      OBVIOUS
    <3>1. rows[p] \in Line
      BY DEF ManageTyped
    <3>2. Retexted(rows[p], r.body) \in Line
      BY <1>z, <3>1, RowPatched
    <3> QED BY <1>c, <3>1, <3>2
  <2>2. UNCHANGED <<edit, tab>>
    BY DEF EditAnswered
  <2> QED BY <1>b, <2>1, <2>2 DEF ManageTyped
<1>4. ChannelsTyped'
  BY <1>z, <1>0, <1>a, <1>b, <1>c DEF EditAnswered, channels, ChannelsTyped
<1>5. (\A q \in calls : Request(q))'
  BY <1>z, <1>0, <1>a, <1>b, <1>c
<1>6. Spinners'
  <2>1. r.button = ""
    BY <1>z DEF Request, ButtonOf
  <2> QED BY <1>0, <2>1, SpinnersQuiet DEF EditAnswered, xtream
<1>7. Confirmed'
  BY <1>z, <1>0, <1>a, <1>b, <1>c DEF EditAnswered, server, Confirmed,
     NothingUnconfirmed
<1>8. ASSUME ~behind' PROVE Orderly'
  BY <1>z, <1>0, <1>a, <1>b, <1>c, <1>8 DEF Orderly, Writes, Lists
<1>9. ASSUME ~behind' PROVE (\A q \in calls : ChangesOne(q))'
  BY <1>z, <1>0, <1>a, <1>b, <1>c, <1>9
<1>10. ASSUME ~behind' PROVE XtreamShown'
  BY <1>z, <1>0, <1>a, <1>b, <1>c, <1>10, XtreamSame DEF EditAnswered, XtreamShown
<1>11. ASSUME ~behind' PROVE ManageShown'
  <2> SUFFICES ASSUME tab = "playlist" PROVE RowsAgree'
    BY <1>0, <1>11 DEF ManageShown, EditAnswered
  <2>1. RowsWait(r) /\ UNCHANGED saved
    BY <1>z, <1>0, <1>11 DEF ManageShown, EditAnswered, server
  <2>2. /\ r.live /\ DOMAIN rows = DOMAIN saved
        /\ \A p \in DOMAIN rows, f \in Field \union {"type"} :
             IF p = r.id THEN RowWaits(r, p, f) ELSE RowAgrees(p, f)
    BY <2>1 DEF RowsWait
  <2>3. ASSUME NEW p \in DOMAIN rows, NEW f \in Field \union {"type"}
        PROVE  RowAgrees(p, f)'
    <3>1. rows[p] \in Line
      BY DEF ManageTyped
    <3>2. CASE p = r.id
      <4>1. rows'[p][f] = IF f # "type" /\ r.body[f] # "" THEN r.body[f] ELSE rows[p][f]
        <5>1. rows'[p] = Retexted(rows[p], r.body)
          BY <1>c, <2>2, <3>2
        <5>2. Retexted(rows[p], r.body)[f] = TextAfter(rows[p], r.body, f)
          BY <1>z, <3>1, RowRetexted
        <5> QED BY <5>1, <5>2 DEF TextAfter
      <4>2. RowWaits(r, p, f)
        BY <2>2, <3>2
      <4> QED BY <2>1, <4>1, <4>2 DEF RowWaits, RowAgrees
    <3>3. CASE p # r.id
      BY <1>c, <2>1, <2>2, <3>3, RowAgrees(p, f) DEF RowAgrees
    <3> QED BY <3>2, <3>3
  <2> QED BY <1>b, <2>1, <2>2, <2>3 DEF RowsAgree
<1>12. ASSUME ~behind' PROVE ChannelsShown'
  BY <1>z, <1>0, <1>a, <1>b, <1>c, <1>12 DEF EditAnswered, server, channels,
     ChannelsShown
<1> QED BY <1>1, <1>2, <1>3, <1>4, <1>5, <1>6, <1>7, <1>8, <1>9, <1>10, <1>11, <1>12

LEMMA PatchAnsweredInv ==
  ASSUME TabsInv, NEW r \in calls, PatchAnswered(r)
  PROVE  TabsInv'
<1> USE DEF TabsInv
<1>z. r.kind = "patch" /\ r.stage # "sent" /\ Request(r)
  BY DEF PatchAnswered
<1>0. /\ calls' = calls \ {r} /\ behind' \in BOOLEAN
      /\ ~behind' => ~behind /\ r.stage = "ok" /\ calls' = {}
  BY <1>z DEF PatchAnswered, Request, Stages, Orderly, Writes
<1> DEFINE new == r.data[r.id]
<1>a. loaded' = IF r.stage = "ok" /\ r.live
                  THEN Cached(loaded, r.id, new.freq, new.type) ELSE loaded
  BY DEF PatchAnswered, Cached
<1>b. r.stage = "ok" => new.freq \in Freq /\ new.type \in Type
  BY <1>z DEF Request, IsTable, Row
<1> HIDE DEF new
<1>d. r.stage = "ok" /\ r.live =>
        \A q \in DOMAIN loaded :
          loaded'[q] = IF q = r.id THEN WithSettings(loaded[q], new.freq, new.type) ELSE loaded[q]
  BY <1>a, <1>b, SettingsCached DEF XtreamTyped
<1>c. IsTable(loaded') /\ DOMAIN loaded' = DOMAIN loaded
  BY <1>a, <1>b, SettingsCached DEF XtreamTyped
<1>1. SavedTyped'
  BY <1>z, <1>0, <1>a, <1>b, <1>d, <1>c DEF PatchAnswered, server, SavedTyped
<1>2. XtreamTyped'
  BY <1>c DEF XtreamTyped, PatchAnswered
<1>3. ManageTyped'
  BY <1>z, <1>0, <1>a, <1>b, <1>d, <1>c DEF PatchAnswered, manage, ManageTyped
<1>4. ChannelsTyped'
  BY <1>z, <1>0, <1>a, <1>b, <1>d, <1>c DEF PatchAnswered, channels, ChannelsTyped
<1>5. (\A q \in calls : Request(q))'
  BY <1>z, <1>0, <1>a, <1>b, <1>d, <1>c
<1>6. Spinners'
  <2>1. r.button = ""
    BY <1>z DEF Request, ButtonOf
  <2> QED BY <2>1, SpinnersQuiet DEF PatchAnswered, xtream
<1>7. Confirmed'
  BY <1>z, <1>0, <1>a, <1>b, <1>d, <1>c DEF PatchAnswered, server, Confirmed,
     NothingUnconfirmed
<1>8. ASSUME ~behind' PROVE Orderly'
  BY <1>z, <1>0, <1>a, <1>b, <1>d, <1>c, <1>8 DEF Orderly, Writes, Lists
<1>9. ASSUME ~behind' PROVE (\A q \in calls : ChangesOne(q))'
  BY <1>z, <1>0, <1>a, <1>b, <1>d, <1>c, <1>9
<1>10. ASSUME ~behind' PROVE XtreamShown'
  <2> SUFFICES ASSUME tab = "xtream" PROVE XtreamAgrees'
    BY <1>0, <1>10 DEF XtreamShown, PatchAnswered
  <2>1. XtreamWaits(r) /\ UNCHANGED <<saved, chosen, settings>>
    BY <1>z, <1>0, <1>10 DEF XtreamShown, PatchAnswered, server
  <2>2. /\ r.live /\ SettingsShown /\ r.id = chosen /\ chosen \in DOMAIN loaded
        /\ settings.freq = r.body.freq /\ settings.type = r.body.type
        /\ saved = [loaded EXCEPT ![chosen] = Patched(@, r.body)] /\ r.data = saved
    BY <1>0, <1>10, <2>1 DEF XtreamWaits
  <2>3. r.body \in Body /\ IsTable(loaded) /\ IsTable(saved)
    BY <1>z DEF Request, XtreamTyped, SavedTyped
  <2>4. /\ DOMAIN saved = DOMAIN loaded
        /\ \A q \in DOMAIN loaded : saved[q] = IF q = chosen THEN Patched(loaded[q], r.body) ELSE loaded[q]
    BY <2>2
  <2>5. /\ saved[chosen] = WithSettings(loaded[chosen], r.body.freq, r.body.type)
        /\ saved[chosen].freq = r.body.freq /\ saved[chosen].type = r.body.type
    <3>1. loaded[chosen] \in Row /\ r.body.freq \in Freq /\ r.body.type \in Type
          /\ r.body.name = "" /\ r.body.server = ""
      BY <1>z, <2>2, <2>3 DEF IsTable, Request
    <3>2. saved[chosen] = Patched(loaded[chosen], r.body)
      BY <2>2, <2>4
    <3> QED BY <2>3, <3>1, <3>2, SettingsPatched
  <2>6. new.freq = r.body.freq /\ new.type = r.body.type
    BY <2>2, <2>5 DEF new
  <2>7. loaded'[chosen] = saved[chosen]
    BY <1>0, <1>d, <1>10, <2>2, <2>5, <2>6
  <2>8. \A q \in DOMAIN loaded : loaded'[q] = saved[q]
    BY <1>0, <1>d, <1>10, <2>2, <2>4, <2>7
  <2>9. loaded' = saved
    BY <1>c, <2>3, <2>4, <2>8 DEF IsTable
  <2> QED BY <2>1, <2>2, <2>6, <2>9 DEF XtreamAgrees, SettingsShown, new
<1>11. ASSUME ~behind' PROVE ManageShown'
  BY <1>z, <1>0, <1>a, <1>b, <1>d, <1>c, <1>11, RowsSame DEF PatchAnswered, ManageShown
<1>12. ASSUME ~behind' PROVE ChannelsShown'
  BY <1>z, <1>0, <1>a, <1>b, <1>d, <1>c, <1>12 DEF PatchAnswered, server, channels,
     ChannelsShown
<1> QED BY <1>1, <1>2, <1>3, <1>4, <1>5, <1>6, <1>7, <1>8, <1>9, <1>10, <1>11, <1>12

LEMMA XtreamIgnoredInv ==
  ASSUME TabsInv, NEW r \in calls, ~Rendered(r), XtreamListAnswered(r)
  PROVE  TabsInv'
<1> USE DEF TabsInv
<1>0. /\ calls' = calls \ {r} /\ behind' = TRUE /\ UNCHANGED <<loaded, options, chosen, settings, busy>>
  BY DEF XtreamListAnswered, Rendered
<1>1. SavedTyped'
  BY <1>0 DEF XtreamListAnswered, server, SavedTyped
<1>2. XtreamTyped'
  BY <1>0 DEF XtreamTyped
<1>3. ManageTyped'
  BY <1>0 DEF XtreamListAnswered, manage, ManageTyped
<1>4. ChannelsTyped'
  BY <1>0 DEF XtreamListAnswered, channels, ChannelsTyped
<1>5. (\A q \in calls : Request(q))'
  BY <1>0
<1>6. Spinners'
  <2>1. r.button = ""
    BY DEF XtreamListAnswered, Request, ButtonOf
  <2> QED BY <1>0, <2>1, SpinnersQuiet
<1>7. Confirmed'
  BY <1>0 DEF XtreamListAnswered, server, Confirmed, NothingUnconfirmed
<1>8. ASSUME ~behind' PROVE Orderly'
  BY <1>0, <1>8 DEF Writes, Lists
<1>9. ASSUME ~behind' PROVE (\A q \in calls : ChangesOne(q))'
  BY <1>0, <1>9
<1>10. ASSUME ~behind' PROVE XtreamShown'
  BY <1>0, <1>10, XtreamSame DEF XtreamShown
<1>11. ASSUME ~behind' PROVE ManageShown'
  BY <1>0, <1>11, RowsSame DEF ManageShown
<1>12. ASSUME ~behind' PROVE ChannelsShown'
  BY <1>0, <1>12 DEF ChannelsShown
<1> QED BY <1>1, <1>2, <1>3, <1>4, <1>5, <1>6, <1>7, <1>8, <1>9, <1>10, <1>11, <1>12

LEMMA XtreamRenderedInv ==
  ASSUME TabsInv, NEW r \in calls, Rendered(r), XtreamListAnswered(r)
  PROVE  TabsInv'
<1> USE DEF TabsInv
<1> DEFINE old == calls \ {r}
<1>z. /\ r.kind \in {"xtreamList", "savedList"} /\ r.stage \in {"ok", "failed"} /\ r.button = ""
      /\ IsTable(r.data) /\ r.kind \in Lists /\ r.kind \notin Writes
  BY DEF XtreamListAnswered, Request, ButtonOf, Stages, Lists, Writes
<1>y. /\ UNCHANGED <<saved, minted, tab, busy, rows, edit, filter, offered, listing, confirmed>>
      /\ behind' = (behind \/ r.stage = "failed")
  BY DEF XtreamListAnswered, server, manage, channels
<1>0. /\ loaded' = r.data /\ options' = DOMAIN r.data
      /\ calls' = Detached(old, "patch")
  BY DEF Rendered, RenderSaved
<1>x. /\ r.kind = "xtreamList" => chosen' = Newest(r.data)
      /\ r.kind = "savedList" => chosen' = IF r.id \in DOMAIN r.data THEN r.id ELSE 0
  BY DEF Rendered
<1>w. DOMAIN r.data \subseteq Playlist
  BY <1>z DEF IsTable
<1>a. chosen' \in DOMAIN r.data \union {0}
  BY <1>z, <1>w, <1>x, NewestOrNone
<1>b. /\ settings' \in [shown : BOOLEAN, freq : Freq, type : Type]
      /\ settings'.shown <=> Newest(r.data) # 0
      /\ Newest(r.data) # 0 => /\ settings'.freq = r.data[Newest(r.data)].freq
                               /\ settings'.type = r.data[Newest(r.data)].type
  <2>1. SyncSettings(r.data, Newest(r.data))
    BY DEF Rendered, RenderSaved
  <2>2. CASE Newest(r.data) = 0
    BY <2>1, <2>2 DEF SyncSettings, XtreamTyped
  <2>3. CASE Newest(r.data) # 0
    <3>1. r.data[Newest(r.data)] \in Row
      BY <1>z, <2>3, NewestOrNone DEF IsTable
    <3>2. settings' = [shown |-> TRUE, freq |-> r.data[Newest(r.data)].freq,
                       type |-> r.data[Newest(r.data)].type]
      BY <2>1, <2>3 DEF SyncSettings
    <3> QED BY <2>3, <3>1, <3>2 DEF Row
  <2> QED BY <2>2, <2>3
<1>c. ~behind' => ~behind /\ r.stage = "ok" /\ r.data = saved /\ calls' = old
  <2> SUFFICES ASSUME ~behind' PROVE ~behind /\ r.stage = "ok" /\ r.data = saved /\ calls' = old
    OBVIOUS
  <2>1. ~behind /\ r.stage = "ok" /\ r.data = saved
    BY <1>y, <1>z DEF Orderly
  <2>2. \A q \in old : q.kind # "patch" /\ Request(q)
    BY <2>1 DEF Orderly, Writes
  <2> QED BY <1>0, <2>1, <2>2, NoneDetached
<1> HIDE DEF old
<1>1. SavedTyped'
  BY <1>y, <1>z DEF SavedTyped
<1>2. XtreamTyped'
  BY <1>y, <1>z, <1>0, <1>a, <1>b DEF XtreamTyped
<1>3. ManageTyped'
  BY <1>y DEF ManageTyped
<1>4. ChannelsTyped'
  BY <1>y DEF ChannelsTyped
<1>5. (\A q \in calls : Request(q))'
  BY <1>0, RequestsDetached DEF old
<1>6. Spinners'
  BY <1>y, <1>z, <1>0, SpinnersDetached DEF old
<1>7. Confirmed'
  <2>1. \A q \in old : TextsConfirmed(q, confirmed) /\ Request(q)
    BY DEF Confirmed, TextsConfirmed, old
  <2>2. \A q \in calls' : TextsConfirmed(q, confirmed)
    BY <1>0, <2>1, ConfirmedDetached
  <2> QED BY <1>y, <2>2 DEF Confirmed, NothingUnconfirmed, TextsConfirmed
<1>8. ASSUME ~behind' PROVE Orderly'
  BY <1>c, <1>y, <1>8 DEF Orderly, old
<1>9. ASSUME ~behind' PROVE (\A q \in calls : ChangesOne(q))'
  BY <1>c, <1>y, <1>9 DEF ChangesOne, old
<1>10. ASSUME ~behind' PROVE XtreamShown'
  <2> SUFFICES ASSUME tab = "xtream" PROVE XtreamAgrees'
    <3>1. \A q \in calls' : q.kind \notin Writes
      BY <1>c, <1>z, <1>10 DEF Orderly, old
    <3> QED BY <1>y, <3>1 DEF XtreamShown, Writes
  <2>1. DOMAIN saved \subseteq Playlist /\ loaded' = saved /\ saved' = saved
    BY <1>0, <1>y, <1>c, <1>w, <1>10
  <2>2. chosen' = Newest(saved)
    <3>1. CASE r.kind = "xtreamList"
      BY <1>x, <1>c, <1>10, <3>1
    <3>2. CASE r.kind = "savedList"
      <4>1. r.id = minted /\ minted \in DOMAIN saved
        BY <1>c, <1>10, <3>2 DEF Orderly
      <4>2. \A p \in DOMAIN saved : p <= minted
        BY DEF SavedTyped, Playlist
      <4> QED BY <1>x, <1>c, <1>10, <2>1, <3>2, <4>1, <4>2, NewestIs
    <3> QED BY <1>z, <3>1, <3>2
  <2>3. Newest(saved) = 0 <=> DOMAIN saved = {}
    BY <2>1, NewestOrNone
  <2> QED BY <1>b, <1>c, <1>10, <2>1, <2>2, <2>3 DEF XtreamAgrees, SettingsShown
<1>11. ASSUME ~behind' PROVE ManageShown'
  <2>1. \A q \in old : q.kind \notin Writes
    BY <1>c, <1>z, <1>11 DEF Orderly, old
  <2> QED BY <1>c, <1>y, <1>z, <1>11, <2>1, RowsSame DEF ManageShown, old
<1>12. ASSUME ~behind' PROVE ChannelsShown'
  BY <1>c, <1>y, <1>z, <1>12 DEF ChannelsShown, old
<1> QED BY <1>1, <1>2, <1>3, <1>4, <1>5, <1>6, <1>7, <1>8, <1>9, <1>10, <1>11, <1>12

LEMMA PlaylistListAnsweredInv ==
  ASSUME TabsInv, NEW r \in calls, PlaylistListAnswered(r)
  PROVE  TabsInv'
<1> USE DEF TabsInv
<1> DEFINE old == calls \ {r}
<1>z. /\ r.kind = "playlistList" /\ r.stage \in {"ok", "failed"} /\ r.button = ""
      /\ IsTable(r.data) /\ r.kind \in Lists /\ r.kind \notin Writes
  BY DEF PlaylistListAnswered, Request, ButtonOf, Stages, Lists, Writes
<1>y. /\ UNCHANGED <<saved, minted, tab, loaded, options, chosen, settings, busy, filter, offered,
                     listing>>
      /\ edit' = NoEdit
      /\ behind' = (behind \/ r.stage = "failed" \/ edit # NoEdit)
  BY DEF PlaylistListAnswered, server, xtream, channels
<1>x. /\ confirmed \subseteq confirmed'
      /\ edit # NoEdit => <<edit.at, edit.field, edit.text>> \in confirmed'
  BY DEF PlaylistListAnswered
<1>w. DOMAIN rows' = DOMAIN r.data /\ rows' = [p \in DOMAIN rows' |-> rows'[p]]
  BY DEF PlaylistListAnswered
<1>v. \A p \in DOMAIN r.data :
        rows'[p] \in Line /\ \A f \in Field \union {"type"} : rows'[p][f] = r.data[p][f]
  <2> SUFFICES ASSUME NEW p \in DOMAIN r.data
               PROVE  rows'[p] \in Line /\ \A f \in Field \union {"type"} : rows'[p][f] = r.data[p][f]
    OBVIOUS
  <2>1. r.data[p] \in Row
    BY <1>z DEF IsTable
  <2>2. rows'[p] = Restrict(r.data[p], {"name", "server", "type"})
    BY DEF PlaylistListAnswered
  <2> QED BY <2>1, <2>2, RowRestricted
<1>u. DOMAIN r.data \subseteq Playlist
  BY <1>z DEF IsTable
<1>0. /\ Detached(old, "edit") \subseteq calls'
      /\ \A q \in calls' :
           q \in Detached(old, "edit") \/ (edit # NoEdit /\ IsEditOfField(q))
      /\ edit = NoEdit => calls' = Detached(old, "edit")
  <2>1. PICK blurs \in BOOLEAN :
          calls' = Added(Detached(old, "edit"), {[s EXCEPT !.live = FALSE] : s \in Saves(blurs /\ edit # NoEdit)})
    BY DEF PlaylistListAnswered
  <2> QED BY <2>1, LateAdded
<1>c. ~behind' => ~behind /\ r.stage = "ok" /\ r.data = saved /\ calls' = old
  <2> SUFFICES ASSUME ~behind' PROVE ~behind /\ r.stage = "ok" /\ r.data = saved /\ calls' = old
    OBVIOUS
  <2>1. ~behind /\ r.stage = "ok" /\ r.data = saved /\ edit = NoEdit
    BY <1>y, <1>z DEF Orderly
  <2>2. \A q \in old : q.kind # "edit" /\ Request(q)
    BY <2>1 DEF Orderly, Writes
  <2> QED BY <1>0, <2>1, <2>2, NoneDetached
<1> HIDE DEF old
<1>1. SavedTyped'
  BY <1>y, <1>z DEF SavedTyped
<1>2. XtreamTyped'
  BY <1>y DEF XtreamTyped
<1>3. ManageTyped'
  <2>1. DOMAIN rows' \subseteq Playlist /\ \A p \in DOMAIN rows' : rows'[p] \in Line
    BY <1>u, <1>v, <1>w
  <2> QED BY <1>y, <1>w, <2>1 DEF ManageTyped, NoEdit, Texts
<1>4. ChannelsTyped'
  BY <1>y DEF ChannelsTyped
<1>5. (\A q \in calls : Request(q))'
  <2>1. \A q \in Detached(old, "edit") : Request(q)
    BY RequestsDetached DEF old
  <2>2. \A q : edit # NoEdit /\ IsEditOfField(q) => Request(q)
    BY LateRequest
  <2> QED BY <1>0, <2>1, <2>2
<1>6. Spinners'
  <2>1. \A q \in calls' : q \in Detached(old, "edit") \/ q.button = ""
    BY <1>0 DEF IsEditOfField
  <2> QED BY <1>y, <1>z, <1>0, <2>1, SpinnersDetached DEF old
<1>7. Confirmed'
  <2>1. \A q \in old : TextsConfirmed(q, confirmed') /\ Request(q)
    BY <1>x DEF Confirmed, TextsConfirmed, old
  <2>2. \A q \in Detached(old, "edit") : TextsConfirmed(q, confirmed')
    BY <2>1, ConfirmedDetached
  <2>3. \A q : edit # NoEdit /\ IsEditOfField(q) => TextsConfirmed(q, confirmed')
    BY <1>x, LateRequest
  <2>4. \A q \in calls' : TextsConfirmed(q, confirmed')
    BY <1>0, <2>2, <2>3
  <2> QED BY <1>x, <1>y, <2>4 DEF Confirmed, NothingUnconfirmed, TextsConfirmed
<1>8. ASSUME ~behind' PROVE Orderly'
  BY <1>c, <1>y, <1>8 DEF Orderly, old
<1>9. ASSUME ~behind' PROVE (\A q \in calls : ChangesOne(q))'
  BY <1>c, <1>y, <1>9 DEF ChangesOne, old
<1>10. ASSUME ~behind' PROVE XtreamShown'
  <2>1. \A q \in old : q.kind \notin Writes
    BY <1>c, <1>z, <1>10 DEF Orderly, old
  <2> QED BY <1>c, <1>y, <1>z, <1>10, <2>1, XtreamSame DEF XtreamShown, old
<1>11. ASSUME ~behind' PROVE ManageShown'
  <2>1. \A q \in calls' : q.kind \notin Writes
    BY <1>c, <1>z, <1>11 DEF Orderly, old
  <2>2. RowsAgree'
    BY <1>v, <1>w, <1>y, <1>c, <1>11 DEF RowsAgree, RowAgrees
  <2> QED BY <2>1, <2>2 DEF ManageShown, Writes
<1>12. ASSUME ~behind' PROVE ChannelsShown'
  BY <1>c, <1>y, <1>z, <1>12 DEF ChannelsShown, old
<1> QED BY <1>1, <1>2, <1>3, <1>4, <1>5, <1>6, <1>7, <1>8, <1>9, <1>10, <1>11, <1>12

-----------------------------------------------------------------------------
(* So does what the server does.                                           *)

LEMMA ServeUndoneInv ==
  ASSUME TabsInv, NEW r \in calls, UNCHANGED server,
         calls' = (calls \ {r}) \union {[r EXCEPT !.stage = "failed"]}, Serve(r)
  PROVE  TabsInv'
<1> USE DEF TabsInv
<1>z. Request(r) /\ IsCall(r)
  BY DEF Request
<1>0. PICK c : Served(c, r, r.id, "failed", r.data) /\ calls' = (calls \ {r}) \union {c}
  BY <1>z, ServedFailed
<1>a. /\ c.kind = r.kind /\ c.id = r.id /\ c.body = r.body /\ c.button = r.button /\ IsCall(c)
      /\ c.live = r.live /\ c.stage = "failed" /\ c.data = r.data
  BY <1>0 DEF Served
<1>b. UNCHANGED <<saved, minted>>
  BY DEF server
<1>y. UNCHANGED <<tab, loaded, options, chosen, settings, busy, rows, edit, filter, offered,
                 listing, behind, confirmed>>
  BY DEF Serve, xtream, manage, channels
<1>x. ~behind => \A q \in calls : q.kind \in Writes \/ r.kind \in Writes => q = r
  BY DEF Orderly
<1>1. SavedTyped'
  BY <1>y, <1>b DEF SavedTyped
<1>2. XtreamTyped'
  BY <1>y DEF XtreamTyped
<1>3. ManageTyped'
  BY <1>y DEF ManageTyped
<1>4. ChannelsTyped'
  BY <1>y DEF ChannelsTyped
<1>5. (\A q \in calls : Request(q))'
  <2>1. Request(c)
    BY <1>z, <1>a DEF Request, ButtonOf, Stages
  <2> QED BY <1>0, <2>1
<1>6. Spinners'
  BY <1>0, <1>a, <1>y, SpinnersMoved
<1>7. Confirmed'
  <2>1. NothingUnconfirmed'
    BY <1>b, <1>y DEF Confirmed, NothingUnconfirmed
  <2>2. \A q \in calls : TextsConfirmed(q, confirmed)
    BY DEF Confirmed, TextsConfirmed
  <2>3. TextsConfirmed(r, confirmed) => TextsConfirmed(c, confirmed)
    BY <1>a DEF TextsConfirmed
  <2>4. \A q \in calls' : TextsConfirmed(q, confirmed)
    BY <1>0, <2>2, <2>3
  <2> QED BY <1>y, <2>1, <2>4 DEF Confirmed, TextsConfirmed
<1>8. ASSUME ~behind' PROVE Orderly'
  BY <1>0, <1>a, <1>b, <1>x, <1>y, <1>8 DEF Orderly
<1>9. ASSUME ~behind' PROVE (\A q \in calls : ChangesOne(q))'
  BY <1>0, <1>a, <1>b, <1>y, <1>9 DEF ChangesOne
<1>10. ASSUME ~behind' PROVE XtreamShown'
  <2>1. XtreamWaits(c)' <=> c.live
    BY <1>a DEF XtreamWaits
  <2> QED BY <1>0, <1>a, <1>b, <1>y, <1>10, <2>1, XtreamSame DEF XtreamShown,
     XtreamWaits
<1>11. ASSUME ~behind' PROVE ManageShown'
  <2>1. RowsWait(c)' <=> c.live
    BY <1>a DEF RowsWait
  <2> QED BY <1>0, <1>a, <1>b, <1>y, <1>11, <2>1, RowsSame DEF ManageShown, RowsWait
<1>12. ASSUME ~behind' PROVE ChannelsShown'
  BY <1>0, <1>a, <1>b, <1>y, <1>12 DEF ChannelsShown
<1> QED BY <1>1, <1>2, <1>3, <1>4, <1>5, <1>6, <1>7, <1>8, <1>9, <1>10, <1>11, <1>12

LEMMA ServeDoneInv ==
  ASSUME TabsInv, NEW r \in calls, r.kind # "create", r.stage = "sent",
         r.id = 0 \/ r.id \in DOMAIN saved, NEW stage \in {"ok", "failed"}, Done(r, stage), Serve(r)
  PROVE  TabsInv'
<1> USE DEF TabsInv
<1>z. Request(r) /\ IsCall(r) /\ IsTable(saved) /\ r.kind \in Kinds \ {"create"}
  BY DEF Request, SavedTyped
<1>w. PICK data : data = IF stage = "ok" THEN saved' ELSE <<>>
  OBVIOUS
<1>0. PICK c : Served(c, r, r.id, stage, data) /\ calls' = (calls \ {r}) \union {c}
  BY <1>z, <1>w, ServedDone DEF Done
<1>a. /\ c.kind = r.kind /\ c.id = r.id /\ c.body = r.body /\ c.button = r.button /\ IsCall(c)
      /\ c.live = r.live /\ c.stage = stage /\ c.data = data
  BY <1>0 DEF Served
<1>b. UNCHANGED minted /\ saved' = Saved(r)
  BY DEF Done
<1>c. /\ IsTable(saved') /\ DOMAIN saved' \subseteq DOMAIN saved
      /\ r.kind \in Lists => saved' = saved
      /\ r.kind \in {"refresh", "patch", "edit"} => DOMAIN saved' = DOMAIN saved /\ r.id \in DOMAIN saved
  BY <1>z, <1>b, SavedBy
<1>d. r.kind \in {"patch", "edit"} =>
        /\ saved' = Rewritten(saved, r.id, r.body)
        /\ HasWritten(saved', saved, r.id, r.body)
  BY <1>z, <1>b, SavedBy
<1>e. OnlyEdited(saved', r)
  BY <1>z, <1>b, SavedBy
<1>y. UNCHANGED <<tab, loaded, options, chosen, settings, busy, rows, edit, filter, offered,
                 listing, behind, confirmed>>
  BY DEF Serve, xtream, manage, channels
<1>x. ~behind => \A q \in calls : q.kind \in Writes \/ r.kind \in Writes => q = r
  BY DEF Orderly
<1>1. SavedTyped'
  BY <1>y, <1>b, <1>c DEF SavedTyped
<1>2. XtreamTyped'
  BY <1>y DEF XtreamTyped
<1>3. ManageTyped'
  BY <1>y DEF ManageTyped
<1>4. ChannelsTyped'
  BY <1>y DEF ChannelsTyped
<1>5. (\A q \in calls : Request(q))'
  <2>1. IsTable(data)
    BY <1>c, <1>w, NoneIsTable
  <2>2. r.kind \in {"patch", "edit", "refresh"} /\ stage = "ok" => r.id \in DOMAIN data
    BY <1>c, <1>w
  <2>3. Request(c)
    BY <1>z, <1>a, <2>1, <2>2 DEF Request, ButtonOf, Stages
  <2> QED BY <1>0, <2>3
<1>6. Spinners'
  BY <1>0, <1>a, <1>y, SpinnersMoved
<1>7. Confirmed'
  <2>1. NothingUnconfirmed'
    BY <1>c, <1>e, <1>y DEF Confirmed, NothingUnconfirmed, OnlyEdited
  <2> QED BY <1>0, <1>a, <1>y, <2>1 DEF Confirmed
<1>8. ASSUME ~behind' PROVE Orderly'
  <2>1. CASE r.kind \in Lists
    <3>1. c.stage = "ok" => c.data = saved
      BY <1>a, <1>c, <1>w, <2>1
    <3> QED BY <1>0, <1>a, <1>b, <1>c, <1>x, <1>y, <1>8, <2>1, <3>1 DEF Orderly
  <2>2. CASE r.kind \in Writes \ {"create"}
    BY <1>0, <1>a, <1>x, <1>y, <1>8, <2>2 DEF Orderly, Lists, Writes
  <2> QED BY <1>z, <2>1, <2>2 DEF Kinds
<1>9. ASSUME ~behind' PROVE (\A q \in calls : ChangesOne(q))'
  BY <1>0, <1>a, <1>c, <1>x, <1>y, <1>z, <1>9 DEF ChangesOne, Kinds
<1>10. ASSUME ~behind' PROVE XtreamShown'
  <2> SUFFICES ASSUME tab = "xtream" PROVE XtreamShown'
    BY <1>y DEF XtreamShown
  <2>0. r.kind \notin {"edit", "delete"}
    BY <1>y, <1>10 DEF XtreamShown
  <2>1. CASE r.kind = "patch"
    <3>1. XtreamWaits(r) /\ calls' = {c}
      BY <1>0, <1>x, <1>y, <1>10, <2>1 DEF XtreamShown, Writes
    <3>2. /\ r.live /\ SettingsShown /\ r.id = chosen /\ chosen \in DOMAIN loaded
          /\ settings.freq = r.body.freq /\ settings.type = r.body.type /\ saved = loaded
      BY <3>1 DEF XtreamWaits
    <3>3. saved' = [loaded EXCEPT ![chosen] = Patched(@, r.body)] /\ DOMAIN saved' = DOMAIN saved
      BY <1>d, <2>1, <3>2 DEF Rewritten
    <3>4. XtreamWaits(c)'
      BY <1>a, <1>w, <1>y, <3>2, <3>3 DEF XtreamWaits, SettingsShown
    <3> QED BY <1>a, <2>1, <3>1, <3>4 DEF XtreamShown
  <2>2. CASE r.kind \in {"xtreamList", "savedList", "refresh"}
    BY <1>0, <1>a, <1>x, <1>y, <1>10, <2>2 DEF XtreamShown, Writes
  <2>3. CASE r.kind \in {"playlistList", "channelList"}
    <3>1. saved' = saved
      BY <1>c, <2>3 DEF Lists
    <3> QED BY <1>0, <1>a, <1>x, <1>y, <1>10, <2>3, <3>1, XtreamSame DEF XtreamShown
  <2> QED BY <1>z, <2>0, <2>1, <2>2, <2>3 DEF Kinds, Writes, Lists
<1>11. ASSUME ~behind' PROVE ManageShown'
  <2> SUFFICES ASSUME tab = "playlist" PROVE ManageShown'
    BY <1>y DEF ManageShown
  <2>0. r.kind \notin {"refresh", "patch", "create"}
    BY <1>y, <1>11 DEF ManageShown
  <2>1. CASE r.kind = "edit"
    <3>1. RowsWait(r) /\ calls' = {c}
      BY <1>0, <1>x, <1>y, <1>11, <2>1 DEF ManageShown, Writes
    <3>2. /\ r.live /\ DOMAIN rows = DOMAIN saved /\ r.id \in DOMAIN rows
          /\ \A p \in DOMAIN rows, f \in Field \union {"type"} :
               IF p = r.id THEN RowWaits(r, p, f) ELSE RowAgrees(p, f)
      BY <3>1 DEF RowsWait
    <3>3. ASSUME NEW p \in DOMAIN rows, NEW f \in Field \union {"type"}, stage = "ok"
          PROVE  IF p = r.id THEN RowWaits(c, p, f)' ELSE RowAgrees(p, f)'
      <4>1. saved'[p][f] = IF p = r.id /\ r.body[f] # "" THEN r.body[f] ELSE saved[p][f]
        <5>1. p \in DOMAIN saved /\ f \in Field \union {"freq", "type"}
          BY <3>2
        <5>2. HasWritten(saved', saved, r.id, r.body)
          BY <1>d, <2>1
        <5> QED BY <5>1, <5>2 DEF HasWritten
      <4>2. CASE p = r.id
        <5>1. RowWaits(r, p, f)
          BY <3>2, <4>2
        <5> QED BY <1>a, <1>y, <3>3, <4>1, <4>2, <5>1 DEF RowWaits
      <4>3. CASE p # r.id
        <5>1. RowAgrees(p, f)
          BY <3>2, <4>3
        <5> QED BY <1>y, <4>1, <4>3, <5>1 DEF RowAgrees
      <4> QED BY <4>2, <4>3
    <3>4. RowsWait(c)'
      BY <1>a, <1>c, <1>y, <2>1, <3>2, <3>3 DEF RowsWait
    <3> QED BY <1>a, <2>1, <3>1, <3>4 DEF ManageShown
  <2>2. CASE r.kind \in {"playlistList", "delete"}
    BY <1>0, <1>a, <1>x, <1>y, <1>11, <2>2 DEF ManageShown, Writes
  <2>3. CASE r.kind \in {"xtreamList", "savedList", "channelList"}
    <3>1. saved' = saved
      BY <1>c, <2>3 DEF Lists
    <3> QED BY <1>0, <1>a, <1>x, <1>y, <1>11, <2>3, <3>1, RowsSame DEF ManageShown
  <2> QED BY <1>z, <2>0, <2>1, <2>2, <2>3 DEF Kinds, Writes, Lists
<1>12. ASSUME ~behind' PROVE ChannelsShown'
  BY <1>0, <1>a, <1>c, <1>y, <1>z, <1>12 DEF ChannelsShown, Kinds
<1> QED BY <1>1, <1>2, <1>3, <1>4, <1>5, <1>6, <1>7, <1>8, <1>9, <1>10, <1>11, <1>12

LEMMA ServeCreateInv ==
  ASSUME TabsInv, NEW r \in calls, r.kind = "create", r.stage = "sent",
         minted < MaxPlaylists, minted' = minted + 1, NEW ok \in BOOLEAN,
         saved' = [p \in DOMAIN saved \union {minted'} |->
                     IF p = minted' THEN Fresh(ok) ELSE saved[p]],
         calls' = (calls \ {r}) \union
           {[r EXCEPT !.id = minted', !.stage = IF ok THEN "ok" ELSE "failed"]}, Serve(r)
  PROVE  TabsInv'
<1> USE DEF TabsInv
<1>z. Request(r) /\ IsCall(r) /\ IsTable(saved)
  BY DEF Request, SavedTyped
<1>w. PICK stage \in {"ok", "failed"} : stage = IF ok THEN "ok" ELSE "failed"
  OBVIOUS
<1>0. PICK c : Served(c, r, minted', stage, r.data) /\ calls' = (calls \ {r}) \union {c}
  BY <1>z, <1>w, ServedNew
<1>a. /\ c.kind = r.kind /\ c.id = minted' /\ c.body = r.body /\ c.button = r.button /\ IsCall(c)
      /\ c.live = r.live /\ c.stage = stage /\ c.data = r.data
  BY <1>0 DEF Served
<1>b. minted' \in Playlist /\ 1 .. minted \subseteq 1 .. minted' /\ minted' \in 1 .. minted'
  <2>1. MaxPlaylists \in Nat /\ minted \in 1 .. MaxPlaylists
    BY PlaylistTabsAssumption DEF SavedTyped, Playlist
  <2>2. minted' \in 1 .. MaxPlaylists /\ 1 .. minted \subseteq 1 .. minted' /\ minted' \in 1 .. minted'
    BY <2>1
  <2> QED BY <2>2 DEF Playlist
<1>c. /\ Fresh(ok) \in Row /\ \A f \in Field : Fresh(ok)[f] = FirstText
  BY FreshIsRow
<1>d. /\ DOMAIN saved' = DOMAIN saved \union {minted'} /\ saved' = [p \in DOMAIN saved' |-> saved'[p]]
      /\ \A p \in DOMAIN saved' : saved'[p] = IF p = minted' THEN Fresh(ok) ELSE saved[p]
  OBVIOUS
<1>e. IsTable(saved')
  BY <1>b, <1>c, <1>d, <1>z DEF IsTable
<1>y. UNCHANGED <<tab, loaded, options, chosen, settings, busy, rows, edit, filter, offered,
                 listing, behind, confirmed>>
  BY DEF Serve, xtream, manage, channels
<1>x. ~behind => \A q \in calls : q.kind \in Writes \/ r.kind \in Writes => q = r
  BY DEF Orderly
<1>1. SavedTyped'
  BY <1>y, <1>b, <1>d, <1>e DEF SavedTyped
<1>2. XtreamTyped'
  BY <1>y DEF XtreamTyped
<1>3. ManageTyped'
  BY <1>y DEF ManageTyped
<1>4. ChannelsTyped'
  BY <1>y DEF ChannelsTyped
<1>5. (\A q \in calls : Request(q))'
  <2>1. Request(c)
    BY <1>z, <1>a DEF Request, ButtonOf, Stages, Lists
  <2> QED BY <1>0, <2>1
<1>6. Spinners'
  BY <1>0, <1>a, <1>y, SpinnersMoved
<1>7. Confirmed'
  <2>1. ASSUME NEW p \in DOMAIN saved', NEW f \in Field
        PROVE  <<p, f, saved'[p][f]>> \in confirmed
    <3>1. CASE p = minted'
      BY <1>b, <1>c, <1>d, <3>1 DEF Confirmed
    <3>2. CASE p # minted'
      BY <3>2 DEF Confirmed, NothingUnconfirmed
    <3> QED BY <3>1, <3>2
  <2> QED BY <1>0, <1>a, <1>y, <2>1 DEF Confirmed, NothingUnconfirmed
<1>8. ASSUME ~behind' PROVE Orderly'
  <2>1. calls' = {c}
    BY <1>0, <1>x, <1>y, <1>8 DEF Writes
  <2> QED BY <1>a, <1>d, <2>1 DEF Orderly, Lists
<1>9. ASSUME ~behind' PROVE (\A q \in calls : ChangesOne(q))'
  BY <1>0, <1>a, <1>x, <1>y, <1>9 DEF ChangesOne, Writes
<1>10. ASSUME ~behind' PROVE XtreamShown'
  BY <1>0, <1>a, <1>x, <1>y, <1>10 DEF XtreamShown, Writes
<1>11. ASSUME ~behind' PROVE ManageShown'
  BY <1>y, <1>11 DEF ManageShown
<1>12. ASSUME ~behind' PROVE ChannelsShown'
  BY <1>y, <1>12 DEF ChannelsShown, Writes
<1> QED BY <1>1, <1>2, <1>3, <1>4, <1>5, <1>6, <1>7, <1>8, <1>9, <1>10, <1>11, <1>12

LEMMA StutterInv ==
  ASSUME TabsInv, UNCHANGED vars
  PROVE  TabsInv'
<1> USE DEF vars, server, xtream, manage, channels
<1>1. SavedTyped' /\ XtreamTyped' /\ ManageTyped' /\ ChannelsTyped'
  BY DEF TabsInv, SavedTyped, XtreamTyped, ManageTyped, ChannelsTyped
<1>2. (\A r \in calls : Request(r))' /\ Spinners' /\ Confirmed'
  BY DEF TabsInv, Spinners, BusyUntilAnswered, Confirmed, NothingUnconfirmed
<1>3. ASSUME ~behind' PROVE Orderly' /\ (\A r \in calls : ChangesOne(r))'
  BY <1>3 DEF TabsInv, Orderly, ChangesOne
<1>4. ASSUME ~behind' PROVE XtreamShown' /\ ManageShown'
  BY <1>4, XtreamSame, RowsSame DEF TabsInv, XtreamShown, ManageShown
<1>5. ASSUME ~behind' PROVE ChannelsShown'
  BY <1>5 DEF TabsInv, ChannelsShown
<1> QED BY <1>1, <1>2, <1>3, <1>4, <1>5 DEF TabsInv

LEMMA InitInv == Init => TabsInv
<1> SUFFICES ASSUME Init PROVE TabsInv
  OBVIOUS
<1>1. SavedTyped
  <2>1. PICK late \in BOOLEAN : saved = [p \in 1 .. minted |-> Fresh(p > 1 \/ late)]
    BY DEF Init
  <2>2. \A ok \in BOOLEAN : Fresh(ok) \in Row
    BY FreshIsRow
  <2>3. minted \in Playlist /\ 1 .. minted \subseteq Playlist
    <3>1. MaxPlaylists \in Nat /\ minted \in 1 .. MaxPlaylists
      BY PlaylistTabsAssumption DEF Init
    <3>2. 1 .. minted \subseteq 1 .. MaxPlaylists
      BY <3>1
    <3> QED BY <3>1, <3>2 DEF Playlist
  <2>4. \A p \in 1 .. minted : saved[p] \in Row
    <3> SUFFICES ASSUME NEW p \in 1 .. minted PROVE saved[p] \in Row
      OBVIOUS
    <3>1. PICK ok \in BOOLEAN : ok = (p > 1 \/ late)
      OBVIOUS
    <3> QED BY <2>1, <2>2, <3>1
  <2>5. DOMAIN saved = 1 .. minted /\ saved = [p \in DOMAIN saved |-> saved[p]]
    BY <2>1
  <2>6. IsTable(saved)
    BY <2>3, <2>4, <2>5 DEF IsTable
  <2> QED BY <2>3, <2>5, <2>6 DEF SavedTyped, Init, Tab
<1>2. XtreamTyped
  BY NoneIsTable, PlaylistTabsAssumption DEF Init, XtreamTyped
<1>3. ManageTyped
  <2>1. rows = <<>> /\ edit = NoEdit
    BY DEF Init
  <2>2. rows = [p \in DOMAIN rows |-> rows[p]] /\ DOMAIN rows = {}
    BY <2>1, NoneIsTable DEF IsTable
  <2> QED BY <2>1, <2>2 DEF ManageTyped, NoEdit, Texts
<1>4. ChannelsTyped
  BY DEF Init, ChannelsTyped
<1>5. Spinners
  BY DEF Init, Spinners, BusyUntilAnswered
<1>6. Confirmed
  <2>1. PICK late \in BOOLEAN : saved = [p \in 1 .. minted |-> Fresh(p > 1 \/ late)]
    BY DEF Init
  <2>2. ASSUME NEW p \in DOMAIN saved, NEW f \in Field PROVE saved[p][f] = FirstText /\ p \in Playlist
    <3>1. \A ok : Fresh(ok)[f] = FirstText
      BY DEF Fresh, Field
    <3> QED BY <1>1, <2>1, <3>1 DEF SavedTyped, IsTable
  <2> QED BY <2>2 DEF Init, Confirmed, NothingUnconfirmed
<1>7. Orderly /\ XtreamShown /\ ManageShown /\ ChannelsShown
  BY DEF Init, Orderly, XtreamShown, ManageShown, ChannelsShown
<1> QED BY <1>1, <1>2, <1>3, <1>4, <1>5, <1>6, <1>7 DEF Init, TabsInv

-----------------------------------------------------------------------------
(* The steps together. *)

LEMMA InXtreamTabInv ==
  ASSUME TabsInv, edit = NoEdit, InXtreamTab
  PROVE  TabsInv'
<1>0. tab = "xtream"
  BY DEF InXtreamTab
<1>1. ASSUME NEW p \in options, ChangeSaved(p) PROVE TabsInv'
  BY <1>0, <1>1, ChangeSavedImportedInv, ChangeSavedImportInv
<1>2. ASSUME Refresh PROVE TabsInv'
  BY <1>0, <1>2, RefreshInv
<1>3. ASSUME Save PROVE TabsInv'
  BY <1>0, <1>3, SaveInv
<1>4. ASSUME NEW freq \in Freq, NEW type \in Type, ChangeSetting(freq, type) PROVE TabsInv'
  BY <1>0, <1>4, ChangeSettingInv, ChangeSettingNoneInv
<1> QED BY <1>1, <1>2, <1>3, <1>4 DEF InXtreamTab

LEMMA InPlaylistTabInv ==
  ASSUME TabsInv, InPlaylistTab
  PROVE  TabsInv'
<1>0. tab = "playlist"
  BY DEF InPlaylistTab
<1>1. ASSUME NEW p \in DOMAIN rows, NEW f \in Field, StartEdit(p, f) PROVE TabsInv'
  BY <1>0, <1>1, StartEditInv
<1>2. ASSUME NEW p \in DOMAIN rows, NEW type \in Type, ChangeRowType(p, type) PROVE TabsInv'
  BY <1>0, <1>2, ChangeRowTypeInv
<1>3. ASSUME NEW p \in DOMAIN rows, RemovePlaylist(p) PROVE TabsInv'
  BY <1>0, <1>3, RemovePlaylistInv
<1> QED BY <1>1, <1>2, <1>3 DEF InPlaylistTab

LEMMA UserInv ==
  ASSUME TabsInv, User
  PROVE  TabsInv'
<1>1. CASE edit # NoEdit
  <2>1. ASSUME NEW text \in Text, TypeText(text) PROVE TabsInv'
    BY <2>1, TypeTextInv
  <2>2. ASSUME NEW save \in BOOLEAN, Finish(save) PROVE TabsInv'
    BY <1>1, <2>2, FinishNoneInv, FinishOneInv
  <2> QED BY <1>1, <2>1, <2>2 DEF User
<1>2. CASE edit = NoEdit
  <2>1. ASSUME InXtreamTab PROVE TabsInv'
    BY <1>2, <2>1, InXtreamTabInv
  <2>2. ASSUME InPlaylistTab PROVE TabsInv'
    BY <2>2, InPlaylistTabInv
  <2>3. ASSUME InChannelsTab PROVE TabsInv'
    <3>1. PICK p \in offered : ChangeFilter(p)
      BY <2>3 DEF InChannelsTab
    <3> QED BY <3>1, ChangeFilterInv
  <2>4. ASSUME CloseAddChannel PROVE TabsInv'
    BY <1>2, <2>4, CloseAddChannelInv
  <2>5. ASSUME NEW t \in Tab, SetAddTab(t) PROVE TabsInv'
    <3>1. CASE t = "manual"
      BY <1>2, <2>5, <3>1, SetAddTabManualInv
    <3>2. CASE t \in {"xtream", "playlist", "channels"}
      BY <1>2, <2>5, <3>2, SetAddTabListInv
    <3> QED BY <3>1, <3>2 DEF Tab
  <2> QED BY <1>2, <2>1, <2>2, <2>3, <2>4, <2>5 DEF User
<1> QED BY <1>1, <1>2

LEMMA ServeInv ==
  ASSUME TabsInv, NEW r \in calls, Serve(r)
  PROVE  TabsInv'
<1>0. r.stage = "sent"
  BY DEF Serve
<1>1. CASE r.kind # "create" /\ (r.id = 0 \/ r.id \in DOMAIN saved)
           /\ \E stage \in {"ok", "failed"} : Done(r, stage)
  <2>1. PICK stage \in {"ok", "failed"} : Done(r, stage)
    BY <1>1
  <2> QED BY <1>0, <1>1, ServeDoneInv
<1>2. ASSUME r.kind = "create", minted < MaxPlaylists, minted' = minted + 1, NEW ok \in BOOLEAN,
             saved' = [p \in DOMAIN saved \union {minted'} |->
                         IF p = minted' THEN Fresh(ok) ELSE saved[p]],
             calls' = (calls \ {r}) \union
               {[r EXCEPT !.id = minted', !.stage = IF ok THEN "ok" ELSE "failed"]}
      PROVE  TabsInv'
  BY <1>0, <1>2, ServeCreateInv
<1>3. CASE calls' = (calls \ {r}) \union {[r EXCEPT !.stage = "failed"]} /\ UNCHANGED server
  BY <1>3, ServeUndoneInv
<1> QED BY <1>1, <1>2, <1>3 DEF Serve

LEMMA AnswerInv ==
  ASSUME TabsInv, Answer
  PROVE  TabsInv'
<1>0. PICK r \in calls :
        \/ Serve(r)
        \/ XtreamListAnswered(r) \/ ImportAnswered(r) \/ SaveAnswered(r) \/ PatchAnswered(r)
        \/ EditAnswered(r) \/ DeleteAnswered(r) \/ PlaylistListAnswered(r)
        \/ ChannelListAnswered(r)
  BY DEF Answer
<1>1. CASE Serve(r)
  BY <1>1, ServeInv
<1>2. CASE XtreamListAnswered(r)
  BY <1>2, XtreamRenderedInv, XtreamIgnoredInv
<1>3. CASE ImportAnswered(r)
  BY <1>3, ImportOkInv, ImportFailedInv
<1>4. CASE SaveAnswered(r)
  BY <1>4, SaveOkInv, SaveFailedInv
<1>5. CASE PatchAnswered(r)
  BY <1>5, PatchAnsweredInv
<1>6. CASE EditAnswered(r)
  BY <1>6, EditOkInv, EditFailedInv
<1>7. CASE DeleteAnswered(r)
  BY <1>7, DeleteAnsweredInv
<1>8. CASE PlaylistListAnswered(r)
  BY <1>8, PlaylistListAnsweredInv
<1>9. CASE ChannelListAnswered(r)
  BY <1>9, ChannelListAnsweredInv
<1> QED BY <1>0, <1>1, <1>2, <1>3, <1>4, <1>5, <1>6, <1>7, <1>8, <1>9

LEMMA TabsInvHolds == Spec => []TabsInv
<1>1. TabsInv /\ [Next]_vars => TabsInv'
  BY UserInv, AnswerInv, StutterInv DEF Next
<1> QED BY <1>1, InitInv, PTL DEF Spec

-----------------------------------------------------------------------------
(* The tabs have the shape the code takes for granted, and a button waits  *)
(* for exactly the request that will give it back, whatever fails.         *)
THEOREM TabsSound == Spec => []TabsOK
<1>1. TabsInv => TabsOK
  BY DEF TabsInv, SavedTyped, XtreamTyped, ManageTyped, ChannelsTyped, Spinners, TabsOK,
     TypeOK
<1> QED BY <1>1, TabsInvHolds, PTL

(* With nothing under way and nothing to leave it behind, the tab that is  *)
(* shown agrees with the server, after a request that failed as well.      *)
THEOREM AgreesOnceAnswered == Spec => []AgreesAtRest
<1>1. TabsInv => AgreesAtRest
  <2> SUFFICES ASSUME TabsInv, calls = {}, ~behind
               PROVE  AgreesAtRest
    BY DEF AgreesAtRest
  <2>1. ASSUME tab = "xtream"
        PROVE  /\ loaded = saved /\ (chosen = 0 <=> saved = <<>>)
               /\ settings.shown <=> chosen # 0
               /\ chosen # 0 => settings.freq = saved[chosen].freq /\ settings.type = saved[chosen].type
    <3>1. XtreamAgrees
      BY <2>1 DEF TabsInv, XtreamShown
    <3>2. saved = <<>> <=> DOMAIN saved = {}
      BY EmptyTable DEF TabsInv, SavedTyped
    <3> QED BY <3>1, <3>2 DEF XtreamAgrees, SettingsShown
  <2>2. ASSUME tab = "playlist"
        PROVE  /\ DOMAIN rows = DOMAIN saved
               /\ \A p \in DOMAIN rows, f \in Field \union {"type"} : rows[p][f] = saved[p][f]
    BY <2>2 DEF TabsInv, ManageShown, RowsAgree, RowAgrees
  <2>3. ASSUME tab = "channels" PROVE offered = DOMAIN saved
    BY <2>3 DEF TabsInv, ChannelsShown
  <2> QED BY <2>1, <2>2, <2>3 DEF AgreesAtRest
<1> QED BY <1>1, TabsInvHolds, PTL

(* Nothing is saved as a name or address that was not confirmed.           *)
THEOREM OnlyConfirmedIsSaved == Spec => []NothingUnconfirmed
<1>1. TabsInv => NothingUnconfirmed
  BY DEF TabsInv, Confirmed
<1> QED BY <1>1, TabsInvHolds, PTL

(* A settings request changes the one setting the user has changed.        *)
THEOREM SettingsOneByOne == Spec => OneSettingAtATime
<1>1. TabsInv =>
        \A r \in calls :
          r.kind = "patch" /\ Serve(r) /\ ~behind /\ r.id \in DOMAIN saved =>
            saved'[r.id].freq = saved[r.id].freq \/ saved'[r.id].type = saved[r.id].type
  <2> SUFFICES ASSUME TabsInv, NEW r \in calls, r.kind = "patch", Serve(r), ~behind,
                      r.id \in DOMAIN saved
               PROVE  saved'[r.id].freq = saved[r.id].freq \/ saved'[r.id].type = saved[r.id].type
    OBVIOUS
  <2>1. CASE saved' = saved
    BY <2>1
  <2>2. CASE saved' # saved
    <3>1. saved' = Saved(r) /\ r.stage = "sent"
      BY <2>2 DEF Serve, Done, server
    <3>2. r.body.freq = saved[r.id].freq \/ r.body.type = saved[r.id].type
      BY <3>1 DEF TabsInv, ChangesOne
    <3>3. HasWritten(Saved(r), saved, r.id, r.body)
      BY SavedBy DEF TabsInv, SavedTyped
    <3>4. \A f \in {"freq", "type"} :
            saved'[r.id][f] = IF r.body[f] # "" THEN r.body[f] ELSE saved[r.id][f]
      BY <3>1, <3>3 DEF HasWritten
    <3> QED BY <3>2, <3>4
  <2> QED BY <2>1, <2>2
<1> QED BY <1>1, TabsInvHolds, PTL DEF OneSettingAtATime
=============================================================================
