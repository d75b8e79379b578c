------------------------------- MODULE Screens -------------------------------
(***************************************************************************)
(* The screens of the page and their players (web/static/cell.js,          *)
(* player.js, grid.js).                                                    *)
(*                                                                         *)
(* Every screen is given a channel, plays one of its servers with a player *)
(* suited to the link, and goes to the next server when the player fails.  *)
(* A dynamic channel has its link resolved by the server first.  Players   *)
(* and resolves answer later, when the screen may have another channel,    *)
(* another player, or may be gone: a player's answer carries the token of  *)
(* the screen it was started with, a resolve the channel it was made for.  *)
(*                                                                         *)
(* hls.js and mpegts players say nothing once destroyed; the promises of a *)
(* Shaka player settle all the same ("late").  Marks of dead channels are  *)
(* kept per channel (the code: per lower-case name).  A player that failed *)
(* with no server left is taken to stay silent.  A browser that can play   *)
(* HLS in no way at all, where a screen shows an error at once and tries   *)
(* no other server, is left out.                                           *)
(*                                                                         *)
(* A click anywhere but in the settings panel closes it.  Which quality is *)
(* picked there is left out, as are the sound and the recording of screens *)
(* (Recording) and the drawing of anything else.                           *)
(***************************************************************************)
EXTENDS Integers, FiniteSets, Sequences, FiniteSetsExt, SequencesExt

CONSTANTS
  Screen,           \* screen objects, used once each
  MaxCells,         \* MAX_CELLS
  Channel, Dynamic, \* channels; those with a resolver
  KindOf,           \* kinds of the links of a channel's servers, in order
  Supported,        \* kinds of player this browser has
  Recoveries,       \* how often an hls.js player recovers from each error type
  NoChannel, NoPlayer,
  MaxActions        \* bound: actions of the user

Kinds  == {"hls", "dash", "ts"}
Errors == {"network", "media"}

ASSUME ScreensAssumption ==
  /\ MaxCells \in Nat \ {0} /\ MaxActions \in Nat
  /\ Dynamic \subseteq Channel /\ NoChannel \notin Channel
  /\ KindOf \in [Channel -> Seq(Kinds)]
  /\ \A ch \in Channel : Len(KindOf[ch]) > 0
  /\ \A ch \in Dynamic : Len(KindOf[ch]) = 1
  /\ "hls" \in Supported /\ Supported \subseteq Kinds
  /\ Recoveries \in [Errors -> Nat]

VARIABLES
  cells,      \* the screens on the page, in order
  channel,    \* cell.channel
  serverIdx,  \* cell.serverIdx
  failed,     \* cell.failedServers
  token,      \* cell.token
  player,     \* cell.hls, cell.shaka or cell.mpegts
  shown,      \* what setCellState shows
  late,       \* Shaka players destroyed before their promise settled
  resolves,   \* GET /api/resolve calls not yet answered
  linked,     \* dynamic channels with a link in ch.servers
  dead,       \* state.deadMarks
  panel,      \* state.openSettingsCell with what its panel shows: the server
              \* marked, the token of the player whose qualities it offers, 0
              \* for none; {} while no panel is open
  acts,       \* actions of the user so far
  tried       \* history: servers whose own player failed since failed was reset

vars == <<cells, panel, channel, serverIdx, failed, token, player, shown, late,
          resolves, linked, dead, acts, tried>>

\* Indices of ch.servers, the dynamic channels in lk having their link.
Servers(ch, lk) == IF ch \in Dynamic \ lk THEN {} ELSE DOMAIN KindOf[ch]

ServerNumbers == UNION {DOMAIN KindOf[ch] : ch \in Channel}

Player == [channel : Channel, server : Nat, kind : Kinds, token : Nat,
           phase : {"starting", "silent", "playing", "failed"}, recovered : [Errors -> Nat]]

ASSUME NoPlayerIsNone == NoPlayer \notin Player

FirstOf(positions) == IF positions = {} THEN 0 ELSE Min(positions)

OnPage == ToSet(cells)

Init ==
  /\ \E s \in Screen : cells = <<s>>
  /\ channel   = [s \in Screen |-> NoChannel]
  /\ serverIdx = [s \in Screen |-> 1]
  /\ failed    = [s \in Screen |-> {}]
  /\ token     = [s \in Screen |-> 0]
  /\ player    = [s \in Screen |-> NoPlayer]
  /\ shown     = [s \in Screen |-> "idle"]
  /\ late = {} /\ resolves = {} /\ dead = {}
  /\ linked \in SUBSET Dynamic
  /\ panel = {} /\ acts = 0
  /\ tried     = [s \in Screen |-> {}]

-----------------------------------------------------------------------------
(* destroyCellPlayer: the token moves on; a Shaka promise stays behind. *)
LateOf(s) ==
  IF player[s] # NoPlayer /\ player[s].kind = "dash" /\ player[s].phase = "starting"
    THEN {[screen |-> s, token |-> player[s].token]} ELSE {}

Destroy(s) ==
  /\ token'  = [token EXCEPT ![s] = @ + 1]
  /\ player' = [player EXCEPT ![s] = NoPlayer]
  /\ late'   = late \union LateOf(s)

GiveUp(s, ch) ==
  /\ shown' = [shown EXCEPT ![s] = "error"]
  /\ dead'  = dead \union {ch}

(* startCellPlayback of channel ch, whose servers are sv, from server i on *)
(* with f failed and t tried.  A link the browser has no player for fails  *)
(* at once and the next server is tried within the call: j is the server   *)
(* this ends with, or 0, and the servers passed over have failed.          *)
StartPlayback(s, ch, sv, i, f, t) ==
  IF sv = {}
    THEN /\ shown' = [shown EXCEPT ![s] = "error"]
         /\ serverIdx' = [serverIdx EXCEPT ![s] = i]
         /\ failed' = [failed EXCEPT ![s] = f]
         /\ tried'  = [tried EXCEPT ![s] = t]
         /\ UNCHANGED <<token, player, late, dead>>
    ELSE LET playable(k) == KindOf[ch][k] \in Supported
             j == IF playable(i) THEN i
                  ELSE FirstOf({k \in sv \ (f \union {i}) : playable(k)})
             passed == IF playable(i) THEN {}
                       ELSE {i} \union {k \in sv \ f : j = 0 \/ k < j}
         IN /\ token' = [token EXCEPT ![s] = @ + 1]
            /\ late'  = late \union LateOf(s)
            /\ failed' = [failed EXCEPT ![s] = f \union passed]
            /\ tried'  = [tried EXCEPT ![s] = t \union passed]
            /\ serverIdx' = [serverIdx EXCEPT ![s] = IF j = 0 THEN Max(passed) ELSE j]
            /\ IF j = 0
                 THEN player' = [player EXCEPT ![s] = NoPlayer] /\ GiveUp(s, ch)
                 ELSE /\ player' = [player EXCEPT ![s] =
                           [channel |-> ch, server |-> j, kind |-> KindOf[ch][j],
                            token |-> token[s] + 1, phase |-> "starting",
                            recovered |-> [e \in Errors |-> 0]]]
                      /\ shown' = [shown EXCEPT ![s] = "loading"]
                      /\ UNCHANGED dead

\* Wrong on purpose: gives up at the end of the list, whatever was not tried.
FailoverForward(s) ==
  LET ch == channel[s]
      f  == failed[s] \union {serverIdx[s]}
      rest == {i \in Servers(ch, linked) \ f : i > serverIdx[s]}
  IN IF rest # {}
       THEN StartPlayback(s, ch, Servers(ch, linked), Min(rest), f, f)
       ELSE /\ GiveUp(s, ch)
            /\ failed' = [failed EXCEPT ![s] = f]
            /\ tried'  = [tried EXCEPT ![s] = f]
            /\ player' = [player EXCEPT ![s].phase = "failed"]
            /\ UNCHANGED <<token, late, serverIdx>>

(* failover, called by a player whose token is the screen's. *)
Failover(s) ==
  LET ch == channel[s]
      f  == failed[s] \union {serverIdx[s]}
      t  == IF player[s].channel = ch THEN tried[s] \union {serverIdx[s]} ELSE tried[s]
      rest == Servers(ch, linked) \ f
  IN IF rest # {}
       THEN StartPlayback(s, ch, Servers(ch, linked), Min(rest), f, t)
       ELSE /\ GiveUp(s, ch)
            /\ failed' = [failed EXCEPT ![s] = f]
            /\ tried'  = [tried EXCEPT ![s] = t]
            /\ player' = [player EXCEPT ![s].phase = "failed"]
            /\ UNCHANGED <<token, late, serverIdx>>

-----------------------------------------------------------------------------
(* The settings panel.  A player offers qualities once it plays, if it is  *)
(* not an mpegts player.                                                   *)

PanelOf(s) == {p \in panel : p.screen = s}

Quality(s) == IF player'[s] # NoPlayer /\ player'[s].phase = "playing" /\ player'[s].kind # "ts"
                THEN player'[s].token ELSE 0

RenderSettings(s) ==
  panel' = {[screen |-> s, server |-> serverIdx'[s], quality |-> Quality(s)]}

RefreshSettings(s) == IF PanelOf(s) # {} THEN RenderSettings(s) ELSE UNCHANGED panel

-----------------------------------------------------------------------------
(* What the user does. *)

\* assignChannel: a dynamic channel waits for its link, the old player going on.
AssignChannel(s, ch) ==
  /\ channel' = [channel EXCEPT ![s] = ch]
  /\ IF ch \in Dynamic
       THEN /\ serverIdx' = [serverIdx EXCEPT ![s] = 1]
            /\ failed' = [failed EXCEPT ![s] = {}]
            /\ tried'  = [tried EXCEPT ![s] = {}]
            /\ shown'  = [shown EXCEPT ![s] = "loading"]
            /\ resolves' = resolves \union {[screen |-> s, channel |-> ch, act |-> acts]}
            /\ UNCHANGED <<token, player, late, dead>>
       ELSE /\ StartPlayback(s, ch, Servers(ch, linked), 1, {}, {})
            /\ UNCHANGED resolves
  /\ panel' = {} /\ UNCHANGED <<cells, linked>>

\* retryCell, from the error overlay.
RetryCell(s) ==
  /\ channel[s] # NoChannel /\ shown[s] = "error"
  /\ StartPlayback(s, channel[s], Servers(channel[s], linked), 1, {}, {})
  /\ panel' = {} /\ UNCHANGED <<cells, channel, linked, resolves>>

\* Another server chosen in the settings panel.
ChooseServer(s, i) ==
  /\ PanelOf(s) # {} /\ Cardinality(Servers(channel[s], linked)) > 1
  /\ i \in Servers(channel[s], linked) \ {serverIdx[s]}
  /\ StartPlayback(s, channel[s], Servers(channel[s], linked), i, {}, {})
  /\ RenderSettings(s)
  /\ UNCHANGED <<cells, channel, linked, resolves>>

\* toggleCellSettings; closeCellSettings.
ToggleSettings(s) ==
  /\ UNCHANGED <<cells, channel, serverIdx, failed, token, player, shown, late,
                 resolves, linked, dead, tried>>
  /\ IF PanelOf(s) # {} \/ channel[s] = NoChannel THEN panel' = {} ELSE RenderSettings(s)

\* Wrong on purpose: the screen is emptied, its player goes on.
ClearCellKeepsPlayer(s) ==
  LET rest == [channel EXCEPT ![s] = NoChannel]
  IN /\ channel[s] # NoChannel
     /\ channel' = rest
     /\ shown' = [shown EXCEPT ![s] = "idle"]
     /\ panel' = {}
     /\ UNCHANGED <<cells, serverIdx, failed, tried, linked, resolves, dead, token, player, late>>

ClearCell(s) ==
  LET rest == [channel EXCEPT ![s] = NoChannel]
  IN /\ channel[s] # NoChannel
     /\ Destroy(s)
     /\ channel' = rest
     /\ shown' = [shown EXCEPT ![s] = "idle"]
     /\ panel' = {}
     /\ UNCHANGED <<cells, serverIdx, failed, tried, linked, resolves, dead>>

AddCell ==
  /\ Len(cells) < MaxCells
  /\ \E s \in Screen \ OnPage : token[s] = 0 /\ cells' = Append(cells, s)
  /\ panel' = {}
  /\ UNCHANGED <<channel, serverIdx, failed, token, player, shown, late,
                 resolves, linked, dead, tried>>

\* removeCell: the last screen leaves the page; its channel is not reset.
RemoveCell ==
  /\ Len(cells) > 1
  /\ cells' = Front(cells)
  /\ Destroy(Last(cells))
  /\ panel' = {}
  /\ UNCHANGED <<channel, serverIdx, failed, tried, shown, linked, resolves, dead>>

User ==
  /\ acts < MaxActions /\ acts' = acts + 1
  /\ \/ \E s \in OnPage :
          \/ \E ch \in Channel : AssignChannel(s, ch)
          \/ RetryCell(s)
          \/ \E i \in ServerNumbers : ChooseServer(s, i)
          \/ ToggleSettings(s)
          \/ ClearCell(s)
     \/ AddCell
     \/ RemoveCell

-----------------------------------------------------------------------------
(* What players and the server answer. *)

\* Wrong on purpose: any player may speak for the screen.
OnCellPlayingUnchecked(s, t) ==
  /\ shown' = [shown EXCEPT ![s] = "playing"]
  /\ dead'  = dead \ {channel[s]}

OnCellPlaying(s, t) ==
  IF t # token[s]
    THEN UNCHANGED <<shown, dead>>
    ELSE /\ shown' = [shown EXCEPT ![s] = "playing"]
         /\ dead'  = dead \ {channel[s]}

Starting(s) == player[s] # NoPlayer /\ player[s].phase = "starting"
Silent(s)   == player[s] # NoPlayer /\ player[s].phase = "silent"

\* An mpegts player leaves the panel as it is.
PlayerPlays(s) ==
  /\ Starting(s)
  /\ OnCellPlaying(s, player[s].token)
  /\ player' = [player EXCEPT ![s].phase = "playing"]
  /\ UNCHANGED <<cells, channel, serverIdx, failed, token, late, resolves, linked, acts, tried>>
  /\ IF player[s].kind = "ts" THEN UNCHANGED panel ELSE RefreshSettings(s)

\* No event will come of this player any more, and nothing has failed.  A fatal
\* error hls.js has before its manifest is parsed is answered with startLoad or
\* recoverMediaError, which have no effect then.  mpegts ends a stream without
\* its metadata with an event the page does not listen for.
PlayerFallsSilent(s) ==
  /\ Starting(s) /\ player[s].kind # "dash"
  /\ player[s].kind = "hls" => \E e \in Errors : Recoveries[e] > 0
  /\ player' = [player EXCEPT ![s].phase = "silent"]
  /\ UNCHANGED <<cells, panel, channel, serverIdx, failed, token, shown, late, resolves,
                 linked, dead, acts, tried>>

\* A fatal error of a playing hls.js, recovered from as often as its type allows
\* in a row.
PlayerRecovers(s, e) ==
  /\ player[s] # NoPlayer /\ player[s].phase = "playing" /\ player[s].kind = "hls"
  /\ player[s].recovered[e] < Recoveries[e]
  /\ player' = [player EXCEPT ![s].recovered[e] = @ + 1]
  /\ UNCHANGED <<cells, panel, channel, serverIdx, failed, token, shown, late, resolves,
                 linked, dead, acts, tried>>

\* A fragment arrives: errors are counted anew.
FragBuffered(s) ==
  /\ player[s] # NoPlayer /\ player[s].phase = "playing" /\ player[s].kind = "hls"
  /\ player' = [player EXCEPT ![s].recovered = [e \in Errors |-> 0]]
  /\ UNCHANGED <<cells, panel, channel, serverIdx, failed, token, shown, late, resolves,
                 linked, dead, acts, tried>>

\* A fatal error of another type, one too many, or of another player.
PlayerFails(s) ==
  /\ player[s] # NoPlayer /\ player[s].phase \in {"starting", "playing"}
  /\ player[s].token = token[s]
  /\ Failover(s)
  /\ UNCHANGED <<cells, panel, channel, resolves, linked, acts>>

\* A Shaka promise settles after its player was destroyed.  When it succeeds the
\* panel is drawn anew, whatever the token.
LatePlayerSettles(p) ==
  /\ late' = late \ {p}
  /\ UNCHANGED <<cells, channel, serverIdx, failed, token, player, resolves, linked, acts, tried>>
  /\ \/ OnCellPlaying(p.screen, p.token) /\ RefreshSettings(p.screen)
     \/ p.token # token[p.screen] /\ UNCHANGED <<shown, dead, panel>>

\* Wrong on purpose: a resolve that fails is not shown.
ResolveAnswersQuietly(r, ok) ==
  LET s == r.screen
      ch == r.channel
      lk == IF ok THEN linked \union {ch} ELSE linked
  IN /\ resolves' = resolves \ {r}
     /\ linked' = lk
     /\ IF channel[s] = ch /\ ok
          THEN StartPlayback(s, ch, Servers(ch, lk), serverIdx[s], failed[s], tried[s])
          ELSE UNCHANGED <<token, player, late, dead, serverIdx, failed, tried, shown>>
     /\ UNCHANGED <<cells, panel, channel, acts>>

\* GET /api/resolve answers; the link is stored in the shared channel object.
ResolveAnswers(r, ok) ==
  LET s == r.screen
      ch == r.channel
      lk == IF ok THEN linked \union {ch} ELSE linked
      unstarted == UNCHANGED <<token, player, late, dead, serverIdx, failed, tried>>
  IN /\ resolves' = resolves \ {r}
     /\ linked' = lk
     /\ IF channel[s] # ch
          THEN unstarted /\ UNCHANGED shown
          ELSE IF ok
            THEN StartPlayback(s, ch, Servers(ch, lk), serverIdx[s], failed[s], tried[s])
            ELSE unstarted /\ shown' = [shown EXCEPT ![s] = "error"]
     /\ UNCHANGED <<cells, panel, channel, acts>>

PlayerStep(s) ==
  PlayerPlays(s) \/ PlayerFails(s) \/ PlayerFallsSilent(s) \/ \E e \in Errors : PlayerRecovers(s, e)
Answer == \E r \in resolves, ok \in BOOLEAN : ResolveAnswers(r, ok)

Next ==
  \/ User
  \/ \E s \in Screen : PlayerStep(s) \/ FragBuffered(s)
  \/ \E p \in late : LatePlayerSettles(p)
  \/ Answer

Spec == Init /\ [][Next]_vars

\* A starting player plays, fails or falls silent; the server answers resolves.
FairSpec == Spec /\ WF_vars(Answer)
                 /\ \A s \in Screen : WF_vars(Starting(s) /\ PlayerStep(s))

-----------------------------------------------------------------------------
TypeOK ==
  /\ OnPage \subseteq Screen /\ Len(cells) \in 1 .. MaxCells
  /\ channel \in [Screen -> Channel \union {NoChannel}]
  /\ serverIdx \in [Screen -> Nat \ {0}]
  /\ failed \in [Screen -> SUBSET Nat] /\ tried \in [Screen -> SUBSET Nat]
  /\ token \in [Screen -> Nat]
  /\ \A s \in Screen : player[s] = NoPlayer \/ player[s] \in Player
  /\ shown \in [Screen -> {"idle", "loading", "playing", "error"}]
  /\ late \subseteq [screen : Screen, token : Nat]
  /\ resolves \subseteq [screen : Screen, channel : Dynamic, act : Nat]
  /\ linked \subseteq Dynamic /\ dead \subseteq Channel
  /\ Cardinality(panel) <= 1 /\ acts \in 0 .. MaxActions
  /\ \A p \in panel : p.screen \in OnPage /\ channel[p.screen] # NoChannel

(* A screen plays the channel it names, or none (clearCell, startCell-     *)
(* Playback), and one that has left the page plays nothing (removeCell).   *)
(* Another channel's player is left only behind a dynamic channel, which   *)
(* starts when its link is there: even on a screen that is gone, since     *)
(* nothing tells the answer.                                               *)
PlaysWhatItNames ==
  \A s \in Screen : player[s] # NoPlayer /\ channel[s] \notin Dynamic =>
    s \in OnPage /\ player[s].channel = channel[s]

(* What a screen says of its player is true of the player it has now, not  *)
(* of one it had before: it says "playing" only when that player has       *)
(* played, "loading" only while it starts, has fallen silent or a link is  *)
(* awaited.                                                                *)
ShownIsCurrent ==
  \A s \in OnPage : channel[s] \notin Dynamic =>
    /\ shown[s] = "playing" <=> (player[s] # NoPlayer /\ player[s].phase = "playing")
    /\ shown[s] = "loading" <=> (Starting(s) \/ Silent(s))

(* An open settings panel marks the server that plays and offers the       *)
(* qualities of its player, whatever failed since it was opened: picking a *)
(* quality there reaches the player on the screen.  Only an mpegts player  *)
(* leaves the panel of the player before it.                               *)
PanelIsCurrent ==
  \A p \in panel :
    LET playing == player[p.screen]
    IN playing # NoPlayer /\ playing.phase = "playing" /\ playing.kind # "ts" =>
         p.server = serverIdx[p.screen] /\ p.quality = playing.token

(* A channel with fixed links is marked dead only when a screen that shows *)
(* it has seen each of its servers fail (failover).                        *)
DeadWhenAllFailed ==
  [][\A ch \in (dead' \ dead) \ Dynamic :
       \E s \in Screen : channel'[s] = ch /\ tried'[s] = DOMAIN KindOf[ch]]_vars

(* A screen stays at "Connecting..." only when the player of the channel   *)
(* it names has fallen silent (an hls.js player that failed to get its     *)
(* manifest, an mpegts player whose stream ended before its metadata).     *)
(* Otherwise players and resolves answer, and failover comes to an end.    *)
Stuck(s) ==
  /\ Silent(s) /\ player[s].channel = channel[s]
  /\ ~\E r \in resolves : r.screen = s /\ r.channel = channel[s]

LoadingEnds ==
  \A s \in Screen : shown[s] = "loading" /\ s \in OnPage
                     ~> shown[s] # "loading" \/ s \notin OnPage \/ Stuck(s)

(* The screens in one invariant: types, and what each says and offers.     *)
DisplayOK == TypeOK /\ ShownIsCurrent /\ PanelIsCurrent
=============================================================================
