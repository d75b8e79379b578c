--------------------------- MODULE ScreensProofs ---------------------------
(***************************************************************************)
(* Proofs about the screens, for any number of screens, channels, servers  *)
(* and any browser: a screen plays what it names, says what its player     *)
(* does, its settings panel is that of the player on show, and a channel   *)
(* is marked dead only when each of its servers was tried.                 *)
(***************************************************************************)
EXTENDS Screens, TLAPS, FiniteSetTheorems, WellFoundedInduction

Distinct(sq) == \A i, j \in 1 .. Len(sq) : sq[i] = sq[j] => i = j

\* The types the actions need; TypeOK says the same of all but cells and player.
Typed ==
  /\ cells \in Seq(Screen) /\ Len(cells) \in 1 .. MaxCells /\ Distinct(cells)
  /\ channel \in [Screen -> Channel \union {NoChannel}]
  /\ serverIdx \in [Screen -> Nat \ {0}]
  /\ failed \in [Screen -> SUBSET Nat] /\ tried \in [Screen -> SUBSET Nat]
  /\ token \in [Screen -> Nat]
  /\ player \in [Screen -> Player \union {NoPlayer}]
  /\ shown \in [Screen -> {"idle", "loading", "playing", "error"}]
  /\ late \subseteq [screen : Screen, token : Nat]
  /\ resolves \subseteq [screen : Screen, channel : Dynamic, act : Nat]
  /\ linked \subseteq Dynamic /\ dead \subseteq Channel
  /\ acts \in 0 .. MaxActions

\* One panel at most, of a screen on the page that names a channel.
PanelTyped ==
  /\ panel = {} \/ \E p : panel = {p}
  /\ \A p \in panel : p.screen \in OnPage /\ channel[p.screen] # NoChannel

Links(ch) == DOMAIN KindOf[ch]

\* The player of a screen carries its token; a promise left behind never does.
LateOK == \A p \in late : p.token < token[p.screen]

(* A screen whose channel has fixed links: what it plays, and what it says; *)
(* and of every screen, that what failed are links of its channel.          *)
ScreenOK(s) ==
  /\ player[s] # NoPlayer => player[s].token = token[s]
  /\ player[s] # NoPlayer /\ channel[s] \notin Dynamic =>
       s \in OnPage /\ player[s].channel = channel[s]
  /\ s \in OnPage /\ channel[s] \notin Dynamic =>
       /\ shown[s] = "playing" <=> (player[s] # NoPlayer /\ player[s].phase = "playing")
       /\ shown[s] = "loading" <=> (Starting(s) \/ Silent(s))
  /\ s \notin OnPage /\ token[s] = 0 =>
       shown[s] = "idle" /\ player[s] = NoPlayer /\ channel[s] = NoChannel
  /\ channel[s] # NoChannel =>
       /\ serverIdx[s] \in Links(channel[s]) /\ failed[s] \subseteq Links(channel[s])
       /\ channel[s] \notin Dynamic => tried[s] = failed[s]

ScreensInv ==
  Typed /\ PanelTyped /\ LateOK /\ PanelIsCurrent /\ \A s \in Screen : ScreenOK(s)

-----------------------------------------------------------------------------
LEMMA LeastExists ==
  ASSUME NEW S \in SUBSET Nat, S # {} PROVE \E m \in S : \A n \in S : m <= n
<1> DEFINE less == {p \in Nat \X Nat : p[1] < p[2]}
<1>1. OpToRel(<, Nat) = less
  BY Zenon DEF OpToRel
<1>2. IsWellFoundedOn(less, Nat)
  BY <1>1, NatLessThanWellFounded, Zenon
<1>3. \A n, m \in Nat : n < m => <<n, m>> \in less
  OBVIOUS
<1> HIDE DEF less
<1>4. PICK m \in S : \A n \in S : <<n, m>> \notin less
  BY <1>2, WFMin
<1>5. ASSUME NEW n \in S PROVE m <= n
  <2>1. m \in Nat /\ n \in Nat /\ ~(n < m)
    BY <1>3, <1>4
  <2> QED
    BY <2>1
<1> QED
  BY <1>5

LEMMA MinIn == ASSUME NEW S \in SUBSET Nat, S # {} PROVE Min(S) \in S
BY LeastExists DEF Min

LEMMA MaxIn ==
  ASSUME NEW n \in Nat, NEW S \in SUBSET (1 .. n), S # {} PROVE Max(S) \in S
<1> DEFINE T == {n - k : k \in S}
<1>1. T \subseteq Nat /\ T # {}
  <2>1. \A k \in S : k \in 1 .. n /\ n - k \in Nat
    OBVIOUS
  <2> QED
    BY <2>1
<1>2. PICK m \in T : \A l \in T : m <= l
  BY <1>1, LeastExists
<1>3. PICK k \in S : m = n - k
  BY <1>2
<1>4. ASSUME NEW l \in S PROVE k >= l
  <2>1. n - k <= n - l
    BY <1>2, <1>3
  <2> QED
    BY <2>1
<1> QED
  BY <1>4 DEF Max

LEMMA LinksOf ==
  ASSUME NEW ch \in Channel
  PROVE  /\ Len(KindOf[ch]) \in Nat \ {0} /\ Links(ch) = 1 .. Len(KindOf[ch]) /\ 1 \in Links(ch)
         /\ \A k \in Links(ch) : KindOf[ch][k] \in Kinds
         /\ ch \in Dynamic => Links(ch) = {1}
BY ScreensAssumption DEF Links

-----------------------------------------------------------------------------
(* Starting playback: which server it ends with, and what that leaves. *)

NewPlayer(s, ch, j) ==
  [channel |-> ch, server |-> j, kind |-> KindOf[ch][j], token |-> token[s] + 1,
   phase |-> "starting", recovered |-> [e \in Errors |-> 0]]

\* Server j of ch is started, or none can be; those in g were passed over.
Started(s, ch, j, g, f, t) ==
  /\ token' = [token EXCEPT ![s] = @ + 1]
  /\ late'  = late \union LateOf(s)
  /\ failed' = [failed EXCEPT ![s] = f \union g]
  /\ tried'  = [tried EXCEPT ![s] = t \union g]
  /\ serverIdx' = [serverIdx EXCEPT ![s] = j]
  /\ \/ /\ player' = [player EXCEPT ![s] = NewPlayer(s, ch, j)]
        /\ shown'  = [shown EXCEPT ![s] = "loading"]
        /\ dead' = dead
     \/ /\ player' = [player EXCEPT ![s] = NoPlayer]
        /\ shown'  = [shown EXCEPT ![s] = "error"]
        /\ dead' = dead \union {ch} /\ Links(ch) \subseteq f \union g

LEMMA StartsOrGivesUp ==
  ASSUME NEW s \in Screen, NEW ch \in Channel, NEW i \in Links(ch), NEW f \in SUBSET Links(ch), NEW t,
         StartPlayback(s, ch, Links(ch), i, f, t)
  PROVE  \E j \in Links(ch), g \in SUBSET Links(ch) : Started(s, ch, j, g, f, t)
<1> DEFINE playable(k) == KindOf[ch][k] \in Supported
           rest == {k \in Links(ch) \ (f \union {i}) : playable(k)}
           j == IF playable(i) THEN i ELSE FirstOf(rest)
           passed == IF playable(i) THEN {}
                     ELSE {i} \union {k \in Links(ch) \ f : j = 0 \/ k < j}
<1>1. Links(ch) \subseteq Nat \ {0} /\ Links(ch) # {} /\ Len(KindOf[ch]) \in Nat
      /\ Links(ch) = 1 .. Len(KindOf[ch])
  BY LinksOf
<1>2. passed \in SUBSET Links(ch)
  OBVIOUS
<1>3. /\ token' = [token EXCEPT ![s] = @ + 1]
      /\ late'  = late \union LateOf(s)
      /\ failed' = [failed EXCEPT ![s] = f \union passed]
      /\ tried'  = [tried EXCEPT ![s] = t \union passed]
      /\ serverIdx' = [serverIdx EXCEPT ![s] = IF j = 0 THEN Max(passed) ELSE j]
      /\ IF j = 0
           THEN player' = [player EXCEPT ![s] = NoPlayer] /\ GiveUp(s, ch)
           ELSE /\ player' = [player EXCEPT ![s] = NewPlayer(s, ch, j)]
                /\ shown' = [shown EXCEPT ![s] = "loading"]
                /\ UNCHANGED dead
  BY <1>1 DEF StartPlayback, NewPlayer
<1>4. CASE j = 0
  <2>1. ~playable(i) /\ rest = {}
    BY <1>1, <1>4, MinIn DEF FirstOf
  <2>2. Links(ch) \subseteq f \union passed /\ passed # {}
    BY <1>4, <2>1
  <2>3. Max(passed) \in Links(ch)
    <3> HIDE DEF passed
    <3> QED
      BY <1>1, <1>2, <2>2, MaxIn
  <2>4. Started(s, ch, Max(passed), passed, f, t)
    <3> HIDE DEF passed, j
    <3> QED
      BY <1>3, <1>4, <2>2 DEF Started, GiveUp
  <2> HIDE DEF passed
  <2> QED
    BY <1>2, <2>3, <2>4
<1>5. CASE j # 0
  <2>1. j \in Links(ch)
    BY <1>1, <1>5, MinIn DEF FirstOf
  <2>2. Started(s, ch, j, passed, f, t)
    <3> HIDE DEF passed, j
    <3> QED
      BY <1>3, <1>5 DEF Started
  <2> HIDE DEF passed, j
  <2> QED
    BY <1>2, <2>1, <2>2
<1> QED
  BY <1>4, <1>5

-----------------------------------------------------------------------------
(* What a step that starts or ends players leaves behind. *)

PlayTypes ==
  /\ serverIdx \in [Screen -> Nat \ {0}]
  /\ failed \in [Screen -> SUBSET Nat] /\ tried \in [Screen -> SUBSET Nat]
  /\ token \in [Screen -> Nat]
  /\ player \in [Screen -> Player \union {NoPlayer}]
  /\ shown \in [Screen -> {"idle", "loading", "playing", "error"}]
  /\ late \subseteq [screen : Screen, token : Nat]
  /\ dead \subseteq Channel

Same(r) == UNCHANGED <<channel[r], serverIdx[r], failed[r], tried[r], token[r], player[r], shown[r]>>

\* A screen the step is not about.
LEMMA OtherScreen ==
  ASSUME NEW r \in Screen, ScreenOK(r), Same(r), r \in OnPage' <=> r \in OnPage
  PROVE  ScreenOK(r)'
BY DEF ScreenOK, Same, Starting, Silent

\* Promises left behind: their tokens are older than the screen's.
LEMMA LeftBehind ==
  ASSUME Typed, LateOK, NEW s \in Screen, ScreenOK(s)
  PROVE  \A p \in late \union LateOf(s) :
           /\ p \in [screen : Screen, token : Nat]
           /\ p.screen = s => p.token < token[s] + 1
           /\ p.screen # s => p.token < token[p.screen]
<1>1. ASSUME NEW p \in late PROVE p \in [screen : Screen, token : Nat] /\ p.token < token[p.screen]
  BY <1>1 DEF Typed, LateOK
<1>2. ASSUME NEW p \in LateOf(s)
      PROVE  p \in [screen : Screen, token : Nat] /\ p.screen = s /\ p.token = token[s]
  <2>1. player[s] # NoPlayer /\ p = [screen |-> s, token |-> player[s].token]
    BY <1>2 DEF LateOf
  <2> QED
    BY <2>1 DEF Typed, ScreenOK
<1>3. token[s] \in Nat
  BY DEF Typed
<1> QED
  BY <1>1, <1>2, <1>3

LEMMA StartedKeeps ==
  ASSUME Typed, LateOK, \A r \in Screen : ScreenOK(r),
         NEW s \in Screen, NEW ch \in Channel, NEW j \in Links(ch), NEW g \in SUBSET Links(ch),
         NEW f \in SUBSET Links(ch), NEW t \in SUBSET Nat, Started(s, ch, j, g, f, t),
         channel' = [channel EXCEPT ![s] = ch], OnPage' = OnPage,
         ch \notin Dynamic => s \in OnPage /\ t = f
  PROVE  /\ PlayTypes' /\ LateOK' /\ \A r \in Screen : ScreenOK(r)'
         /\ player'[s] = NoPlayer \/ player'[s].phase = "starting"
         /\ \A r \in Screen : r # s => UNCHANGED <<player[r], serverIdx[r]>>
         /\ \A c \in (dead' \ dead) \ Dynamic : channel'[s] = c /\ tried'[s] = Links(c)
<1> USE NoPlayerIsNone
<1>1. Links(ch) \subseteq Nat /\ j \in Nat \ {0} /\ KindOf[ch][j] \in Kinds
  BY LinksOf
<1>2. NewPlayer(s, ch, j) \in Player /\ NewPlayer(s, ch, j) # NoPlayer
      /\ NewPlayer(s, ch, j).token = token[s] + 1 /\ NewPlayer(s, ch, j).phase = "starting"
      /\ NewPlayer(s, ch, j).channel = ch
  BY <1>1 DEF NewPlayer, Player, Typed
<1>3. /\ token'[s] = token[s] + 1 /\ failed'[s] = f \union g /\ tried'[s] = t \union g
      /\ serverIdx'[s] = j /\ channel'[s] = ch
      /\ \/ player'[s] = NewPlayer(s, ch, j) /\ shown'[s] = "loading" /\ dead' = dead
         \/ /\ player'[s] = NoPlayer /\ shown'[s] = "error" /\ dead' = dead \union {ch}
            /\ Links(ch) \subseteq f \union g
      /\ late' = late \union LateOf(s)
  BY DEF Started, Typed
<1>4. \A r \in Screen : r # s => Same(r)
  BY DEF Started, Typed, Same
<1>5. PlayTypes'
  <2>1. f \union g \subseteq Nat /\ t \union g \subseteq Nat /\ token[s] + 1 \in Nat
    <3>1. token[s] \in Nat
      BY DEF Typed
    <3>2. token[s] + 1 \in Nat
      BY <3>1
    <3>3. f \subseteq Nat /\ g \subseteq Nat /\ t \subseteq Nat
      BY <1>1
    <3> HIDE NoPlayerIsNone
    <3> QED
      BY <3>2, <3>3
  <2>2. player' \in [Screen -> Player \union {NoPlayer}]
    BY <1>2 DEF Started, Typed
  <2>3. late' \subseteq [screen : Screen, token : Nat]
    BY <1>3, LeftBehind
  <2>4. failed' \in [Screen -> SUBSET Nat] /\ tried' \in [Screen -> SUBSET Nat]
    BY <2>1 DEF Started, Typed
  <2>5. token' \in [Screen -> Nat] /\ serverIdx' \in [Screen -> Nat \ {0}]
    BY <1>1, <2>1 DEF Started, Typed
  <2>6. shown' \in [Screen -> {"idle", "loading", "playing", "error"}]
    BY DEF Started, Typed
  <2>7. dead' \subseteq Channel
    BY <1>3 DEF Typed
  <2> QED
    BY <2>2, <2>3, <2>4, <2>5, <2>6, <2>7 DEF PlayTypes
<1>6. LateOK'
  <2> SUFFICES ASSUME NEW p \in late' PROVE p.token < token'[p.screen]
    BY DEF LateOK
  <2>1. p \in late \union LateOf(s)
    BY <1>3
  <2>2. p.screen \in Screen /\ (p.screen # s => token'[p.screen] = token[p.screen])
    BY <2>1, <1>4, LeftBehind DEF Same
  <2> QED
    BY <1>3, <2>1, <2>2, LeftBehind
<1>7. ScreenOK(s)'
  <2>1. j \in Links(ch) /\ f \union g \subseteq Links(ch) /\ token[s] + 1 # 0
    BY DEF Typed
  <2> QED
    BY <1>2, <1>3, <2>1 DEF ScreenOK, Starting, Silent
<1>8. \A r \in Screen : ScreenOK(r)'
  BY <1>4, <1>7, OtherScreen
<1>9. \A c \in (dead' \ dead) \ Dynamic : channel'[s] = c /\ tried'[s] = Links(c)
  BY <1>3
<1> QED
  BY <1>2, <1>3, <1>4, <1>5, <1>6, <1>8, <1>9 DEF Same

\* A channel is marked dead by a screen that tried all its links.
DeadStep ==
  \A ch \in (dead' \ dead) \ Dynamic :
    \E s \in Screen : channel'[s] = ch /\ tried'[s] = Links(ch)

\* What else of the state keeps its types, the page staying as it is.
RestTypes ==
  /\ cells' = cells
  /\ channel' \in [Screen -> Channel \union {NoChannel}]
  /\ resolves' \subseteq [screen : Screen, channel : Dynamic, act : Nat]
  /\ linked' \subseteq Dynamic /\ acts' \in 0 .. MaxActions

LEMMA TypedAgain ==
  ASSUME Typed, PlayTypes', RestTypes PROVE Typed'
BY DEF Typed, PlayTypes, RestTypes

LEMMA PanelStays ==
  ASSUME PanelTyped, OnPage' = OnPage, NEW s \in Screen,
         \A r \in Screen : channel'[r] # channel[r] => channel'[r] # NoChannel,
         panel' = {} \/ panel' = panel \/ (s \in OnPage /\ channel'[s] # NoChannel /\ RenderSettings(s)),
         OnPage \subseteq Screen
  PROVE  PanelTyped'
<1>1. CASE panel' = {}
  BY <1>1 DEF PanelTyped
<1>2. CASE panel' = panel
  <2>1. ASSUME NEW p \in panel PROVE channel'[p.screen] # NoChannel /\ p.screen \in OnPage
    BY <2>1 DEF PanelTyped
  <2> QED
    BY <1>2, <2>1 DEF PanelTyped
<1>3. CASE s \in OnPage /\ channel'[s] # NoChannel /\ RenderSettings(s)
  <2> DEFINE q == [screen |-> s, server |-> serverIdx'[s], quality |-> Quality(s)]
  <2>1. panel' = {q} /\ q.screen = s
    BY <1>3 DEF RenderSettings
  <2> HIDE DEF q
  <2> QED
    BY <1>3, <2>1 DEF PanelTyped
<1> QED
  BY <1>1, <1>2, <1>3

LEMMA OnPageScreens == ASSUME Typed PROVE OnPage \subseteq Screen
BY DEF Typed, OnPage, ToSet

\* An action that starts playback of ch.
LEMMA StartAction ==
  ASSUME ScreensInv, NEW s \in Screen, NEW ch \in Channel, NEW i \in Links(ch),
         NEW f \in SUBSET Links(ch), NEW t \in SUBSET Nat, StartPlayback(s, ch, Links(ch), i, f, t),
         channel' = [channel EXCEPT ![s] = ch], RestTypes,
         ch \notin Dynamic => s \in OnPage /\ t = f,
         panel' = {} \/ panel' = panel \/ (s \in OnPage /\ RenderSettings(s))
  PROVE  ScreensInv' /\ DeadStep
<1> USE ScreensAssumption
<1>1. Typed /\ PanelTyped /\ LateOK /\ PanelIsCurrent /\ \A r \in Screen : ScreenOK(r)
  BY DEF ScreensInv
<1>2. OnPage' = OnPage
  BY DEF RestTypes, OnPage
<1>3. PICK j \in Links(ch), g \in SUBSET Links(ch) : Started(s, ch, j, g, f, t)
  BY StartsOrGivesUp
<1>4. /\ PlayTypes' /\ LateOK' /\ \A r \in Screen : ScreenOK(r)'
      /\ player'[s] = NoPlayer \/ player'[s].phase = "starting"
      /\ \A r \in Screen : r # s => UNCHANGED <<player[r], serverIdx[r]>>
      /\ \A c \in (dead' \ dead) \ Dynamic : channel'[s] = c /\ tried'[s] = Links(c)
  BY <1>1, <1>2, <1>3, StartedKeeps
<1>5. Typed'
  BY <1>1, <1>4, TypedAgain
<1>6. channel'[s] = ch /\ \A r \in Screen : r # s => channel'[r] = channel[r]
  BY <1>1 DEF Typed
<1>7. PanelTyped'
  BY <1>1, <1>2, <1>6, PanelStays, OnPageScreens
<1>8. PanelIsCurrent'
  <2> SUFFICES ASSUME NEW p \in panel', player'[p.screen] # NoPlayer,
                      player'[p.screen].phase = "playing", player'[p.screen].kind # "ts"
               PROVE  p.server = serverIdx'[p.screen] /\ p.quality = player'[p.screen].token
    BY DEF PanelIsCurrent
  <2>1. p.screen # s
    BY <1>4
  <2>2. p \in panel
    BY <2>1 DEF RenderSettings
  <2>3. p.screen \in Screen
    BY <1>1, <2>2, OnPageScreens DEF PanelTyped
  <2>4. UNCHANGED <<player[p.screen], serverIdx[p.screen]>>
    BY <1>4, <2>1, <2>3
  <2> QED
    BY <1>1, <2>2, <2>4 DEF PanelIsCurrent
<1> QED
  BY <1>4, <1>5, <1>7, <1>8 DEF ScreensInv, DeadStep

\* One that changes what a screen shows and counts, not its player.
LEMMA NoStart ==
  ASSUME ScreensInv, NEW s \in Screen, NEW x \in {"idle", "loading", "playing", "error"},
         NEW i \in Nat \ {0}, NEW f \in SUBSET Nat, NEW t \in SUBSET Nat,
         shown' = [shown EXCEPT ![s] = x], serverIdx' = [serverIdx EXCEPT ![s] = i],
         failed' = [failed EXCEPT ![s] = f], tried' = [tried EXCEPT ![s] = t],
         UNCHANGED <<token, player, late, dead>>, RestTypes,
         \A r \in Screen : r # s => channel'[r] = channel[r],
         channel'[s] \in Dynamic, i \in Links(channel'[s]), f \subseteq Links(channel'[s]),
         s \in OnPage \/ token[s] # 0,
         panel' = {} \/ (panel' = panel /\ i = serverIdx[s])
  PROVE  ScreensInv' /\ DeadStep
<1> USE ScreensAssumption
<1>1. Typed /\ PanelTyped /\ LateOK /\ PanelIsCurrent /\ \A r \in Screen : ScreenOK(r)
  BY DEF ScreensInv
<1>2. OnPage' = OnPage
  BY DEF RestTypes, OnPage
<1>3. PlayTypes'
  BY <1>1 DEF Typed, PlayTypes
<1>4. Typed'
  BY <1>1, <1>3, TypedAgain
<1>5. ScreenOK(s)'
  <2>1. serverIdx'[s] = i /\ failed'[s] = f /\ player'[s] = player[s] /\ token'[s] = token[s]
    BY <1>1 DEF Typed
  <2>2. player[s] # NoPlayer => player[s].token = token[s]
    BY <1>1 DEF ScreenOK
  <2> QED
    BY <1>2, <2>1, <2>2 DEF ScreenOK
<1>6. ASSUME NEW r \in Screen, r # s PROVE ScreenOK(r)'
  <2>1. Same(r)
    BY <1>1, <1>6 DEF Same, Typed
  <2> QED
    BY <1>1, <1>2, <2>1, OtherScreen
<1>7. LateOK'
  BY <1>1 DEF LateOK
<1>8. PanelTyped'
  BY <1>1, <1>2, PanelStays, OnPageScreens
<1>9. PanelIsCurrent'
  <2>1. panel' = {} \/ (panel' = panel /\ serverIdx' = serverIdx /\ player' = player)
    BY <1>1 DEF Typed
  <2> QED
    BY <1>1, <2>1 DEF PanelIsCurrent
<1>10. DeadStep
  BY DEF DeadStep
<1> QED
  BY <1>4, <1>5, <1>6, <1>7, <1>8, <1>9, <1>10 DEF ScreensInv

\* The servers startCellPlayback finds: all, or none while a link is awaited.
LEMMA ServersOf ==
  ASSUME NEW ch \in Channel, NEW lk \in SUBSET Dynamic
  PROVE  Servers(ch, lk) = Links(ch) \/ (ch \in Dynamic \ lk /\ Servers(ch, lk) = {})
BY DEF Servers, Links

LEMMA SameChannel == ASSUME Typed, NEW s \in Screen PROVE channel = [channel EXCEPT ![s] = channel[s]]
BY DEF Typed

LEMMA AssignInv ==
  ASSUME ScreensInv, acts' \in 0 .. MaxActions,
         NEW s \in OnPage, NEW ch \in Channel, AssignChannel(s, ch)
  PROVE  ScreensInv' /\ DeadStep
<1>1. Typed /\ s \in Screen
  BY OnPageScreens DEF ScreensInv
<1>2. /\ channel' = [channel EXCEPT ![s] = ch] /\ channel'[s] = ch /\ panel' = {}
      /\ UNCHANGED <<cells, linked>>
      /\ \A r \in Screen : r # s => channel'[r] = channel[r]
  BY <1>1 DEF AssignChannel, Typed
<1>3. resolves' \subseteq resolves \union {[screen |-> s, channel |-> ch, act |-> acts]}
      /\ (ch \notin Dynamic => resolves' = resolves)
  BY DEF AssignChannel
<1>4. RestTypes
  <2>1. MaxActions \in Nat /\ acts \in 0 .. MaxActions
    BY <1>1, ScreensAssumption DEF Typed
  <2> QED
    BY <1>1, <1>2, <1>3, <2>1 DEF RestTypes, Typed
<1>5. CASE ch \in Dynamic
  <2>1. /\ serverIdx' = [serverIdx EXCEPT ![s] = 1] /\ failed' = [failed EXCEPT ![s] = {}]
        /\ tried'  = [tried EXCEPT ![s] = {}] /\ shown'  = [shown EXCEPT ![s] = "loading"]
        /\ UNCHANGED <<token, player, late, dead>>
    BY <1>5 DEF AssignChannel
  <2>2. PICK one \in Links(ch) : one = 1
    BY LinksOf
  <2>3. one \in Nat \ {0} /\ serverIdx' = [serverIdx EXCEPT ![s] = one]
    BY <2>1, <2>2
  <2> QED
    <3>1. channel'[s] \in Dynamic /\ one \in Links(channel'[s]) /\ {} \subseteq Links(channel'[s])
          /\ \A r \in Screen : r # s => channel'[r] = channel[r]
      BY <1>2, <1>5, <2>2
    <3>2. panel' = {} /\ {} \in SUBSET Nat /\ "loading" \in {"idle", "loading", "playing", "error"}
      BY <1>2
    <3>3. /\ failed' = [failed EXCEPT ![s] = {}] /\ tried'  = [tried EXCEPT ![s] = {}]
          /\ shown'  = [shown EXCEPT ![s] = "loading"]
          /\ UNCHANGED <<token, player, late, dead>>
      BY <2>1
    <3> QED
      BY <1>1, <1>4, <2>3, <3>1, <3>2, <3>3, NoStart
<1>6. CASE ch \notin Dynamic
  <2>1. PICK one \in Links(ch) : one = 1
    BY LinksOf
  <2>2. StartPlayback(s, ch, Links(ch), one, {}, {})
    BY <1>6, <2>1 DEF AssignChannel, Servers, Links
  <2> QED
    <3>1. channel' = [channel EXCEPT ![s] = ch] /\ panel' = {}
      BY <1>2
    <3>2. {} \in SUBSET Links(ch) /\ {} \in SUBSET Nat
      OBVIOUS
    <3> HIDE DEF Links
    <3> QED
      BY <1>1, <1>4, <2>1, <2>2, <3>1, <3>2, StartAction, Zenon
<1> QED
  BY <1>5, <1>6

LEMMA RetryInv ==
  ASSUME ScreensInv, acts' \in 0 .. MaxActions, NEW s \in OnPage, RetryCell(s)
  PROVE  ScreensInv' /\ DeadStep
<1> USE ScreensAssumption
<1> DEFINE ch == channel[s]
<1>1. Typed /\ s \in Screen
  BY OnPageScreens DEF ScreensInv
<1>2. ch \in Channel /\ linked \in SUBSET Dynamic /\ channel' = [channel EXCEPT ![s] = ch]
      /\ panel' = {} /\ UNCHANGED <<cells, channel, linked, resolves>>
  BY <1>1, SameChannel DEF RetryCell, Typed
<1>3. RestTypes
  BY <1>1, <1>2 DEF RestTypes, Typed
<1>4. PICK one \in Links(ch) : one = 1
  BY <1>2, LinksOf
<1>5. CASE Servers(ch, linked) = Links(ch)
  <2>1. StartPlayback(s, ch, Links(ch), one, {}, {})
    BY <1>4, <1>5 DEF RetryCell
  <2> HIDE DEF ch
  <2> QED
    BY <1>1, <1>2, <1>3, <1>4, <2>1, StartAction
<1>6. CASE ch \in Dynamic /\ Servers(ch, linked) = {}
  <2>1. /\ shown' = [shown EXCEPT ![s] = "error"] /\ serverIdx' = [serverIdx EXCEPT ![s] = one]
        /\ failed' = [failed EXCEPT ![s] = {}] /\ tried'  = [tried EXCEPT ![s] = {}]
        /\ UNCHANGED <<token, player, late, dead>>
    BY <1>4, <1>6 DEF RetryCell, StartPlayback
  <2>2. channel'[s] = ch /\ one \in Nat \ {0}
    BY <1>2, <1>4
  <2> QED
    BY <1>1, <1>2, <1>3, <1>4, <1>6, <2>1, <2>2, NoStart
<1> QED
  BY <1>2, <1>5, <1>6, ServersOf

LEMMA ChooseInv ==
  ASSUME ScreensInv, acts' \in 0 .. MaxActions, NEW s \in OnPage, NEW i, ChooseServer(s, i)
  PROVE  ScreensInv' /\ DeadStep
<1> USE ScreensAssumption
<1> DEFINE ch == channel[s]
<1>1. Typed /\ s \in Screen
  BY OnPageScreens DEF ScreensInv
<1>2. ch # NoChannel
  BY DEF ChooseServer, PanelOf, ScreensInv, PanelTyped
<1>3. ch \in Channel /\ linked \in SUBSET Dynamic /\ channel' = [channel EXCEPT ![s] = ch]
      /\ RenderSettings(s) /\ UNCHANGED <<cells, channel, linked, resolves>>
  BY <1>1, <1>2, SameChannel DEF ChooseServer, Typed
<1>4. RestTypes
  BY <1>1, <1>3 DEF RestTypes, Typed
<1>5. i \in Servers(ch, linked) /\ StartPlayback(s, ch, Servers(ch, linked), i, {}, {})
  BY DEF ChooseServer
<1>6. Servers(ch, linked) = Links(ch)
  BY <1>3, <1>5, ServersOf
<1> HIDE DEF ch
<1> QED
  BY <1>1, <1>3, <1>4, <1>5, <1>6, StartAction

\* A player that speaks for its screen, and the servers that are left to it.
LEMMA FailingPlayer ==
  ASSUME Typed, NEW s \in Screen, ScreenOK(s), player[s] # NoPlayer
  PROVE  /\ channel[s] \in Channel
         /\ serverIdx[s] \in Links(channel[s]) /\ failed[s] \subseteq Links(channel[s])
         /\ channel[s] \notin Dynamic =>
              s \in OnPage /\ player[s].channel = channel[s] /\ tried[s] = failed[s]
<1>1. player[s] \in Player /\ player[s].channel \in Channel
  BY DEF Typed, Player
<1>2. channel[s] # NoChannel
  BY <1>1, ScreensAssumption DEF ScreenOK
<1> QED
  BY <1>2 DEF Typed, ScreenOK

LEMMA FailsInv ==
  ASSUME ScreensInv, NEW s \in Screen, PlayerFails(s)
  PROVE  ScreensInv' /\ DeadStep
<1> DEFINE ch == channel[s]
           f == failed[s] \union {serverIdx[s]}
           t == IF player[s].channel = ch THEN tried[s] \union {serverIdx[s]} ELSE tried[s]
           sv == Servers(ch, linked)
<1>1. Typed /\ PanelTyped /\ LateOK /\ PanelIsCurrent /\ \A r \in Screen : ScreenOK(r)
  BY DEF ScreensInv
<1>2. /\ player[s] # NoPlayer /\ player[s].phase \in {"starting", "playing"} /\ player[s].token = token[s]
      /\ UNCHANGED <<cells, panel, channel, resolves, linked, acts>>
      /\ IF sv \ f # {}
           THEN StartPlayback(s, ch, sv, Min(sv \ f), f, t)
           ELSE /\ GiveUp(s, ch)
                /\ failed' = [failed EXCEPT ![s] = f]
                /\ tried'  = [tried EXCEPT ![s] = t]
                /\ player' = [player EXCEPT ![s].phase = "failed"]
                /\ UNCHANGED <<token, late, serverIdx>>
  BY DEF PlayerFails, Failover
<1>3. /\ ch \in Channel /\ f \in SUBSET Links(ch) /\ t \in SUBSET Nat
      /\ ch \notin Dynamic => s \in OnPage /\ t = f
  <2>1. serverIdx[s] \in Nat /\ tried[s] \subseteq Nat
    BY <1>1 DEF Typed
  <2> QED
    BY <1>1, <1>2, <2>1, FailingPlayer
<1>4. sv = Links(ch) \/ (ch \in Dynamic \ linked /\ sv = {})
  BY <1>1, <1>3, ServersOf DEF Typed
<1>5. RestTypes /\ channel' = [channel EXCEPT ![s] = ch]
  BY <1>1, <1>2, SameChannel DEF RestTypes, Typed
<1> HIDE DEF ch, f, t, sv
<1>6. CASE sv \ f # {}
  <2>1. sv = Links(ch) /\ sv \subseteq Nat
    BY <1>3, <1>4, <1>6, LinksOf
  <2>2. Min(sv \ f) \in Links(ch)
    BY <1>6, <2>1, MinIn
  <2>3. StartPlayback(s, ch, Links(ch), Min(sv \ f), f, t)
    BY <1>2, <1>6, <2>1
  <2>4. panel' = panel
    BY <1>2
  <2> QED
    BY <1>3, <1>5, <2>2, <2>3, <2>4, StartAction
<1>7. CASE sv \ f = {}
  <2>1. /\ shown' = [shown EXCEPT ![s] = "error"] /\ dead' = dead \union {ch}
        /\ failed' = [failed EXCEPT ![s] = f] /\ tried' = [tried EXCEPT ![s] = t]
        /\ player' = [player EXCEPT ![s].phase = "failed"]
        /\ UNCHANGED <<token, late, serverIdx>>
    BY <1>2, <1>7 DEF GiveUp
  <2>2. player[s] \in Player
    BY <1>1, <1>2 DEF Typed
  <2>3. /\ player'[s] = [player[s] EXCEPT !.phase = "failed"] /\ player'[s] \in Player
        /\ player'[s].token = token[s] /\ player'[s].channel = player[s].channel
        /\ player'[s].phase = "failed"
    BY <1>1, <1>2, <2>1, <2>2 DEF Typed, Player
  <2>4. player' \in [Screen -> Player \union {NoPlayer}]
    BY <1>1, <2>1, <2>3 DEF Typed
  <2>5. f \subseteq Nat
    BY <1>3, LinksOf
  <2>6. PlayTypes'
    BY <1>1, <1>3, <2>1, <2>4, <2>5 DEF Typed, PlayTypes
  <2>7. Typed'
    BY <1>1, <1>5, <2>6, TypedAgain
  <2>8. OnPage' = OnPage /\ \A r \in Screen : r # s => Same(r)
    BY <1>1, <1>2, <2>1 DEF Typed, Same, OnPage
  <2>9. shown'[s] = "error" /\ failed'[s] = f /\ tried'[s] = t /\ channel'[s] = channel[s]
        /\ serverIdx'[s] = serverIdx[s] /\ token'[s] = token[s]
    BY <1>1, <1>2, <2>1 DEF Typed
  <2>10. ScreenOK(s)'
    <3>1. ch = channel[s]
      BY DEF ch
    <3>2. serverIdx[s] \in Links(ch)
      BY <1>1, <1>2, <3>1, FailingPlayer
    <3>3. s \notin OnPage => token[s] # 0
      BY <1>1, <1>2 DEF ScreenOK
    <3>4. player[s].channel = channel[s] \/ channel[s] \in Dynamic
      BY <1>1, <1>2, FailingPlayer
    <3> QED
      BY <1>3, <2>3, <2>8, <2>9, <3>1, <3>2, <3>3, <3>4 DEF ScreenOK, Starting, Silent
  <2>11. \A r \in Screen : ScreenOK(r)'
    BY <1>1, <2>8, <2>10, OtherScreen
  <2>12. LateOK'
    BY <1>1, <2>1 DEF LateOK
  <2>13. PanelTyped'
    BY <1>1, <1>2, <2>8 DEF PanelTyped
  <2>14. PanelIsCurrent'
    <3>1. \A r : r # s => player'[r] = player[r]
      BY <1>1, <2>1 DEF Typed
    <3> QED
      BY <1>1, <1>2, <2>1, <2>3, <3>1 DEF PanelIsCurrent
  <2>15. DeadStep
    <3>1. ch \notin Dynamic => tried'[s] = Links(ch) /\ channel'[s] = ch
      BY <1>3, <1>4, <1>7, <2>9 DEF ch
    <3> QED
      BY <2>1, <3>1 DEF DeadStep
  <2> QED
    BY <2>7, <2>11, <2>12, <2>13, <2>14, <2>15 DEF ScreensInv
<1> QED
  BY <1>6, <1>7

\* A panel drawn anew is that of the player on show.
LEMMA RenderedIsCurrent ==
  ASSUME NEW s \in Screen, RenderSettings(s) PROVE PanelIsCurrent'
<1> DEFINE q == [screen |-> s, server |-> serverIdx'[s], quality |-> Quality(s)]
<1>1. panel' = {q} /\ q.screen = s /\ q.server = serverIdx'[s] /\ q.quality = Quality(s)
  BY DEF RenderSettings
<1> HIDE DEF q
<1> QED
  BY <1>1 DEF PanelIsCurrent, Quality

\* A step that leaves the players alone.
LEMMA QuietInv ==
  ASSUME ScreensInv, RestTypes, channel' = channel, late' \subseteq late,
         UNCHANGED <<serverIdx, failed, token, player, shown, dead, tried>>,
         NEW s \in Screen,
         panel' \in {{}, panel} \/ (s \in OnPage /\ channel[s] # NoChannel /\ RenderSettings(s))
  PROVE  ScreensInv' /\ DeadStep
<1>1. Typed /\ PanelTyped /\ LateOK /\ PanelIsCurrent /\ \A r \in Screen : ScreenOK(r)
  BY DEF ScreensInv
<1>2. OnPage' = OnPage
  BY DEF RestTypes, OnPage
<1>3. Typed'
  BY <1>1 DEF Typed, RestTypes
<1>4. \A r \in Screen : ScreenOK(r)'
  BY <1>1, <1>2, OtherScreen DEF Same
<1>5. LateOK'
  BY <1>1 DEF LateOK
<1>6. PanelTyped'
  BY <1>1, <1>2, PanelStays, OnPageScreens
<1>7. PanelIsCurrent'
  <2>1. CASE panel' \in {{}, panel}
    BY <1>1, <2>1 DEF PanelIsCurrent
  <2>2. CASE RenderSettings(s)
    BY <2>2, RenderedIsCurrent
  <2> QED
    BY <2>1, <2>2
<1>8. DeadStep
  BY DEF DeadStep
<1> QED
  BY <1>3, <1>4, <1>5, <1>6, <1>7, <1>8 DEF ScreensInv

\* One in which the player of a screen goes on, falls silent or begins to play.
LEMMA GoesOnInv ==
  ASSUME ScreensInv, RestTypes, NEW s \in Screen, player[s] # NoPlayer,
         NEW q \in Player, q.token = player[s].token, q.channel = player[s].channel,
         q.kind = player[s].kind, player' = [player EXCEPT ![s] = q],
         UNCHANGED <<channel, serverIdx, failed, token, late, tried>>, dead' \subseteq dead,
         \/ /\ shown' = shown /\ panel' = panel
            /\ \/ q.phase = player[s].phase
               \/ player[s].phase = "starting" /\ q.phase = "silent"
         \/ /\ shown' = [shown EXCEPT ![s] = "playing"] /\ q.phase = "playing"
            /\ IF q.kind = "ts" THEN panel' = panel ELSE RefreshSettings(s)
  PROVE  ScreensInv' /\ DeadStep
<1>1. Typed /\ PanelTyped /\ LateOK /\ PanelIsCurrent /\ \A r \in Screen : ScreenOK(r)
  BY DEF ScreensInv
<1>2. OnPage' = OnPage
  BY DEF RestTypes, OnPage
<1>3. player'[s] = q /\ \A r : r # s => player'[r] = player[r]
  BY <1>1 DEF Typed
<1>4. PlayTypes'
  <2>1. player' \in [Screen -> Player \union {NoPlayer}]
    BY <1>1 DEF Typed
  <2>2. shown' \in [Screen -> {"idle", "loading", "playing", "error"}]
    BY <1>1 DEF Typed
  <2> QED
    BY <1>1, <2>1, <2>2 DEF Typed, PlayTypes
<1>5. Typed'
  BY <1>1, <1>4, TypedAgain
<1>6. ASSUME NEW r \in Screen, r # s PROVE ScreenOK(r)'
  <2>1. Same(r)
    BY <1>1, <1>3, <1>6 DEF Typed, Same
  <2> QED
    BY <1>1, <1>2, <2>1, OtherScreen
<1>7. ScreenOK(s)'
  <2>1. q # NoPlayer
    BY NoPlayerIsNone
  <2>2. ScreenOK(s) /\ shown \in [Screen -> {"idle", "loading", "playing", "error"}]
    BY <1>1 DEF Typed
  <2> QED
    BY <1>2, <1>3, <2>1, <2>2 DEF ScreenOK, Starting, Silent
<1>8. LateOK'
  BY <1>1 DEF LateOK
<1>9. panel' = panel \/ (PanelOf(s) # {} /\ RenderSettings(s))
  BY DEF RefreshSettings
<1>10. PanelOf(s) # {} => s \in OnPage /\ channel[s] # NoChannel
  BY <1>1 DEF PanelOf, PanelTyped
<1>11. PanelTyped'
  BY <1>1, <1>2, <1>9, <1>10, PanelStays, OnPageScreens
<1>12. PanelIsCurrent'
  <2>1. CASE RenderSettings(s)
    BY <2>1, RenderedIsCurrent
  <2>2. CASE panel' = panel
    <3> SUFFICES ASSUME NEW p \in panel, player'[p.screen] # NoPlayer,
                        player'[p.screen].phase = "playing", player'[p.screen].kind # "ts",
                        ~RenderSettings(s)
                 PROVE  p.server = serverIdx[p.screen] /\ p.quality = player'[p.screen].token
      BY <2>1, <2>2 DEF PanelIsCurrent
    <3>1. CASE p.screen # s
      BY <1>1, <1>3, <3>1 DEF PanelIsCurrent
    <3>2. CASE p.screen = s
      <4>1. PanelOf(s) # {}
        BY <3>2 DEF PanelOf
      <4>2. q.phase = player[s].phase
        BY <1>3, <3>2, <4>1 DEF RefreshSettings
      <4> QED
        BY <1>1, <1>3, <3>2, <4>2 DEF PanelIsCurrent
    <3> QED
      BY <3>1, <3>2
  <2> QED
    BY <1>9, <2>1, <2>2
<1>13. DeadStep
  BY DEF DeadStep
<1> QED
  BY <1>5, <1>6, <1>7, <1>8, <1>11, <1>12, <1>13 DEF ScreensInv

LEMMA PlaysInv ==
  ASSUME ScreensInv, NEW s \in Screen, PlayerPlays(s) PROVE ScreensInv' /\ DeadStep
<1> DEFINE q == [player[s] EXCEPT !.phase = "playing"]
<1>1. Typed /\ ScreenOK(s)
  BY DEF ScreensInv
<1>2. /\ player[s] # NoPlayer /\ player' = [player EXCEPT ![s] = q]
      /\ UNCHANGED <<cells, channel, serverIdx, failed, token, late, resolves, linked, acts, tried>>
      /\ IF player[s].kind = "ts" THEN UNCHANGED panel ELSE RefreshSettings(s)
      /\ OnCellPlaying(s, player[s].token)
  BY DEF PlayerPlays, Starting
<1>3. player[s] \in Player /\ player[s].token = token[s]
  BY <1>1, <1>2 DEF Typed, ScreenOK
<1>4. q \in Player /\ q.token = player[s].token /\ q.channel = player[s].channel
      /\ q.kind = player[s].kind /\ q.phase = "playing"
  BY <1>3 DEF Player
<1>5. shown' = [shown EXCEPT ![s] = "playing"] /\ dead' \subseteq dead
  BY <1>2, <1>3 DEF OnCellPlaying
<1>6. RestTypes
  BY <1>1, <1>2 DEF Typed, RestTypes
<1> HIDE DEF q
<1> QED
  BY <1>2, <1>4, <1>5, <1>6, GoesOnInv

LEMMA SilentInv ==
  ASSUME ScreensInv, NEW s \in Screen, PlayerFallsSilent(s) PROVE ScreensInv' /\ DeadStep
<1> DEFINE q == [player[s] EXCEPT !.phase = "silent"]
<1>1. Typed
  BY DEF ScreensInv
<1>2. /\ player[s] # NoPlayer /\ player[s].phase = "starting"
      /\ player' = [player EXCEPT ![s] = q]
      /\ UNCHANGED <<cells, panel, channel, serverIdx, failed, token, shown, late, resolves,
                     linked, dead, acts, tried>>
  BY DEF PlayerFallsSilent, Starting
<1>3. player[s] \in Player
  BY <1>1, <1>2 DEF Typed
<1>4. q \in Player /\ q.token = player[s].token /\ q.channel = player[s].channel
      /\ q.kind = player[s].kind /\ q.phase = "silent"
  BY <1>3 DEF Player
<1>5. RestTypes
  BY <1>1, <1>2 DEF Typed, RestTypes
<1> HIDE DEF q
<1> QED
  BY <1>2, <1>4, <1>5, GoesOnInv

LEMMA RecoversInv ==
  ASSUME ScreensInv, NEW s \in Screen, (\E e \in Errors : PlayerRecovers(s, e)) \/ FragBuffered(s)
  PROVE  ScreensInv' /\ DeadStep
<1>1. Typed
  BY DEF ScreensInv
<1>2. /\ player[s] # NoPlayer
      /\ UNCHANGED <<cells, panel, channel, serverIdx, failed, token, shown, late, resolves,
                     linked, dead, acts, tried>>
  BY DEF PlayerRecovers, FragBuffered
<1>3. player[s] \in Player
  BY <1>1, <1>2 DEF Typed
<1>4. \E n \in [Errors -> Nat] : player' = [player EXCEPT ![s].recovered = n]
  <2>1. player[s].recovered \in [Errors -> Nat]
    BY <1>3 DEF Player
  <2>2. ASSUME NEW e \in Errors, PlayerRecovers(s, e)
        PROVE  \E n \in [Errors -> Nat] : player' = [player EXCEPT ![s].recovered = n]
    <3>1. [player[s].recovered EXCEPT ![e] = @ + 1] \in [Errors -> Nat]
      BY <2>1
    <3>2. player' = [player EXCEPT ![s].recovered = [player[s].recovered EXCEPT ![e] = @ + 1]]
      BY <1>1, <1>3, <2>2 DEF PlayerRecovers, Typed, Player
    <3> QED
      BY <3>1, <3>2
  <2>3. ASSUME FragBuffered(s)
        PROVE  \E n \in [Errors -> Nat] : player' = [player EXCEPT ![s].recovered = n]
    <3>1. [e \in Errors |-> 0] \in [Errors -> Nat]
      OBVIOUS
    <3> QED
      BY <2>3, <3>1 DEF FragBuffered
  <2> QED
    BY <2>2, <2>3
<1>5. PICK n \in [Errors -> Nat] : player' = [player EXCEPT ![s].recovered = n]
  BY <1>4
<1> DEFINE q == [player[s] EXCEPT !.recovered = n]
<1>6. q \in Player /\ q.token = player[s].token /\ q.channel = player[s].channel
      /\ q.kind = player[s].kind /\ q.phase = player[s].phase
  BY <1>3 DEF Player
<1>7. RestTypes
  BY <1>1, <1>2 DEF Typed, RestTypes
<1>8. player' = [player EXCEPT ![s] = q]
  BY <1>5
<1> HIDE DEF q
<1> QED
  BY <1>2, <1>6, <1>7, <1>8, GoesOnInv

LEMMA LateInv ==
  ASSUME ScreensInv, NEW p \in late, LatePlayerSettles(p) PROVE ScreensInv' /\ DeadStep
<1> DEFINE s == p.screen
<1>1. Typed /\ PanelTyped /\ p.token < token[s] /\ s \in Screen /\ p.token \in Nat /\ token[s] \in Nat
  BY DEF ScreensInv, LateOK, Typed
<1>2. p.token # token[s]
  BY <1>1
<1>3. /\ late' = late \ {p}
      /\ UNCHANGED <<cells, channel, serverIdx, failed, token, player, resolves, linked, acts, tried>>
      /\ UNCHANGED <<shown, dead>> /\ (UNCHANGED panel \/ RefreshSettings(s))
  BY <1>2 DEF LatePlayerSettles, OnCellPlaying
<1>4. RestTypes
  BY <1>1, <1>3 DEF Typed, RestTypes
<1>5. panel' = panel \/ (s \in OnPage /\ channel[s] # NoChannel /\ RenderSettings(s))
  BY <1>1, <1>3 DEF RefreshSettings, PanelOf, PanelTyped
<1> HIDE DEF s
<1> QED
  BY <1>1, <1>3, <1>4, <1>5, QuietInv

LEMMA ToggleInv ==
  ASSUME ScreensInv, acts' \in 0 .. MaxActions, NEW s \in OnPage, ToggleSettings(s)
  PROVE  ScreensInv' /\ DeadStep
<1>1. Typed /\ s \in Screen
  BY OnPageScreens DEF ScreensInv
<1>2. UNCHANGED <<cells, channel, serverIdx, failed, token, player, shown, late, resolves, linked,
                  dead, tried>>
  BY DEF ToggleSettings
<1>3. panel' = {} \/ (channel[s] # NoChannel /\ RenderSettings(s))
  BY DEF ToggleSettings
<1>4. RestTypes
  BY <1>1, <1>2 DEF Typed, RestTypes
<1> QED
  BY <1>1, <1>2, <1>3, <1>4, QuietInv

LEMMA ResolvedInv ==
  ASSUME ScreensInv, NEW r \in resolves, NEW ok \in BOOLEAN, ResolveAnswers(r, ok)
  PROVE  ScreensInv' /\ DeadStep
<1> DEFINE s == r.screen
           ch == r.channel
           lk == IF ok THEN linked \union {ch} ELSE linked
<1>1. Typed /\ s \in Screen /\ ch \in Dynamic /\ ch \in Channel /\ ScreenOK(s)
  BY ScreensAssumption DEF ScreensInv, Typed
<1>2. /\ resolves' = resolves \ {r} /\ linked' = lk /\ UNCHANGED <<cells, panel, channel, acts>>
      /\ channel[s] # ch \/ ~ok =>
           UNCHANGED <<token, player, late, dead, serverIdx, failed, tried>>
      /\ channel[s] # ch => UNCHANGED shown
      /\ channel[s] = ch /\ ~ok => shown' = [shown EXCEPT ![s] = "error"]
      /\ channel[s] = ch /\ ok =>
           StartPlayback(s, ch, Servers(ch, lk), serverIdx[s], failed[s], tried[s])
  BY DEF ResolveAnswers
<1>3. RestTypes
  <2>1. lk \subseteq Dynamic
    BY <1>1 DEF Typed
  <2> HIDE DEF lk
  <2> QED
    BY <1>1, <1>2, <2>1 DEF RestTypes, Typed
<1>4. CASE channel[s] # ch
  BY <1>1, <1>2, <1>3, <1>4, QuietInv
<1>5. ASSUME channel[s] = ch
      PROVE  /\ serverIdx[s] \in Links(ch) /\ failed[s] \in SUBSET Links(ch)
             /\ tried[s] \in SUBSET Nat /\ failed[s] \in SUBSET Nat /\ serverIdx[s] \in Nat \ {0}
             /\ s \in OnPage \/ token[s] # 0
             /\ channel' = [channel EXCEPT ![s] = ch]
  <2>1. ch # NoChannel
    BY <1>1, ScreensAssumption
  <2> QED
    BY <1>1, <1>2, <1>5, <2>1, SameChannel DEF ScreenOK, Typed
<1>6. CASE channel[s] = ch /\ ok
  <2>1. Servers(ch, lk) = Links(ch)
    BY <1>1, <1>6 DEF Servers, Links
  <2>2. StartPlayback(s, ch, Links(ch), serverIdx[s], failed[s], tried[s])
    BY <1>2, <1>6, <2>1
  <2>3. panel' = panel
    BY <1>2
  <2> HIDE DEF s, ch, lk
  <2> QED
    BY <1>1, <1>3, <1>5, <1>6, <2>2, <2>3, StartAction
<1>7. CASE channel[s] = ch /\ ~ok
  <2>1. /\ serverIdx' = [serverIdx EXCEPT ![s] = serverIdx[s]]
        /\ failed' = [failed EXCEPT ![s] = failed[s]] /\ tried' = [tried EXCEPT ![s] = tried[s]]
    BY <1>1, <1>2, <1>7 DEF Typed
  <2>2. channel'[s] = ch /\ \A q \in Screen : q # s => channel'[q] = channel[q]
    BY <1>2, <1>7
  <2>3. "error" \in {"idle", "loading", "playing", "error"}
    OBVIOUS
  <2>4. shown' = [shown EXCEPT ![s] = "error"] /\ UNCHANGED <<token, player, late, dead>>
        /\ panel' = panel
    BY <1>2, <1>7
  <2> HIDE DEF s, ch, lk
  <2> QED
    BY <1>1, <1>3, <1>5, <1>7, <2>1, <2>2, <2>3, <2>4, NoStart
<1> QED
  BY <1>4, <1>6, <1>7

-----------------------------------------------------------------------------
(* Screens that end their player, and screens that come and go. *)

\* A screen whose player is destroyed: it names nothing any more, or has left
\* the page.
LEMMA DestroyInv ==
  ASSUME ScreensInv, acts' \in 0 .. MaxActions, NEW s \in Screen, Destroy(s), panel' = {},
         cells' \in Seq(Screen), Len(cells') \in 1 .. MaxCells, Distinct(cells'),
         \A r \in Screen : r # s => (r \in OnPage' <=> r \in OnPage),
         UNCHANGED <<serverIdx, failed, tried, linked, resolves, dead>>,
         \/ s \notin OnPage' /\ UNCHANGED <<channel, shown>>
         \/ /\ channel' = [channel EXCEPT ![s] = NoChannel]
            /\ shown' = [shown EXCEPT ![s] = "idle"]
  PROVE  ScreensInv' /\ DeadStep
<1>1. Typed /\ LateOK /\ \A r \in Screen : ScreenOK(r)
  BY DEF ScreensInv
<1>2. /\ token' = [token EXCEPT ![s] = @ + 1] /\ player' = [player EXCEPT ![s] = NoPlayer]
      /\ late' = late \union LateOf(s)
  BY DEF Destroy
<1>3. token[s] \in Nat /\ token'[s] = token[s] + 1 /\ player'[s] = NoPlayer
      /\ \A r \in Screen : r # s => Same(r)
  BY <1>1, <1>2 DEF Typed, Same
<1>4. late' \subseteq [screen : Screen, token : Nat]
  BY <1>1, <1>2, LeftBehind
<1>5. Typed'
  <2>1. token' \in [Screen -> Nat] /\ player' \in [Screen -> Player \union {NoPlayer}]
    BY <1>1, <1>2, <1>3 DEF Typed
  <2>2. channel' \in [Screen -> Channel \union {NoChannel}]
        /\ shown' \in [Screen -> {"idle", "loading", "playing", "error"}]
    BY <1>1 DEF Typed
  <2> QED
    BY <1>1, <1>4, <2>1, <2>2 DEF Typed
<1>6. LateOK'
  <2> SUFFICES ASSUME NEW p \in late' PROVE p.token < token'[p.screen]
    BY DEF LateOK
  <2>1. p \in late \union LateOf(s)
    BY <1>2
  <2>2. p.screen \in Screen /\ (p.screen # s => token'[p.screen] = token[p.screen])
    BY <1>1, <1>3, <2>1, LeftBehind DEF Same
  <2> QED
    BY <1>1, <1>3, <2>1, <2>2, LeftBehind
<1>7. ScreenOK(s)'
  <2>1. CASE s \notin OnPage' /\ UNCHANGED <<channel, shown>>
    BY <1>1, <1>3, <2>1 DEF ScreenOK, Starting, Silent
  <2>2. CASE channel' = [channel EXCEPT ![s] = NoChannel] /\ shown' = [shown EXCEPT ![s] = "idle"]
    <3>1. channel'[s] = NoChannel /\ shown'[s] = "idle"
      BY <1>1, <2>2 DEF Typed
    <3> QED
      BY <1>3, <3>1 DEF ScreenOK, Starting, Silent
  <2> QED
    BY <2>1, <2>2
<1>8. \A r \in Screen : ScreenOK(r)'
  BY <1>1, <1>3, <1>7, OtherScreen
<1>9. PanelTyped' /\ PanelIsCurrent' /\ DeadStep
  BY DEF PanelTyped, PanelIsCurrent, DeadStep
<1> QED
  BY <1>5, <1>6, <1>8, <1>9 DEF ScreensInv

LEMMA ClearInv ==
  ASSUME ScreensInv, acts' \in 0 .. MaxActions, NEW s \in OnPage, ClearCell(s)
  PROVE  ScreensInv' /\ DeadStep
<1>1. Typed /\ s \in Screen
  BY OnPageScreens DEF ScreensInv
<1>2. /\ Destroy(s) /\ channel' = [channel EXCEPT ![s] = NoChannel] /\ panel' = {}
      /\ shown' = [shown EXCEPT ![s] = "idle"]
      /\ UNCHANGED <<cells, serverIdx, failed, tried, linked, resolves, dead>>
  BY DEF ClearCell
<1>3. cells' \in Seq(Screen) /\ Len(cells') \in 1 .. MaxCells /\ Distinct(cells') /\ OnPage' = OnPage
  BY <1>1, <1>2 DEF Typed, OnPage
<1> QED
  BY <1>1, <1>2, <1>3, DestroyInv

LEMMA RemoveInv ==
  ASSUME ScreensInv, acts' \in 0 .. MaxActions, RemoveCell PROVE ScreensInv' /\ DeadStep
<1> DEFINE s == Last(cells)
           n == Len(cells)
<1>1. Typed /\ cells \in Seq(Screen) /\ n \in 1 .. MaxCells /\ Distinct(cells) /\ MaxCells \in Nat
  BY ScreensAssumption DEF ScreensInv, Typed
<1>2. /\ n > 1 /\ cells' = SubSeq(cells, 1, n - 1) /\ Destroy(s) /\ panel' = {}
      /\ UNCHANGED <<channel, serverIdx, failed, tried, shown, linked, resolves, dead>>
  BY DEF RemoveCell, Front
<1>3. s = cells[n] /\ s \in Screen
  BY <1>1 DEF Last
<1>4. cells' \in Seq(Screen) /\ Len(cells') = n - 1 /\ \A i \in 1 .. n - 1 : cells'[i] = cells[i]
  BY <1>1, <1>2
<1>5. Len(cells') \in 1 .. MaxCells /\ Distinct(cells')
  BY <1>1, <1>2, <1>4 DEF Distinct
<1>6. DOMAIN cells = 1 .. n /\ DOMAIN cells' = 1 .. n - 1
  BY <1>1, <1>4
<1>7. s \notin OnPage'
  BY <1>1, <1>2, <1>3, <1>4, <1>6 DEF OnPage, ToSet, Distinct
<1>8. \A r \in Screen : r # s => (r \in OnPage' <=> r \in OnPage)
  BY <1>1, <1>3, <1>4, <1>6 DEF OnPage, ToSet
<1> HIDE DEF s, n
<1> QED
  BY <1>2, <1>3, <1>4, <1>5, <1>7, <1>8, DestroyInv

LEMMA AddInv ==
  ASSUME ScreensInv, acts' \in 0 .. MaxActions, AddCell PROVE ScreensInv' /\ DeadStep
<1> DEFINE n == Len(cells)
<1>1. Typed /\ LateOK /\ (\A r \in Screen : ScreenOK(r)) /\ cells \in Seq(Screen) /\ n \in 1 .. MaxCells
      /\ Distinct(cells) /\ MaxCells \in Nat
  BY ScreensAssumption DEF ScreensInv, Typed
<1>2. PICK s \in Screen \ OnPage : token[s] = 0 /\ cells' = Append(cells, s)
  BY DEF AddCell
<1>3. /\ n < MaxCells /\ panel' = {}
      /\ UNCHANGED <<channel, serverIdx, failed, token, player, shown, late, resolves, linked, dead,
                     tried>>
  BY DEF AddCell
<1>4. cells' \in Seq(Screen) /\ Len(cells') = n + 1 /\ cells'[n + 1] = s
      /\ \A i \in 1 .. n : cells'[i] = cells[i]
  BY <1>1, <1>2
<1>5. DOMAIN cells = 1 .. n /\ DOMAIN cells' = 1 .. n + 1
  BY <1>1, <1>4
<1>6. \A i \in 1 .. n : cells[i] # s
  BY <1>2, <1>5 DEF OnPage, ToSet
<1>7. Len(cells') \in 1 .. MaxCells /\ Distinct(cells')
  BY <1>1, <1>3, <1>4, <1>6 DEF Distinct
<1>8. OnPage' = OnPage \union {s}
  BY <1>1, <1>4, <1>5 DEF OnPage, ToSet
<1>9. Typed'
  BY <1>1, <1>3, <1>4, <1>7 DEF Typed
<1>10. ScreenOK(s)'
  <2>1. shown[s] = "idle" /\ player[s] = NoPlayer /\ channel[s] = NoChannel
    BY <1>1, <1>2 DEF ScreenOK
  <2> QED
    BY <1>3, <1>8, <2>1 DEF ScreenOK, Starting, Silent
<1>11. \A r \in Screen : ScreenOK(r)'
  BY <1>1, <1>3, <1>8, <1>10, OtherScreen DEF Same
<1>12. LateOK' /\ PanelTyped' /\ PanelIsCurrent' /\ DeadStep
  BY <1>1, <1>3 DEF LateOK, PanelTyped, PanelIsCurrent, DeadStep
<1> QED
  BY <1>9, <1>11, <1>12 DEF ScreensInv

-----------------------------------------------------------------------------
LEMMA ScreensStep == ASSUME ScreensInv, Next PROVE ScreensInv' /\ DeadStep
<1>1. ASSUME User PROVE ScreensInv' /\ DeadStep
  <2>1. acts' \in 0 .. MaxActions
    BY <1>1, ScreensAssumption DEF User, ScreensInv, Typed
  <2>2. ASSUME NEW s \in OnPage, NEW ch \in Channel, AssignChannel(s, ch)
        PROVE  ScreensInv' /\ DeadStep
    BY <2>1, <2>2, AssignInv
  <2>3. ASSUME NEW s \in OnPage, RetryCell(s) PROVE ScreensInv' /\ DeadStep
    BY <2>1, <2>3, RetryInv
  <2>4. ASSUME NEW s \in OnPage, NEW i \in ServerNumbers, ChooseServer(s, i)
        PROVE  ScreensInv' /\ DeadStep
    BY <2>1, <2>4, ChooseInv
  <2>5. ASSUME NEW s \in OnPage, ToggleSettings(s) PROVE ScreensInv' /\ DeadStep
    BY <2>1, <2>5, ToggleInv
  <2>6. ASSUME NEW s \in OnPage, ClearCell(s) PROVE ScreensInv' /\ DeadStep
    BY <2>1, <2>6, ClearInv
  <2>7. ASSUME AddCell \/ RemoveCell PROVE ScreensInv' /\ DeadStep
    BY <2>1, <2>7, AddInv, RemoveInv
  <2> QED
    BY <1>1, <2>2, <2>3, <2>4, <2>5, <2>6, <2>7 DEF User
<1>2. ASSUME NEW s \in Screen, PlayerStep(s) \/ FragBuffered(s) PROVE ScreensInv' /\ DeadStep
  BY <1>2, PlaysInv, FailsInv, SilentInv, RecoversInv DEF PlayerStep
<1>3. ASSUME NEW p \in late, LatePlayerSettles(p) PROVE ScreensInv' /\ DeadStep
  BY <1>3, LateInv
<1>4. ASSUME Answer PROVE ScreensInv' /\ DeadStep
  BY <1>4, ResolvedInv DEF Answer
<1> QED
  BY <1>1, <1>2, <1>3, <1>4 DEF Next

LEMMA ScreensInvKeeps == ScreensInv /\ [Next]_vars => ScreensInv'
<1> SUFFICES ASSUME ScreensInv, UNCHANGED vars PROVE ScreensInv'
  BY ScreensStep
<1>1. Typed /\ PanelTyped /\ LateOK /\ PanelIsCurrent /\ \A r \in Screen : ScreenOK(r)
  BY DEF ScreensInv
<1>2. OnPage' = OnPage
  BY DEF vars, OnPage
<1>3. Typed'
  BY <1>1 DEF vars, Typed
<1>4. \A r \in Screen : ScreenOK(r)'
  BY <1>1, <1>2, OtherScreen DEF vars, Same
<1>5. PanelTyped' /\ LateOK' /\ PanelIsCurrent'
  BY <1>1, <1>2 DEF vars, PanelTyped, LateOK, PanelIsCurrent
<1> QED
  BY <1>3, <1>4, <1>5 DEF ScreensInv

LEMMA ScreensInvHolds == Spec => []ScreensInv
<1>1. Init => ScreensInv
  <2> SUFFICES ASSUME Init PROVE ScreensInv
    OBVIOUS
  <2> USE ScreensAssumption
  <2>1. PICK s \in Screen : cells = <<s>>
    BY DEF Init
  <2>2. cells \in Seq(Screen) /\ Len(cells) = 1 /\ 1 \in 1 .. MaxCells /\ Distinct(cells)
    BY <2>1 DEF Distinct
  <2>3. acts \in 0 .. MaxActions
    BY DEF Init
  <2>4. Typed
    BY <2>2, <2>3 DEF Init, Typed
  <2>5. ASSUME NEW r \in Screen PROVE ScreenOK(r)
    BY <2>5 DEF Init, ScreenOK, Starting, Silent
  <2>6. PanelTyped /\ LateOK /\ PanelIsCurrent
    BY DEF Init, PanelTyped, LateOK, PanelIsCurrent
  <2> QED
    BY <2>4, <2>5, <2>6 DEF ScreensInv
<1> QED
  BY <1>1, ScreensInvKeeps, PTL DEF Spec

\* A screen on which the user put a channel with fixed links plays that channel
\* or nothing, and one that has left the page plays nothing, whichever answers
\* of players and resolves come late.
THEOREM PlaysWhatItNamesHolds == Spec => []PlaysWhatItNames
<1>1. ScreensInv => PlaysWhatItNames
  BY DEF ScreensInv, ScreenOK, PlaysWhatItNames
<1> QED
  BY <1>1, ScreensInvHolds, PTL

\* What a screen says is true of the player it has, and its settings panel is
\* that of this player; with the types of every variable.
THEOREM DisplaySound == Spec => []DisplayOK
<1>1. ASSUME ScreensInv PROVE DisplayOK
  <2>1. Typed /\ PanelTyped /\ PanelIsCurrent /\ \A r \in Screen : ScreenOK(r)
    BY <1>1 DEF ScreensInv
  <2>2. Cardinality(panel) <= 1
    BY <2>1, FS_EmptySet, FS_Singleton DEF PanelTyped
  <2>3. TypeOK
    <3>1. OnPage \subseteq Screen
      BY <2>1, OnPageScreens
    <3>2. \A s \in Screen : player[s] = NoPlayer \/ player[s] \in Player
      BY <2>1 DEF Typed
    <3> QED
      BY <2>1, <2>2, <3>1, <3>2 DEF Typed, PanelTyped, TypeOK
  <2>4. ShownIsCurrent
    BY <2>1, OnPageScreens DEF ScreenOK, ShownIsCurrent
  <2> QED
    BY <2>1, <2>3, <2>4 DEF DisplayOK
<1> QED
  BY <1>1, ScreensInvHolds, PTL

\* A channel with fixed links is marked dead only by a screen that shows it and
\* has seen all its servers fail.
THEOREM DeadOnlyIfAllFailed == Spec => DeadWhenAllFailed
<1>1. ScreensInv /\ [Next]_vars =>
        [\A ch \in (dead' \ dead) \ Dynamic :
           \E s \in Screen : channel'[s] = ch /\ tried'[s] = DOMAIN KindOf[ch]]_vars
  BY ScreensStep DEF DeadStep, Links
<1> QED
  BY <1>1, ScreensInvHolds, PTL DEF Spec, DeadWhenAllFailed
=============================================================================
