--------------------------- MODULE RecordingProofs ---------------------------
(***************************************************************************)
(* Proofs about the page and the recorder behind it, for any number of     *)
(* recordings, screens and channels: an answered stop is final, the server *)
(* leaves no child behind that StopAll found, one screen is heard and what *)
(* is recorded is what is heard, and the page loses no recording unless    *)
(* its starts overlap.                                                     *)
(***************************************************************************)
EXTENDS Recording, TLAPS, WellFoundedInduction

\* A recording has a state once its start is answered; one that has none was
\* not registered, and nothing is stopped that was not.
Registered ==
  /\ recId \in 0 .. MaxRecs
  /\ \A n \in Rec : start[n] \in {"idle", "sent", "spawned"} => state[n] = "none"
  /\ \A n \in Rec : start[n] = "answered" => state[n] # "none"
  /\ \A n \in Rec : recId = n => state[n] # "none"
  /\ \A n \in Rec, c \in Caller :
       stop[c][n] \in {"sent", "answered"} \union Stopping => state[n] # "none"
  /\ \A n \in ids : state[n] # "none"

\* A recording is final only when its child is gone.
FinalIsDead == \A n \in Rec : state[n] \in Final => ffmpeg[n] \in {"ended", "broken"}

\* StopAll has returned once the server goes on.
StopAllDone ==
  server \in {"draining", "down"} => \A n \in ids : stop["shutdown"][n] = "answered"

AnsweredIsOver ==
  \A c \in Caller, n \in Rec : stop[c][n] = "answered" => state[n] \in Final

Inv == RecorderTypeOK /\ Registered /\ FinalIsDead /\ StopAllDone /\ AnsweredIsOver


\* The sound is where a channel is, and channels are on the page.
Placed ==
  /\ audioCell = 0 <=> Filled(channel) = {}
  /\ audioCell # 0 => audioCell \in Filled(channel)
  /\ \A i \in Filled(channel) : i <= count

\* A start that overlapped no other is the only one under way, and nothing is
\* being recorded before it is answered.
Alone ==
  /\ recId # 0 /\ recId \notin overlap => Pending = {}
  /\ \A n \in Pending \ overlap : recId = 0 /\ Pending = {n}

\* Recording n is of what is heard.
IsHeard(n) ==
  /\ recCellIdx = audioCell /\ audioCell # 0
  /\ recorded[n] = <<audioCell, channel[audioCell]>>

RecordsRight ==
  /\ recId # 0 /\ recId \notin overlap \union moved => IsHeard(recId)
  /\ \A n \in Pending \ (overlap \union moved) : IsHeard(n)

\* The clock is that of the recording the page knows; a refused request has
\* recorded nothing, and a stop is refused only by a server that does not listen.
Known ==
  /\ recTimer = recId
  /\ LostOnlyByOverlap
  /\ \A n \in Rec : start[n] = "refused" => state[n] = "none"
  /\ Listening => \A n \in Rec : stop["page"][n] # "refused"

PageInv == Inv /\ TypeOK /\ OneScreenHeard /\ Placed /\ Alone /\ RecordsRight /\ Known

-----------------------------------------------------------------------------
LEMMA InitInv == Init => Inv
BY RecorderAssumption DEF Init, RecorderInit, Inv, RecorderTypeOK, Registered, FinalIsDead, StopAllDone,
       AnsweredIsOver, Final, Stopping, Rec, Caller

\* What the page may do to the recorder: nothing, forget a recording or ask for
\* its end, ask for a start, and take an answer.
Forgets == UNCHANGED recorder /\ recId' \in {recId, 0}

AsksStop ==
  /\ recId # 0 /\ recId' = 0
  /\ stop' = [stop EXCEPT !["page"][recId] = IF Listening THEN "sent" ELSE "refused"]
  /\ UNCHANGED <<start, ffmpeg, state, stopped, server, ids>>

AsksStart ==
  /\ \E n \in Rec, s \in {"sent", "refused"} : start[n] = "idle" /\ start' = [start EXCEPT ![n] = s]
  /\ UNCHANGED <<recId, ffmpeg, state, stopped, stop, server, ids>>

LEMMA ApplyAudioKinds ==
  ASSUME NEW cut, ApplyAudio(cut) PROVE Forgets \/ AsksStop
BY DEF ApplyAudio, StopRecording, KeepRecording, Forgets, AsksStop, recorder

LEMMA UserKinds ==
  ASSUME User PROVE Forgets \/ AsksStop \/ AsksStart
<1>1. ASSUME NEW i \in Cell, (\E ch \in Channel : AssignChannel(i, ch)) \/ ClearCell(i) \/ SetAudioCell(i)
      PROVE  Forgets \/ AsksStop
  BY <1>1, ApplyAudioKinds DEF AssignChannel, ClearCell, SetAudioCell
<1>2. ASSUME AddCell \/ RemoveCell \/ MuteBtn \/ \E v \in Volume : SetVolume(v)
      PROVE  Forgets \/ AsksStop
  BY <1>2, ApplyAudioKinds DEF AddCell, RemoveCell, MuteBtn, SetVolume
<1>3. ASSUME StartRecording PROVE AsksStart
  BY <1>3 DEF StartRecording, AsksStart
<1>4. ASSUME PressStop PROVE AsksStop
  BY <1>4 DEF PressStop, StopRecording, AsksStop
<1>5. ASSUME SavedClose \/ Reload PROVE Forgets
  BY <1>5 DEF SavedClose, Reload, Forgets
<1> QED
  BY <1>1, <1>2, <1>3, <1>4, <1>5 DEF User

-----------------------------------------------------------------------------
\* What a call of Stop can be.
Stops == {"none", "sent", "answered", "refused", "over"} \union Stopping

ChildrenStayDead ==
  /\ ffmpeg' \in [Rec -> {"none", "running", "ended", "broken"}]
  /\ \A m \in Rec : ffmpeg[m] \in {"ended", "broken"} => ffmpeg'[m] = ffmpeg[m]

LEMMA SameChildren == ASSUME RecorderTypeOK, ffmpeg' = ffmpeg PROVE ChildrenStayDead
BY DEF RecorderTypeOK, ChildrenStayDead

\* A step that moves one call of Stop and at most kills a child keeps the
\* invariant: an answer means the recording is final, one of StopAll's stays.
LEMMA StopStep ==
  ASSUME Inv, NEW c \in Caller, NEW n \in Rec, NEW v \in Stops,
         stop' = [stop EXCEPT ![c][n] = v],
         UNCHANGED <<start, state, server, ids>>, recId' \in {recId, 0},
         ChildrenStayDead, stopped' \in [Rec -> BOOLEAN],
         v \in {"sent", "answered"} \union Stopping => state[n] # "none",
         v = "answered" => state[n] \in Final,
         c = "shutdown" /\ stop[c][n] = "answered" => v = "answered"
  PROVE  Inv'
<1>1. /\ stop' \in [Caller -> [Rec -> Stops]]
      /\ stop'[c][n] = v
      /\ \A d \in Caller, m \in Rec : d # c \/ m # n => stop'[d][m] = stop[d][m]
  <2>1. stop \in [Caller -> [Rec -> Stops]]
    BY DEF Inv, RecorderTypeOK, Stops
  <2>2. stop' = [stop EXCEPT ![c] = [stop[c] EXCEPT ![n] = v]]
    OBVIOUS
  <2>3. [stop[c] EXCEPT ![n] = v] \in [Rec -> Stops]
    BY <2>1
  <2>4. stop'[c] = [stop[c] EXCEPT ![n] = v] /\ \A d \in Caller : d # c => stop'[d] = stop[d]
    BY <2>1, <2>2
  <2>5. stop' \in [Caller -> [Rec -> Stops]]
    BY <2>1, <2>2, <2>3
  <2> QED
    BY <2>1, <2>3, <2>4, <2>5
<1>2. RecorderTypeOK'
  BY <1>1 DEF Inv, RecorderTypeOK, ChildrenStayDead, Stops
<1>3. \A d \in Caller, m \in Rec :
        stop'[d][m] \in {"sent", "answered"} \union Stopping => state[m] # "none"
  <2> SUFFICES ASSUME NEW d \in Caller, NEW m \in Rec,
                      stop'[d][m] \in {"sent", "answered"} \union Stopping
               PROVE  state[m] # "none"
    OBVIOUS
  <2>1. CASE d = c /\ m = n
    BY <2>1, <1>1
  <2>2. CASE d # c \/ m # n
    BY <2>2, <1>1 DEF Inv, Registered
  <2> QED
    BY <2>1, <2>2
<1>4. Registered'
  BY <1>3, RecorderAssumption DEF Inv, Registered, Rec
<1>5. FinalIsDead'
  BY DEF Inv, FinalIsDead, ChildrenStayDead
<1>6. StopAllDone'
  <2> SUFFICES ASSUME server \in {"draining", "down"}, NEW m \in ids
               PROVE  stop'["shutdown"][m] = "answered"
    BY DEF StopAllDone
  <2>1. m \in Rec /\ "shutdown" \in Caller /\ stop["shutdown"][m] = "answered"
    BY DEF Inv, StopAllDone, RecorderTypeOK, Caller
  <2>2. CASE c = "shutdown" /\ m = n
    BY <2>1, <2>2, <1>1
  <2>3. CASE c # "shutdown" \/ m # n
    BY <2>1, <2>3, <1>1
  <2> QED
    BY <2>2, <2>3
<1>7. AnsweredIsOver'
  <2> SUFFICES ASSUME NEW d \in Caller, NEW m \in Rec, stop'[d][m] = "answered"
               PROVE  state[m] \in Final
    BY DEF AnsweredIsOver
  <2>1. CASE d = c /\ m = n
    BY <2>1, <1>1
  <2>2. CASE d # c \/ m # n
    BY <2>2, <1>1 DEF Inv, AnsweredIsOver
  <2> QED
    BY <2>1, <2>2
<1> QED
  BY <1>2, <1>4, <1>5, <1>6, <1>7 DEF Inv

\* So does one in which Stop is entered.
LEMMA EnterStopStep ==
  ASSUME Inv, NEW c \in Caller, NEW n \in Rec, EnterStop(c, n), stop[c][n] \in {"none", "sent"},
         stop[c][n] = "sent" \/ n \in ids,
         UNCHANGED <<start, ffmpeg, state, server, ids, recId>>
  PROVE  Inv'
<1>1. state[n] \in {"recording"} \union Final
  BY DEF Inv, Registered, RecorderTypeOK
<1>2. PICK v \in {"waiting", "answered"} :
        /\ stop' = [stop EXCEPT ![c][n] = v]
        /\ v = "waiting" <=> state[n] = "recording"
  BY DEF EnterStop
<1>3. stopped' \in [Rec -> BOOLEAN]
  BY DEF EnterStop, Inv, RecorderTypeOK
<1>4. v \in Stops /\ (v = "answered" => state[n] \in Final) /\ state[n] # "none"
  BY <1>1, <1>2 DEF Stops, Stopping, Final
<1> QED
  BY <1>2, <1>3, <1>4, StopStep, SameChildren DEF Inv, RecorderTypeOK

\* The page's steps keep the invariant.
LEMMA PageStep ==
  ASSUME Inv, User \/ \E n \in Rec : Answer(n) PROVE Inv'
<1> USE RecorderAssumption
<1>1. ASSUME Forgets PROVE Inv'
  BY <1>1 DEF Forgets, recorder, Inv, RecorderTypeOK, Registered, FinalIsDead, StopAllDone,
              AnsweredIsOver, Rec
<1>2. ASSUME AsksStop PROVE Inv'
  <2>1. PICK v \in {"sent", "refused"} : stop' = [stop EXCEPT !["page"][recId] = v]
    BY <1>2 DEF AsksStop
  <2>2. recId \in Rec /\ "page" \in Caller /\ v \in Stops /\ state[recId] # "none"
    BY <1>2 DEF AsksStop, Stops, Inv, Registered, Rec, Caller
  <2> QED
    BY <1>2, <2>1, <2>2, StopStep, SameChildren DEF AsksStop, Inv, RecorderTypeOK
<1>3. ASSUME AsksStart PROVE Inv'
  BY <1>3 DEF AsksStart, Inv, RecorderTypeOK, Registered, FinalIsDead, StopAllDone, AnsweredIsOver
<1>4. ASSUME NEW n \in Rec, StartAnswered(n) PROVE Inv'
  BY <1>4 DEF StartAnswered, Inv, RecorderTypeOK, Registered, FinalIsDead, StopAllDone,
              AnsweredIsOver, Rec
<1>5. ASSUME NEW n \in Rec, StartFailed(n) PROVE Inv'
  BY <1>5 DEF StartFailed, Inv, RecorderTypeOK, Registered, FinalIsDead, StopAllDone, AnsweredIsOver
<1>6. ASSUME NEW n \in Rec, StopAnswered(n) PROVE Inv'
  <2>1. /\ stop' = [stop EXCEPT !["page"][n] = "over"]
        /\ UNCHANGED <<start, ffmpeg, state, stopped, server, ids, recId>>
    BY <1>6 DEF StopAnswered
  <2>2. "page" \in Caller /\ "over" \in Stops
    BY DEF Caller, Stops
  <2> QED
    BY <2>1, <2>2, StopStep, SameChildren DEF Inv, RecorderTypeOK, Stopping
<1> QED
  BY <1>1, <1>2, <1>3, <1>4, <1>5, <1>6, UserKinds DEF Answer

\* The server's steps keep it, recId being the page's.
LEMMA ServerStep ==
  ASSUME Inv, RecorderNext, recId' = recId PROVE Inv'
<1>1. ASSUME NEW n \in Rec, Spawn(n) PROVE Inv'
  BY <1>1 DEF Spawn, Inv, RecorderTypeOK, Registered, FinalIsDead, StopAllDone, AnsweredIsOver, Final
<1>2. ASSUME NEW n \in Rec, Register(n) PROVE Inv'
  BY <1>2 DEF Register, Inv, RecorderTypeOK, Registered, FinalIsDead, StopAllDone, AnsweredIsOver,
              Final
<1>3. ASSUME NEW n \in Rec, Exit(n) PROVE Inv'
  BY <1>3 DEF Exit, Inv, RecorderTypeOK, Registered, FinalIsDead, StopAllDone, AnsweredIsOver
<1>4. ASSUME NEW n \in Rec, Watch(n) PROVE Inv'
  BY <1>4 DEF Watch, Inv, RecorderTypeOK, Registered, FinalIsDead, StopAllDone, AnsweredIsOver, Final
<1>5. ASSUME NEW n \in Rec, ServeStop(n) PROVE Inv'
  BY <1>5, EnterStopStep DEF ServeStop, Caller
<1>6. ASSUME NEW n \in Rec, NEW c \in Caller, Kill(c, n) PROVE Inv'
  <2>1. stop' = [stop EXCEPT ![c][n] = "killed"] /\ stop[c][n] = "waiting"
    BY <1>6 DEF Kill
  <2>2. ChildrenStayDead
    BY <1>6 DEF Kill, Inv, RecorderTypeOK, ChildrenStayDead
  <2>3. /\ "killed" \in Stops /\ state[n] # "none" /\ stopped' \in [Rec -> BOOLEAN]
        /\ UNCHANGED <<start, state, server, ids>>
    BY <1>6 DEF Kill, Stops, Stopping, Inv, RecorderTypeOK
  <2> QED
    BY <1>6, <2>1, <2>2, <2>3, StopStep
<1>7. ASSUME NEW n \in Rec, NEW c \in Caller, LeaveStop(c, n) PROVE Inv'
  <2>1. stop' = [stop EXCEPT ![c][n] = "answered"] /\ state[n] \in Final
    BY <1>7 DEF LeaveStop
  <2>2. "answered" \in Stops /\ state[n] # "none"
    BY <2>1 DEF Stops, Final
  <2> QED
    BY <1>7, <2>1, <2>2, StopStep, SameChildren DEF LeaveStop, Inv, RecorderTypeOK
<1>8. CASE Signal
  BY <1>8 DEF Signal, Inv, RecorderTypeOK, Registered, FinalIsDead, StopAllDone, AnsweredIsOver
<1>9. ASSUME NEW n \in Rec, StopNext(n) PROVE Inv'
  BY <1>9, EnterStopStep DEF StopNext, Caller
<1>10. CASE StopAllReturns
  BY <1>10 DEF StopAllReturns, Inv, RecorderTypeOK, Registered, FinalIsDead, StopAllDone,
               AnsweredIsOver
<1>11. CASE Down
  <2>1. stop \in [Caller -> [Rec -> Stops]]
    BY DEF Inv, RecorderTypeOK, Stops
  <2> DEFINE page == [n \in Rec |-> IF stop["page"][n] \in {"sent"} \union Stopping
                                      THEN "refused" ELSE stop["page"][n]]
  <2>2. page \in [Rec -> Stops] /\ stop' = [stop EXCEPT !["page"] = page]
    BY <1>11, <2>1 DEF Down, Stops, Caller
  <2>3. stop' \in [Caller -> [Rec -> Stops]]
    BY <2>1, <2>2
  <2>4. stop'["page"] = page /\ stop'["shutdown"] = stop["shutdown"]
    BY <2>1, <2>2 DEF Caller
  <2>5. \A d \in Caller, m \in Rec : stop'[d][m] \in {stop[d][m], "refused"}
    BY <2>4 DEF Caller
  <2>6. RecorderTypeOK'
    BY <1>11, <2>3 DEF Down, Inv, RecorderTypeOK, Stops
  <2>7. Registered'
    BY <1>11, <2>5 DEF Down, Inv, Registered, Stopping, RecorderTypeOK
  <2>8. FinalIsDead' /\ StopAllDone'
    BY <1>11, <2>4 DEF Down, Inv, FinalIsDead, StopAllDone
  <2>9. AnsweredIsOver'
    BY <1>11, <2>5 DEF Down, Inv, AnsweredIsOver
  <2> QED
    BY <2>6, <2>7, <2>8, <2>9 DEF Inv
<1> QED
  BY <1>1, <1>2, <1>3, <1>4, <1>5, <1>6, <1>7, <1>8, <1>9, <1>10, <1>11
  DEF RecorderNext, Shutdown, Handler

LEMMA InvHolds == Spec => []Inv
<1>1. Inv /\ [Next]_vars => Inv'
  <2> SUFFICES ASSUME Inv, [Next]_vars PROVE Inv'
    OBVIOUS
  <2>1. ASSUME User \/ \E n \in Rec : Answer(n) PROVE Inv'
    BY <2>1, PageStep
  <2>2. ASSUME RecorderNext, UNCHANGED button PROVE Inv'
    BY <2>2, ServerStep DEF button
  <2>3. CASE UNCHANGED vars
    BY <2>3 DEF vars, recorder, button, Inv, RecorderTypeOK, Registered, FinalIsDead, StopAllDone,
                AnsweredIsOver
  <2> QED
    BY <2>1, <2>2, <2>3 DEF Next
<1> QED
  BY <1>1, InitInv, PTL DEF Spec

\* When Stop has returned the recording has ended for good and no child writes
\* its file, whoever stopped it and however often, killed or not.
THEOREM StopIsFinal == Spec => []AnsweredStopIsFinal
<1>1. Inv => AnsweredStopIsFinal
  BY DEF Inv, AnsweredIsOver, FinalIsDead, AnsweredStopIsFinal
<1> QED
  BY <1>1, InvHolds, PTL

\* An ffmpeg outlives the server only if StopAll did not find its recording.
THEOREM NoneLeftBehind == Spec => []OutlivesOnlyIfLater
<1>1. Inv => OutlivesOnlyIfLater
  BY DEF Inv, RecorderTypeOK, StopAllDone, AnsweredIsOver, FinalIsDead, OutlivesOnlyIfLater, Caller
<1> QED
  BY <1>1, InvHolds, PTL

-----------------------------------------------------------------------------
(* The page: where the sound is, and what is recorded of it. *)

LEMMA LeastExists ==
  ASSUME NEW S \in SUBSET Nat, S # {} PROVE \E m \in S : \A n \in S : m <= n
<1> DEFINE less == {p \in Nat \X Nat : p[1] < p[2]}
<1>1. OpToRel(<, Nat) = less
  BY Zenon DEF OpToRel
<1>2. IsWellFoundedOn(less, Nat)
  BY <1>1, NatLessThanWellFounded, Zenon
<1>3. \A n, m \in Nat : n < m => <<n, m>> \in less
  OBVIOUS
<1> HIDE DEF less
<1>4. PICK m \in S : \A n \in S : <<n, m>> \notin less
  BY <1>2, WFMin
<1>5. ASSUME NEW n \in S PROVE m <= n
  <2>1. m \in Nat /\ n \in Nat /\ ~(n < m)
    BY <1>3, <1>4
  <2> QED
    BY <2>1
<1> QED
  BY <1>5

\* First finds a screen if there is one.
LEMMA FirstFound ==
  ASSUME NEW S \in SUBSET Cell
  PROVE  First(S) \in 0 .. MaxCells /\ (First(S) = 0 <=> S = {}) /\ (S # {} => First(S) \in S)
<1>1. MaxCells \in Nat /\ S \subseteq Nat
  BY RecordingAssumption DEF Cell
<1>2. CASE S = {}
  BY <1>1, <1>2 DEF First
<1>3. CASE S # {}
  <2>1. \E m \in S : \A n \in S : m <= n
    BY <1>1, <1>3, LeastExists
  <2>2. First(S) \in S
    BY <1>3, <2>1 DEF First
  <2>3. First(S) \in 1 .. MaxCells
    BY <2>2 DEF Cell
  <2> QED
    BY <1>1, <1>3, <2>2, <2>3
<1> QED
  BY <1>2, <1>3

\* A change of the sound or of the screens, as applyAudio finds it: what was
\* recorded is still on its screen, or its recording is being cut.
Rearranged(cut) ==
  /\ ApplyAudio(cut)
  /\ count' \in Cell /\ channel' \in [Cell -> Channel \union {NoChannel}]
  /\ globalMuted' \in BOOLEAN /\ audioCell' \in 0 .. MaxCells
  /\ Placed'
  /\ recCellIdx = audioCell /\ ~cut => channel'[audioCell] = channel[audioCell]

LEMMA AssignRearranges ==
  ASSUME TypeOK, Placed, NEW i \in Cell, NEW ch \in Channel, AssignChannel(i, ch)
  PROVE  Rearranged(i = recCellIdx)
<1> USE RecordingAssumption
<1>1. /\ channel' \in [Cell -> Channel \union {NoChannel}] /\ count' = count
      /\ globalMuted' = globalMuted /\ audioCell' = IF audioCell = 0 THEN i ELSE audioCell
      /\ Filled(channel') = Filled(channel) \union {i}
      /\ \A j \in Cell : j # i => channel'[j] = channel[j]
      /\ i <= count /\ ApplyAudio(i = recCellIdx)
  BY DEF AssignChannel, TypeOK, Filled
<1>2. Placed'
  BY <1>1 DEF Placed, TypeOK, Cell
<1>3. audioCell' \in 0 .. MaxCells
  BY <1>1 DEF TypeOK, Cell
<1>4. audioCell # i => channel'[audioCell] = channel[audioCell]
  BY <1>1 DEF TypeOK, Cell, AssignChannel
<1> QED
  BY <1>1, <1>2, <1>3, <1>4 DEF Rearranged, TypeOK

LEMMA EmptiedRearranges ==
  ASSUME TypeOK, Placed, NEW i \in Cell, channel' = [channel EXCEPT ![i] = NoChannel],
         audioCell' = Pass(i, channel'), globalMuted' = globalMuted, count' \in Cell,
         \A j \in Filled(channel) : j = i \/ j <= count', ApplyAudio(i = recCellIdx)
  PROVE  Rearranged(i = recCellIdx)
<1> USE RecordingAssumption
<1>1. /\ channel' \in [Cell -> Channel \union {NoChannel}]
      /\ Filled(channel') = Filled(channel) \ {i}
  BY DEF TypeOK, Filled
<1>2. /\ First(Filled(channel')) \in 0 .. MaxCells
      /\ First(Filled(channel')) = 0 <=> Filled(channel') = {}
      /\ Filled(channel') # {} => First(Filled(channel')) \in Filled(channel')
  <2>1. Filled(channel') \subseteq Cell
    BY DEF Filled
  <2> QED
    BY <2>1, FirstFound
<1>3. audioCell' \in 0 .. MaxCells
  BY <1>2 DEF Pass, TypeOK
<1>4. (audioCell = 0 <=> Filled(channel) = {}) /\ (audioCell # 0 => audioCell \in Filled(channel))
  BY DEF Placed
<1>5. (audioCell' = 0 <=> Filled(channel') = {}) /\ (audioCell' # 0 => audioCell' \in Filled(channel'))
  <2>1. CASE audioCell = i
    BY <2>1, <1>2 DEF Pass
  <2>2. CASE audioCell # i
    <3>1. audioCell' = audioCell
      BY <2>2 DEF Pass
    <3> QED
      BY <2>2, <3>1, <1>1, <1>4
  <2> QED
    BY <2>1, <2>2
<1>6. Placed'
  BY <1>1, <1>5 DEF Placed
<1>7. audioCell # i => channel'[audioCell] = channel[audioCell]
  BY DEF TypeOK
<1> QED
  BY <1>1, <1>3, <1>6, <1>7 DEF Rearranged, TypeOK

LEMMA SameScreensRearranges ==
  ASSUME TypeOK, Placed, channel' = channel, count' \in Cell, count <= count', globalMuted' \in BOOLEAN,
         audioCell' = audioCell \/ audioCell' \in Filled(channel), ApplyAudio(FALSE)
  PROVE  Rearranged(FALSE)
<1> USE RecordingAssumption
<1>1. Filled(channel') = Filled(channel) /\ Filled(channel) \subseteq Cell
  BY DEF Filled
<1>2. Placed'
  BY <1>1 DEF Placed, TypeOK, Cell
<1>3. audioCell' \in 0 .. MaxCells
  BY <1>1 DEF TypeOK, Cell
<1> QED
  BY <1>2, <1>3 DEF Rearranged, TypeOK

\* Every change of the user's is one of these.
LEMMA ChangesRearrange ==
  ASSUME TypeOK, Placed,
         \/ \E i \in Cell : (\E ch \in Channel : AssignChannel(i, ch)) \/ ClearCell(i) \/ SetAudioCell(i)
         \/ AddCell \/ RemoveCell \/ MuteBtn \/ \E v \in Volume : SetVolume(v)
  PROVE  \E cut \in BOOLEAN : Rearranged(cut)
<1>1. count \in Cell /\ MaxCells \in Nat /\ globalMuted \in BOOLEAN
  BY RecordingAssumption DEF TypeOK
<1>2. ASSUME NEW i \in Cell, NEW ch \in Channel, AssignChannel(i, ch) PROVE Rearranged(i = recCellIdx)
  BY <1>2, AssignRearranges
<1>3. ASSUME NEW i \in Cell, ClearCell(i) PROVE Rearranged(i = recCellIdx)
  BY <1>1, <1>3, EmptiedRearranges DEF ClearCell, Placed
<1>4. ASSUME NEW i \in Cell, SetAudioCell(i) PROVE Rearranged(FALSE)
  <2>1. /\ channel' = channel /\ count' \in Cell /\ count <= count' /\ globalMuted' \in BOOLEAN
        /\ audioCell' = audioCell \/ audioCell' \in Filled(channel)
    BY <1>1, <1>4 DEF SetAudioCell, Cell
  <2>2. ApplyAudio(FALSE)
    BY <1>4 DEF SetAudioCell
  <2> QED
    BY <2>1, <2>2, SameScreensRearranges
<1>5. CASE AddCell
  <2>1. /\ channel' = channel /\ count' \in Cell /\ count <= count' /\ globalMuted' \in BOOLEAN
        /\ audioCell' = audioCell \/ audioCell' \in Filled(channel)
    BY <1>1, <1>5 DEF AddCell, Cell
  <2>2. ApplyAudio(FALSE)
    BY <1>5 DEF AddCell
  <2> QED
    BY <2>1, <2>2, SameScreensRearranges
<1>6. CASE RemoveCell
  <2>1. count' \in Cell /\ \A j \in Filled(channel) : j = count \/ j <= count'
    BY <1>1, <1>6 DEF RemoveCell, Cell, Placed, Filled
  <2> QED
    BY <1>1, <1>6, <2>1, EmptiedRearranges DEF RemoveCell
<1>7. CASE MuteBtn \/ \E v \in Volume : SetVolume(v)
  <2>1. /\ channel' = channel /\ count' \in Cell /\ count <= count' /\ globalMuted' \in BOOLEAN
        /\ audioCell' = audioCell \/ audioCell' \in Filled(channel)
    <3>1. UNCHANGED <<count, channel, audioCell>>
      BY <1>7 DEF MuteBtn, SetVolume
    <3>2. globalMuted' \in BOOLEAN
      BY <1>7, Zenon DEF MuteBtn, SetVolume
    <3> QED
      BY <1>1, <3>1, <3>2 DEF Cell
  <2>2. ApplyAudio(FALSE)
    BY <1>7 DEF MuteBtn, SetVolume
  <2> QED
    BY <2>1, <2>2, SameScreensRearranges
<1> QED
  BY <1>2, <1>3, <1>4, <1>5, <1>6, <1>7


-----------------------------------------------------------------------------
(* What each step does to the parts of PageInv. *)

\* Stopping a recording stops its clock, and the server is asked.
LEMMA StopKeepsKnown ==
  ASSUME TypeOK, Known, recId # 0, StopRecording, UNCHANGED <<start, state, server, gone, overlap>>
  PROVE  Known'
<1>1. recId \in Rec
  BY RecorderAssumption DEF TypeOK, Rec
<1>2. /\ stop'["page"][recId] = IF Listening THEN "sent" ELSE "refused"
      /\ \A n \in Rec : n # recId => stop'["page"][n] = stop["page"][n]
  BY <1>1 DEF StopRecording, TypeOK, RecorderTypeOK, Caller
<1>3. Pending' = Pending /\ Listening' = Listening /\ recId' = 0 /\ recTimer' = 0
      /\ ticking' = ticking \ {recId}
  BY DEF Pending, Listening, StopRecording, Known
<1>4. LostOnlyByOverlap'
  BY <1>1, <1>2, <1>3 DEF Known, LostOnlyByOverlap
<1> QED
  BY <1>1, <1>2, <1>3, <1>4 DEF Known

LEMMA RestKeepsKnown ==
  ASSUME Known,
         UNCHANGED <<recId, recTimer, ticking, stop, start, state, server, gone, overlap>>
  PROVE  Known'
BY DEF Known, LostOnlyByOverlap, Pending, Listening

LEMMA RearrangedInv ==
  ASSUME PageInv, RecorderTypeOK', acts' \in 0 .. MaxActions, NEW cut \in BOOLEAN, Rearranged(cut)
  PROVE  TypeOK' /\ OneScreenHeard' /\ Placed' /\ Alone' /\ RecordsRight' /\ Known'
<1> USE RecordingAssumption, RecorderAssumption
<1>1. ApplyAudio(cut) /\ Placed' /\ TypeOK /\ Known
  BY DEF Rearranged, PageInv
<1>2. /\ UNCHANGED <<gone, start, overlap, state, server, recorded, saved>>
      /\ Pending' = Pending
      /\ moved' = IF <<audioCell, channel>>' # <<audioCell, channel>>
                    THEN moved \union Pending ELSE moved
      /\ enabled' = (recId' # 0 \/ CanStart')
      /\ audible' = IF globalMuted' \/ audioCell' = 0 THEN {} ELSE {audioCell'}
  BY <1>1 DEF ApplyAudio, Pending
<1>3. \/ StopRecording /\ recId # 0
      \/ KeepRecording /\ (recId = 0 \/ (~cut /\ audioCell' = recCellIdx))
  BY <1>1 DEF ApplyAudio
<1>4. OneScreenHeard'
  BY <1>1, <1>2 DEF Placed, OneScreenHeard, Filled
<1>5. TypeOK'
  <2>1. /\ {recId', recTimer'} \subseteq 0 .. MaxRecs /\ recCellIdx' \in 0 .. MaxCells
        /\ ticking' \subseteq Rec
    BY <1>1, <1>3 DEF TypeOK, StopRecording, KeepRecording
  <2>2. enabled' \in BOOLEAN
    BY <1>2
  <2>3. audible' \subseteq Cell /\ moved' \subseteq Rec
    BY <1>1, <1>2 DEF TypeOK, Placed, Filled, Pending
  <2>4. count' \in Cell /\ channel' \in [Cell -> Channel \union {NoChannel}]
        /\ globalMuted' \in BOOLEAN /\ audioCell' \in 0 .. MaxCells
    BY DEF Rearranged
  <2> QED
    BY <1>1, <1>2, <2>1, <2>2, <2>3, <2>4 DEF TypeOK
<1>6. recId' \in {recId, 0}
  BY <1>3 DEF StopRecording, KeepRecording
<1>7. Alone'
  BY <1>2, <1>6 DEF PageInv, Alone
<1>8. RecordsRight'
  <2>1. recId' # 0 /\ recId' \notin overlap' \union moved' => IsHeard(recId)'
    <3> SUFFICES ASSUME recId' # 0, recId' \notin overlap' \union moved' PROVE IsHeard(recId)'
      OBVIOUS
    <3>1. KeepRecording /\ recId # 0 /\ ~cut /\ audioCell' = recCellIdx
      BY <1>3 DEF StopRecording, KeepRecording
    <3>2. recId' = recId /\ recCellIdx' = recCellIdx
      BY <3>1 DEF KeepRecording
    <3>3. recId \notin overlap \union moved
      BY <1>2, <3>2
    <3>4. IsHeard(recId)
      BY <3>1, <3>3 DEF PageInv, RecordsRight
    <3>5. channel'[audioCell] = channel[audioCell] /\ audioCell' = audioCell
      BY <3>1, <3>4 DEF IsHeard, Rearranged
    <3> QED
      BY <1>2, <3>2, <3>4, <3>5 DEF IsHeard
  <2>2. ASSUME NEW n \in Pending, n \notin overlap \union moved' PROVE IsHeard(n)'
    <3>1. audioCell' = audioCell /\ channel' = channel /\ n \notin moved
      BY <1>2, <2>2
    <3>2. IsHeard(n) /\ recId = 0
      BY <2>2, <3>1 DEF PageInv, RecordsRight, Alone
    <3>3. recCellIdx' = recCellIdx
      BY <1>3, <3>2 DEF KeepRecording
    <3> QED
      BY <1>2, <3>1, <3>2, <3>3 DEF IsHeard
  <2> QED
    BY <1>2, <2>1, <2>2 DEF RecordsRight, IsHeard
<1>9. Known'
  <2>1. CASE StopRecording /\ recId # 0
    BY <1>1, <1>2, <2>1, StopKeepsKnown
  <2>2. CASE KeepRecording
    BY <1>1, <1>2, <2>2, RestKeepsKnown DEF KeepRecording
  <2> QED
    BY <1>3, <2>1, <2>2
<1> QED
  BY <1>1, <1>4, <1>5, <1>7, <1>8, <1>9

LEMMA StartInv ==
  ASSUME PageInv, RecorderTypeOK', acts' \in 0 .. MaxActions, StartRecording
  PROVE  TypeOK' /\ OneScreenHeard' /\ Placed' /\ Alone' /\ RecordsRight' /\ Known'
<1> USE RecordingAssumption, RecorderAssumption
<1>1. PICK n \in Rec :
        /\ start[n] = "idle"
        /\ start' = [start EXCEPT ![n] = IF Listening THEN "sent" ELSE "refused"]
        /\ recorded' = [recorded EXCEPT ![n] = <<audioCell, channel[audioCell]>>]
        /\ overlap' = IF Pending = {} THEN overlap ELSE overlap \union Pending \union {n}
  BY DEF StartRecording
<1>2. /\ recId = 0 /\ CanStart /\ recCellIdx' = audioCell /\ enabled' = FALSE
      /\ UNCHANGED <<sound, recId, recTimer, ticking, saved, gone, moved, ffmpeg, state, stopped,
                     stop, server, ids>>
  BY DEF StartRecording
<1>3. TypeOK /\ Known /\ Alone /\ RecordsRight /\ Placed /\ OneScreenHeard /\ Registered
  BY DEF PageInv, Inv
<1>4. /\ \A m \in Rec : m # n => start'[m] = start[m]
      /\ start'[n] \in {"sent", "refused"} /\ (Listening => start'[n] = "sent")
      /\ \A m \in Rec : m # n => recorded'[m] = recorded[m]
      /\ recorded'[n] = <<audioCell, channel[audioCell]>>
  BY <1>1, <1>3 DEF TypeOK, RecorderTypeOK
<1>5. Pending \subseteq Pending' /\ Pending' \subseteq Pending \union {n} /\ Pending \subseteq Rec
  BY <1>1, <1>2, <1>4 DEF Pending
<1>6. state[n] = "none"
  BY <1>1, <1>3 DEF Registered
<1>7. TypeOK'
  <2>1. <<audioCell, channel[audioCell]>> \in (0 .. MaxCells) \X (Channel \union {NoChannel})
    BY <1>2, <1>3 DEF TypeOK, CanStart, Cell
  <2>2. recorded' \in [Rec -> (0 .. MaxCells) \X (Channel \union {NoChannel})]
    BY <1>1, <1>3, <2>1 DEF TypeOK
  <2>3. overlap' \subseteq Rec
    BY <1>1, <1>3, <1>5 DEF TypeOK
  <2> QED
    BY <1>2, <1>3, <2>2, <2>3 DEF TypeOK, sound
<1>8. OneScreenHeard' /\ Placed'
  BY <1>2, <1>3 DEF OneScreenHeard, Placed, Filled, sound
<1>9. \A m \in Pending' \ overlap' : m = n /\ Pending' = {n}
  BY <1>1, <1>5
<1>10. Alone'
  BY <1>2, <1>9 DEF Alone
<1>11. RecordsRight'
  BY <1>2, <1>4, <1>9 DEF RecordsRight, IsHeard, sound, CanStart
<1>12. LostOnlyByOverlap'
  <2>1. Listening' = Listening /\ overlap \subseteq overlap'
    BY <1>1, <1>2 DEF Listening
  <2> QED
    BY <1>2, <1>3, <1>5, <1>6, <2>1 DEF Known, LostOnlyByOverlap
<1>13. Known'
  BY <1>2, <1>3, <1>4, <1>6, <1>12 DEF Known, Listening
<1> QED
  BY <1>7, <1>8, <1>10, <1>11, <1>13

LEMMA PressStopInv ==
  ASSUME PageInv, RecorderTypeOK', acts' \in 0 .. MaxActions, PressStop
  PROVE  TypeOK' /\ OneScreenHeard' /\ Placed' /\ Alone' /\ RecordsRight' /\ Known'
<1> USE RecordingAssumption, RecorderAssumption
<1>1. /\ recId # 0 /\ StopRecording /\ recId' = 0 /\ enabled' = FALSE
      /\ UNCHANGED <<sound, saved, gone, history, start, ffmpeg, state, stopped, server, ids>>
      /\ TypeOK /\ Known /\ Alone /\ Placed /\ OneScreenHeard
  BY DEF PressStop, StopRecording, PageInv
<1>2. TypeOK'
  <2>1. recTimer' = 0 /\ recCellIdx' = 0 /\ ticking' \subseteq ticking
    BY <1>1 DEF StopRecording
  <2>2. UNCHANGED <<count, channel, audible, audioCell, globalMuted, saved, gone, recorded, overlap, moved>>
    BY <1>1 DEF sound, history
  <2>3. ticking' \subseteq Rec /\ saved' \in 0 .. MaxRecs
    BY <1>1, <2>1, <2>2 DEF TypeOK
  <2>4. {recId', recTimer', saved'} \subseteq 0 .. MaxRecs /\ recCellIdx' \in 0 .. MaxCells
    BY <1>1, <2>1, <2>3
  <2>5. enabled' \in BOOLEAN
    BY <1>1
  <2> QED
    BY <1>1, <2>2, <2>3, <2>4, <2>5 DEF TypeOK
<1>3. OneScreenHeard' /\ Placed'
  BY <1>1 DEF OneScreenHeard, Placed, Filled, sound
<1>4. Pending' = Pending /\ overlap' = overlap
  BY <1>1 DEF Pending, history
<1>5. Pending \subseteq overlap
  BY <1>1 DEF Alone
<1>6. Alone' /\ RecordsRight'
  BY <1>1, <1>4, <1>5 DEF Alone, RecordsRight
<1>7. Known'
  BY <1>1, StopKeepsKnown DEF history
<1> QED
  BY <1>2, <1>3, <1>6, <1>7

\* The answer to a start: nothing else is being recorded unless starts overlapped.
LEMMA AnsweredInv ==
  ASSUME PageInv, RecorderTypeOK', NEW n \in Rec, n \notin gone, StartAnswered(n)
  PROVE  TypeOK' /\ OneScreenHeard' /\ Placed' /\ Alone' /\ RecordsRight' /\ Known'
<1> USE RecordingAssumption, RecorderAssumption
<1>1. /\ start[n] = "answered" /\ start' = [start EXCEPT ![n] = "over"]
      /\ recId' = n /\ recTimer' = n /\ ticking' = ticking \union {n}
      /\ saved' = 0 /\ enabled' = TRUE
      /\ UNCHANGED <<sound, recCellIdx, acts, gone, history, ffmpeg, state, stopped, stop, server, ids>>
      /\ TypeOK /\ Known /\ Alone /\ Placed /\ OneScreenHeard /\ RecordsRight
  BY DEF StartAnswered, PageInv
<1>2. TypeOK'
  BY <1>1 DEF TypeOK, sound, history, Rec
<1>3. OneScreenHeard' /\ Placed'
  BY <1>1 DEF OneScreenHeard, Placed, Filled, sound
<1>4. start'[n] = "over" /\ \A m \in Rec : m # n => start'[m] = start[m]
  BY <1>1 DEF TypeOK, RecorderTypeOK
<1>5. n \in Pending /\ Pending' = Pending \ {n} /\ Pending \subseteq Rec
  BY <1>1, <1>4 DEF Pending
<1>6. /\ n \notin overlap => Pending = {n}
      /\ \A m \in Pending \ overlap : m = n
      /\ recId # 0 => recId \in overlap
  BY <1>1, <1>5 DEF Alone
<1>7. Alone'
  BY <1>1, <1>5, <1>6 DEF Alone, history
<1>8. RecordsRight'
  <2>1. Pending' \ overlap' = {}
    BY <1>1, <1>5, <1>6 DEF history
  <2>2. n \notin overlap \union moved => IsHeard(n)
    BY <1>1, <1>5 DEF RecordsRight
  <2>3. UNCHANGED <<recCellIdx, audioCell, channel, recorded, overlap, moved>>
    BY <1>1 DEF sound, history
  <2> QED
    BY <1>1, <2>1, <2>2, <2>3 DEF RecordsRight, IsHeard
<1>9. LostOnlyByOverlap'
  <2>1. UNCHANGED <<gone, overlap, state, stop, server>>
    BY <1>1 DEF history
  <2>2. ticking' \subseteq overlap \union {n}
    BY <1>1, <1>6 DEF Known, LostOnlyByOverlap, TypeOK, Rec
  <2>3. \A m \in Rec \ overlap : m = recId => m = 0
    BY <1>6
  <2>4. \A m \in Rec : m # 0
    BY DEF Rec
  <2>5. ASSUME Listening, NEW m \in Rec \ (gone \union overlap), state[m] = "recording"
        PROVE  m = n \/ m \in Pending' \/ stop["page"][m] \in {"sent"} \union Stopping
    <3>1. m \in Pending \/ stop["page"][m] \in {"sent"} \union Stopping
      BY <1>1, <2>3, <2>4, <2>5 DEF Known, LostOnlyByOverlap
    <3> QED
      BY <1>5, <3>1
  <2>6. Listening' = Listening
    BY <2>1 DEF Listening
  <2> QED
    BY <1>1, <2>1, <2>2, <2>5, <2>6 DEF LostOnlyByOverlap
<1>10. Known'
  BY <1>1, <1>4, <1>9 DEF Known, Listening
<1> QED
  BY <1>2, <1>3, <1>7, <1>8, <1>10

LEMMA FailedInv ==
  ASSUME PageInv, RecorderTypeOK', NEW n \in Rec, n \notin gone, StartFailed(n)
  PROVE  TypeOK' /\ OneScreenHeard' /\ Placed' /\ Alone' /\ RecordsRight' /\ Known'
<1> USE RecordingAssumption, RecorderAssumption
<1>1. /\ start[n] = "refused" /\ start' = [start EXCEPT ![n] = "over"]
      /\ recCellIdx' = 0 /\ enabled' \in BOOLEAN
      /\ UNCHANGED <<sound, recId, recTimer, ticking, saved, acts, gone, history,
                     ffmpeg, state, stopped, stop, server, ids>>
      /\ TypeOK /\ Known /\ Alone /\ Placed /\ OneScreenHeard /\ RecordsRight
  BY DEF StartFailed, PageInv
<1>2. TypeOK'
  BY <1>1 DEF TypeOK, sound, history
<1>3. OneScreenHeard' /\ Placed'
  BY <1>1 DEF OneScreenHeard, Placed, Filled, sound
<1>4. start'[n] = "over" /\ \A m \in Rec : m # n => start'[m] = start[m]
  BY <1>1 DEF TypeOK, RecorderTypeOK
<1>5. n \in Pending /\ Pending' = Pending \ {n} /\ Pending \subseteq Rec
  BY <1>1, <1>4 DEF Pending
<1>6. /\ \A m \in Pending \ overlap : m = n
      /\ recId # 0 => recId \in overlap
  BY <1>1, <1>5 DEF Alone
<1>7. Alone' /\ RecordsRight'
  BY <1>1, <1>5, <1>6 DEF Alone, RecordsRight, history
<1>8. state[n] = "none" /\ Listening' = Listening
  BY <1>1 DEF Known, Listening
<1>9. LostOnlyByOverlap'
  BY <1>1, <1>5, <1>8 DEF Known, LostOnlyByOverlap, history
<1>10. Known'
  BY <1>1, <1>4, <1>8, <1>9 DEF Known
<1> QED
  BY <1>2, <1>3, <1>7, <1>10

LEMMA StoppedInv ==
  ASSUME PageInv, RecorderTypeOK', NEW n \in Rec, StopAnswered(n)
  PROVE  TypeOK' /\ OneScreenHeard' /\ Placed' /\ Alone' /\ RecordsRight' /\ Known'
<1> USE RecordingAssumption, RecorderAssumption
<1>1. /\ stop["page"][n] \in {"answered", "refused"}
      /\ stop' = [stop EXCEPT !["page"][n] = "over"]
      /\ saved' \in {n, saved} /\ enabled' \in BOOLEAN
      /\ UNCHANGED <<sound, recId, recCellIdx, recTimer, ticking, acts, gone, history,
                     start, ffmpeg, state, stopped, server, ids>>
      /\ TypeOK /\ Known /\ Alone /\ Placed /\ OneScreenHeard /\ RecordsRight /\ AnsweredIsOver
  BY DEF StopAnswered, PageInv, Inv
<1>2. TypeOK'
  BY <1>1, SMTT(20) DEF TypeOK, sound, history, Rec
<1>3. OneScreenHeard' /\ Placed'
  BY <1>1 DEF OneScreenHeard, Placed, Filled, sound
<1>4. Pending' = Pending /\ Listening' = Listening
  BY <1>1 DEF Pending, Listening
<1>5. Alone' /\ RecordsRight'
  BY <1>1, <1>4 DEF Alone, RecordsRight, IsHeard, sound, history
<1>6. stop'["page"][n] = "over" /\ \A m \in Rec : m # n => stop'["page"][m] = stop["page"][m]
  BY <1>1 DEF TypeOK, RecorderTypeOK, Caller
<1>7. Listening => state[n] \in Final
  BY <1>1 DEF Known, AnsweredIsOver, Caller
<1>8. LostOnlyByOverlap'
  BY <1>1, <1>4, <1>6, <1>7 DEF Known, LostOnlyByOverlap, history, Final
<1>9. Known'
  BY <1>1, <1>4, <1>6, <1>8 DEF Known
<1> QED
  BY <1>2, <1>3, <1>5, <1>9

LEMMA SavedCloseInv ==
  ASSUME PageInv, acts' \in 0 .. MaxActions, SavedClose
  PROVE  TypeOK' /\ OneScreenHeard' /\ Placed' /\ Alone' /\ RecordsRight' /\ Known'
<1> USE RecordingAssumption, RecorderAssumption
<1>1. /\ saved' = 0
      /\ UNCHANGED <<recorder, sound, recId, recCellIdx, recTimer, ticking, enabled, gone, history>>
      /\ TypeOK /\ Known /\ Alone /\ Placed /\ OneScreenHeard /\ RecordsRight
  BY DEF SavedClose, PageInv
<1>2. TypeOK'
  BY <1>1 DEF TypeOK, RecorderTypeOK, recorder, sound, history
<1>3. Pending' = Pending
  BY <1>1 DEF Pending, recorder
<1>4. OneScreenHeard' /\ Placed'
  BY <1>1 DEF OneScreenHeard, Placed, Filled, sound
<1>5. Alone' /\ RecordsRight'
  BY <1>1, <1>3 DEF Alone, RecordsRight, IsHeard, sound, history
<1>6. Known'
  BY <1>1, RestKeepsKnown DEF recorder, history
<1> QED
  BY <1>2, <1>4, <1>5, <1>6

\* A page loaded anew knows of nothing, and has asked for nothing.
LEMMA ReloadInv ==
  ASSUME PageInv, acts' \in 0 .. MaxActions, Reload
  PROVE  TypeOK' /\ OneScreenHeard' /\ Placed' /\ Alone' /\ RecordsRight' /\ Known'
<1> USE RecordingAssumption, RecorderAssumption
<1>1. /\ channel' = [i \in Cell |-> NoChannel] /\ audible' = {} /\ audioCell' = 0
      /\ recId' = 0 /\ recCellIdx' = 0 /\ recTimer' = 0 /\ ticking' = {}
      /\ enabled' = FALSE /\ saved' = 0
      /\ gone' = {n \in Rec : start[n] # "idle"}
      /\ UNCHANGED <<recorder, count, globalMuted, history>>
      /\ TypeOK /\ Known /\ Registered
  BY DEF Reload, PageInv, Inv
<1>2. TypeOK'
  <2>1. RecorderTypeOK'
    BY <1>1 DEF TypeOK, RecorderTypeOK, recorder
  <2>2. channel' \in [Cell -> Channel \union {NoChannel}] /\ enabled' \in BOOLEAN
    BY <1>1
  <2>3. gone' \subseteq Rec /\ ticking' \subseteq Rec
    BY <1>1
  <2> QED
    BY <1>1, <2>1, <2>2, <2>3 DEF TypeOK, history
<1>3. Filled(channel') = {} /\ Pending' = {}
  BY <1>1 DEF Filled, Pending, recorder
<1>4. OneScreenHeard' /\ Placed'
  BY <1>1, <1>3 DEF OneScreenHeard, Placed
<1>5. Alone' /\ RecordsRight'
  BY <1>1, <1>3 DEF Alone, RecordsRight
<1>6. \A n \in Rec \ gone' : state[n] = "none"
  BY <1>1 DEF Registered
<1>7. LostOnlyByOverlap'
  BY <1>1, <1>6 DEF LostOnlyByOverlap, recorder
<1>8. Known'
  BY <1>1, <1>7 DEF Known, Listening, recorder
<1> QED
  BY <1>2, <1>4, <1>5, <1>8

LEMMA PageStepInv ==
  ASSUME PageInv, User \/ \E n \in Rec : Answer(n) PROVE PageInv'
<1> DEFINE parts == TypeOK /\ OneScreenHeard /\ Placed /\ Alone /\ RecordsRight /\ Known
<1>1. Inv'
  BY PageStep DEF PageInv
<1>2. RecorderTypeOK' /\ TypeOK /\ Placed
  BY <1>1 DEF PageInv, Inv
<1>3. ASSUME User PROVE parts'
  <2>1. acts' \in 0 .. MaxActions
    BY <1>2, <1>3, RecordingAssumption DEF User, TypeOK
  <2>2. ASSUME \/ \E i \in Cell : (\E ch \in Channel : AssignChannel(i, ch)) \/ ClearCell(i) \/ SetAudioCell(i)
               \/ AddCell \/ RemoveCell \/ MuteBtn \/ \E v \in Volume : SetVolume(v)
        PROVE  parts'
    <3>1. PICK cut \in BOOLEAN : Rearranged(cut)
      BY <1>2, <2>2, ChangesRearrange
    <3> QED
      BY <1>2, <2>1, <3>1, RearrangedInv
  <2>3. ASSUME StartRecording PROVE parts'
    BY <1>2, <2>1, <2>3, StartInv
  <2>4. ASSUME PressStop PROVE parts'
    BY <1>2, <2>1, <2>4, PressStopInv
  <2>5. ASSUME SavedClose PROVE parts'
    BY <2>1, <2>5, SavedCloseInv
  <2>6. ASSUME Reload PROVE parts'
    BY <2>1, <2>6, ReloadInv
  <2> HIDE DEF parts
  <2> QED
    BY <1>3, <2>2, <2>3, <2>4, <2>5, <2>6 DEF User
<1>4. ASSUME NEW n \in Rec, Answer(n) PROVE parts'
  BY <1>2, <1>4, AnsweredInv, FailedInv, StoppedInv DEF Answer
<1> QED
  BY <1>1, <1>3, <1>4 DEF PageInv

\* What the server does behind the page: starts go on to an answer, recordings
\* begin with it, a stop that is served is waited for until its recording ends.
ServerEffect ==
  /\ Listening' => Listening
  /\ \A n \in Rec :
       /\ start[n] \in {"sent", "spawned"} => start'[n] \in {"sent", "spawned", "answered", "refused"}
       /\ start[n] \notin {"sent", "spawned"} => start'[n] = start[n]
       /\ start'[n] = "refused" => start[n] = "refused" \/ state'[n] = "none"
       /\ state'[n] = "none" \/ state[n] # "none" \/ start'[n] = "answered"
       /\ state'[n] = "recording" => state[n] = "recording" \/ start'[n] = "answered"
       /\ state[n] = "none" /\ start[n] = "refused" => state'[n] = "none"
       /\ Listening' /\ stop'["page"][n] = "refused" => stop["page"][n] = "refused"
       /\ Listening' /\ stop["page"][n] \in {"sent"} \union Stopping =>
            stop'["page"][n] \in {"sent"} \union Stopping \/ state'[n] # "recording"

LEMMA ServerKinds ==
  ASSUME Inv, RecorderNext PROVE ServerEffect
<1> USE DEF Listening
<1>1. RecorderTypeOK /\ Registered
  BY DEF Inv
<1>2. ASSUME NEW n \in Rec, NEW c \in Caller, NEW v \in {"waiting", "killed", "answered"},
             stop' = [stop EXCEPT ![c][n] = v], UNCHANGED <<start, state, server>>,
             v = "answered" => state[n] # "recording"
      PROVE  ServerEffect
  <2>1. \A m \in Rec : stop'["page"][m] = stop["page"][m] \/ (m = n /\ stop'["page"][m] = v)
    BY <1>1, <1>2 DEF RecorderTypeOK, Caller
  <2> QED
    BY <1>2, <2>1 DEF ServerEffect, Stopping
<1>3. ASSUME NEW n \in Rec, NEW c \in Caller, EnterStop(c, n), UNCHANGED <<start, state, server>>
      PROVE  ServerEffect
  <2>1. PICK v \in {"waiting", "answered"} :
          stop' = [stop EXCEPT ![c][n] = v] /\ (v = "answered" => state[n] # "recording")
    BY <1>3 DEF EnterStop
  <2> QED
    BY <1>2, <1>3, <2>1
<1>4. ASSUME NEW n \in Rec, Spawn(n) PROVE ServerEffect
  BY <1>1, <1>4 DEF Spawn, RecorderTypeOK, Registered, ServerEffect
<1>5. ASSUME NEW n \in Rec, Register(n) PROVE ServerEffect
  BY <1>1, <1>5 DEF Register, RecorderTypeOK, Registered, ServerEffect
<1>6. ASSUME NEW n \in Rec, Exit(n) PROVE ServerEffect
  BY <1>6 DEF Exit, ServerEffect
<1>7. ASSUME NEW n \in Rec, Watch(n) PROVE ServerEffect
  BY <1>1, <1>7 DEF Watch, RecorderTypeOK, ServerEffect
<1>8. ASSUME NEW n \in Rec, ServeStop(n) PROVE ServerEffect
  BY <1>3, <1>8 DEF ServeStop, Caller
<1>9. ASSUME NEW n \in Rec, NEW c \in Caller, Kill(c, n) PROVE ServerEffect
  BY <1>2, <1>9 DEF Kill
<1>10. ASSUME NEW n \in Rec, NEW c \in Caller, LeaveStop(c, n) PROVE ServerEffect
  BY <1>2, <1>10 DEF LeaveStop, Final
<1>11. CASE Signal
  BY <1>11 DEF Signal, ServerEffect
<1>12. ASSUME NEW n \in Rec, StopNext(n) PROVE ServerEffect
  BY <1>3, <1>12 DEF StopNext, Caller
<1>13. CASE StopAllReturns
  BY <1>13 DEF StopAllReturns, ServerEffect
<1>14. CASE Down
  BY <1>1, <1>14 DEF Down, RecorderTypeOK, Registered, ServerEffect
<1> QED
  BY <1>4, <1>5, <1>6, <1>7, <1>8, <1>9, <1>10, <1>11, <1>12, <1>13, <1>14
  DEF RecorderNext, Shutdown, Handler

LEMMA ServerStepInv ==
  ASSUME PageInv, RecorderNext, UNCHANGED <<sound, button, acts, gone, history>> PROVE PageInv'
<1>1. Inv'
  BY ServerStep DEF PageInv, button
<1>2. ServerEffect
  BY ServerKinds DEF PageInv
<1>3. TypeOK /\ OneScreenHeard /\ Placed /\ Alone /\ RecordsRight /\ Known
  BY DEF PageInv
<1>4. TypeOK'
  BY <1>1, <1>3 DEF Inv, TypeOK, sound, button, history
<1>5. OneScreenHeard' /\ Placed'
  BY <1>3 DEF OneScreenHeard, Placed, Filled, sound
<1>6. Pending' = Pending
  BY <1>2 DEF Pending, ServerEffect
<1>7. Alone' /\ RecordsRight'
  BY <1>3, <1>6 DEF Alone, RecordsRight, IsHeard, sound, button, history
<1>8. LostOnlyByOverlap'
  <2>1. ASSUME Listening', NEW n \in Rec \ (gone \union overlap), state'[n] = "recording"
        PROVE  n = recId \/ n \in Pending \/ stop'["page"][n] \in {"sent"} \union Stopping
    <3>1. CASE state[n] = "recording"
      BY <1>2, <1>3, <2>1, <3>1 DEF Known, LostOnlyByOverlap, ServerEffect
    <3>2. CASE start'[n] = "answered"
      BY <1>6, <2>1, <3>2 DEF Pending
    <3> QED
      BY <1>2, <2>1, <3>1, <3>2 DEF ServerEffect
  <2> QED
    BY <1>3, <1>6, <2>1 DEF Known, LostOnlyByOverlap, button, history
<1>9. Known'
  BY <1>2, <1>3, <1>8 DEF Known, ServerEffect, button
<1> QED
  BY <1>1, <1>4, <1>5, <1>7, <1>8, <1>9 DEF PageInv

LEMMA PageInvHolds == Spec => []PageInv
<1>1. Init => PageInv
  <2> SUFFICES ASSUME Init PROVE PageInv
    OBVIOUS
  <2> USE RecorderAssumption, RecordingAssumption
  <2>1. Inv
    BY InitInv
  <2>2. TypeOK
    <3>1. <<0, NoChannel>> \in (0 .. MaxCells) \X (Channel \union {NoChannel})
      OBVIOUS
    <3>2. recorded \in [Rec -> (0 .. MaxCells) \X (Channel \union {NoChannel})]
      BY <3>1 DEF Init
    <3>3. channel \in [Cell -> Channel \union {NoChannel}] /\ enabled \in BOOLEAN /\ globalMuted \in BOOLEAN
      BY DEF Init
    <3>4. count \in Cell /\ acts \in 0 .. MaxActions /\ recId = 0 /\ recTimer = 0 /\ saved = 0
          /\ recCellIdx = 0 /\ audioCell = 0
      BY DEF Init, Cell
    <3>5. audible = {} /\ ticking = {} /\ gone = {} /\ overlap = {} /\ moved = {}
      BY DEF Init
    <3> QED
      BY <2>1, <3>2, <3>3, <3>4, <3>5 DEF TypeOK, Inv
  <2>3. Filled(channel) = {} /\ Pending = {} /\ recId = 0
    BY DEF Init, RecorderInit, Filled, Pending
  <2>4. OneScreenHeard /\ Placed
    BY <2>3 DEF Init, OneScreenHeard, Placed
  <2>5. Alone /\ RecordsRight
    BY <2>3 DEF Alone, RecordsRight
  <2>6. Known
    BY DEF Init, RecorderInit, Known, LostOnlyByOverlap, Caller
  <2> QED
    BY <2>1, <2>2, <2>4, <2>5, <2>6 DEF PageInv
<1>2. PageInv /\ [Next]_vars => PageInv'
  <2> SUFFICES ASSUME PageInv, [Next]_vars PROVE PageInv'
    OBVIOUS
  <2>1. ASSUME User \/ \E n \in Rec : Answer(n) PROVE PageInv'
    BY <2>1, PageStepInv
  <2>2. ASSUME RecorderNext, UNCHANGED <<sound, button, acts, gone, history>> PROVE PageInv'
    BY <2>2, ServerStepInv
  <2>3. CASE UNCHANGED vars
    <3>1. Inv'
      BY <2>3 DEF vars, recorder, button, PageInv, Inv, RecorderTypeOK, Registered, FinalIsDead,
                  StopAllDone, AnsweredIsOver
    <3>2. TypeOK'
      BY <2>3, <3>1 DEF vars, recorder, sound, button, history, PageInv, Inv, TypeOK
    <3>3. OneScreenHeard' /\ Placed'
      BY <2>3 DEF vars, sound, PageInv, OneScreenHeard, Placed, Filled
    <3>4. Alone' /\ RecordsRight'
      BY <2>3 DEF vars, recorder, sound, button, history, PageInv, Alone, RecordsRight, IsHeard, Pending
    <3>5. Known'
      BY <2>3, RestKeepsKnown DEF vars, recorder, button, history, PageInv
    <3> QED
      BY <3>1, <3>2, <3>3, <3>4, <3>5 DEF PageInv
  <2> QED
    BY <2>1, <2>2, <2>3 DEF Next
<1> QED
  BY <1>1, <1>2, PTL DEF Spec

\* One screen is heard, the one with the sound, and what the page records is
\* of that screen and its channel, unless a start was under way when that
\* changed or starts overlapped: whatever the user does meanwhile.
THEOREM SoundKept == Spec => []SoundOK
<1>1. PageInv => SoundOK
  BY DEF PageInv, SoundOK, RecordsRight, RecordsWhatIsHeard, IsHeard
<1> QED
  BY <1>1, PageInvHolds, PTL

\* While the server listens, the page can stop every recording it started,
\* and no clock but the known recording's runs: only a reload, or starts that
\* overlap, lose one.
THEOREM NothingLost == Spec => []LostOnlyByOverlap
<1>1. PageInv => LostOnlyByOverlap
  BY DEF PageInv, Known
<1> QED
  BY <1>1, PageInvHolds, PTL
=============================================================================
