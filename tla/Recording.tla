----------------------------- MODULE Recording -----------------------------
(***************************************************************************)
(* The sound of the page and its record button (web/static/audio.js),      *)
(* with what the screens do to both (cell.js, grid.js), in front of the    *)
(* server's recorder.                                                      *)
(*                                                                         *)
(* One screen has the sound; what it shows can be recorded.  The page      *)
(* learns the id of a recording from the answer to its request, and only   *)
(* then can it stop it.  Whatever happens to the screens meanwhile ends in *)
(* applyAudio, which stops a recording the sound has left and sets the     *)
(* record button anew.                                                     *)
(*                                                                         *)
(* A screen's channel here has a link (a dynamic one that has none records *)
(* nothing) and the server has said that it can record.                    *)
(***************************************************************************)
EXTENDS Recorder

CONSTANTS
  Channel, NoChannel,
  MaxCells,
  MaxActions          \* bound: actions of the user

ASSUME RecordingAssumption ==
  /\ NoChannel \notin Channel
  /\ MaxCells \in Nat \ {0} /\ MaxActions \in Nat

Cell   == 1 .. MaxCells
Volume == 0 .. 1      \* silent or not: all that state.volume means to the rest

VARIABLES
  count,        \* cells.length
  channel,      \* cell.channel
  audible,      \* screens whose video is not muted
  audioCell,    \* state.audioCell, 0 for none
  globalMuted,  \* state.globalMuted
  recId,        \* state.recId, 0 for none
  recCellIdx,   \* state.recCellIdx, 0 for none
  recTimer,     \* state.recTimer: the answer that set the interval, 0 for none
  ticking,      \* intervals that run
  enabled,      \* the record button can be pressed
  saved,        \* the recording the download link leads to, 0 for none
  acts,         \* actions of the user so far
  recorded,     \* history: the screen and channel a start was asked for
  gone,         \* requests of an earlier page: their answers reach nobody
  overlap,      \* history: starts that were under way at the same time
  moved         \* history: starts under way when the sound or a screen changed

sound == <<count, channel, audible, audioCell, globalMuted>>
button == <<recId, recCellIdx, recTimer, ticking, enabled, saved>>
history == <<recorded, overlap, moved>>
vars == <<recorder, sound, button, acts, gone, history>>

Filled(ch) == {i \in Cell : ch[i] # NoChannel}
First(S)   == IF S = {} THEN 0 ELSE CHOOSE i \in S : \A j \in S : i <= j
Pending    == {n \in Rec \ gone : start[n] \in {"sent", "spawned", "answered", "refused"}}
Listening  == server \in {"up", "stopping"}

CanStart == audioCell # 0 /\ channel[audioCell] # NoChannel

Init ==
  /\ RecorderInit
  /\ count = 1 /\ channel = [i \in Cell |-> NoChannel] /\ audible = {}
  /\ audioCell = 0 /\ globalMuted = FALSE
  /\ recId = 0 /\ recCellIdx = 0 /\ recTimer = 0 /\ ticking = {}
  /\ enabled = FALSE /\ saved = 0 /\ acts = 0
  /\ recorded = [n \in Rec |-> <<0, NoChannel>>]
  /\ gone = {} /\ overlap = {} /\ moved = {}

-----------------------------------------------------------------------------
\* Wrong on purpose: the interval is not cleared.
StopRecordingKeepsClock ==
  /\ recId' = 0 /\ recCellIdx' = 0 /\ recTimer' = 0
  /\ stop' = [stop EXCEPT !["page"][recId] = IF Listening THEN "sent" ELSE "refused"]
  /\ UNCHANGED ticking

(* stopRecording: the id is forgotten before the request is answered. *)
StopRecording ==
  /\ recId' = 0 /\ recCellIdx' = 0 /\ recTimer' = 0
  /\ ticking' = ticking \ {recTimer}
  /\ stop' = [stop EXCEPT !["page"][recId] = IF Listening THEN "sent" ELSE "refused"]

KeepRecording == UNCHANGED <<recId, recCellIdx, recTimer, ticking, stop>>

\* applyAudio, the new sound being in place; cut: its caller has just stopped
\* the recording of a screen it changes.
ApplyAudio(cut) ==
  /\ audible' = IF globalMuted' \/ audioCell' = 0 THEN {} ELSE {audioCell'}
  /\ IF recId # 0 /\ (cut \/ audioCell' # recCellIdx) THEN StopRecording ELSE KeepRecording
  /\ enabled' = (recId' # 0 \/ CanStart')
  /\ moved' = IF <<audioCell, channel>>' # <<audioCell, channel>>
                THEN moved \union Pending ELSE moved
  /\ UNCHANGED <<saved, gone, recorded, overlap, start, ffmpeg, state, stopped, server, ids>>

\* The first screen with a channel gets the sound if screen i had it.
Pass(i, ch) == IF audioCell = i THEN First(Filled(ch)) ELSE audioCell

AssignChannel(i, ch) ==
  /\ i <= count
  /\ channel' = [channel EXCEPT ![i] = ch]
  /\ audioCell' = IF audioCell = 0 THEN i ELSE audioCell
  /\ UNCHANGED <<count, globalMuted>>
  /\ ApplyAudio(i = recCellIdx)

ClearCell(i) ==
  /\ i \in Filled(channel)
  /\ channel' = [channel EXCEPT ![i] = NoChannel]
  /\ audioCell' = Pass(i, channel')
  /\ UNCHANGED <<count, globalMuted>>
  /\ ApplyAudio(i = recCellIdx)

AddCell ==
  /\ count < MaxCells
  /\ count' = count + 1
  /\ UNCHANGED <<channel, audioCell, globalMuted>>
  /\ ApplyAudio(FALSE)

\* Wrong on purpose: the sound stays with the screen that is gone.
RemoveCellKeepsSound ==
  /\ count > 1
  /\ count' = count - 1
  /\ channel' = [channel EXCEPT ![count] = NoChannel]
  /\ UNCHANGED <<audioCell, globalMuted>>
  /\ ApplyAudio(count = recCellIdx)

RemoveCell ==
  /\ count > 1
  /\ count' = count - 1
  /\ channel' = [channel EXCEPT ![count] = NoChannel]
  /\ audioCell' = Pass(count, channel')
  /\ UNCHANGED globalMuted
  /\ ApplyAudio(count = recCellIdx)

\* A screen's microphone (setAudioCell) or its number in the rail.
SetAudioCell(i) ==
  /\ i \in Filled(channel)
  /\ audioCell' = i
  /\ UNCHANGED <<count, channel, globalMuted>>
  /\ ApplyAudio(FALSE)

MuteBtn ==
  /\ globalMuted' = ~globalMuted
  /\ UNCHANGED <<count, channel, audioCell>>
  /\ ApplyAudio(FALSE)

\* setVolume, from the slider or a button.
SetVolume(v) ==
  /\ globalMuted' = (globalMuted /\ v = 0)
  /\ UNCHANGED <<count, channel, audioCell>>
  /\ ApplyAudio(FALSE)

-----------------------------------------------------------------------------
(* The record button: toggleRecording. *)

StartRecording ==
  /\ enabled /\ recId = 0 /\ CanStart
  /\ recCellIdx' = audioCell
  /\ enabled' = FALSE
  /\ \E n \in Rec :
        /\ start[n] = "idle" /\ \A m \in 1 .. n - 1 : start[m] # "idle"
        /\ start' = [start EXCEPT ![n] = IF Listening THEN "sent" ELSE "refused"]
        /\ recorded' = [recorded EXCEPT ![n] = <<audioCell, channel[audioCell]>>]
        /\ overlap' = IF Pending = {} THEN overlap ELSE overlap \union Pending \union {n}
  /\ UNCHANGED <<sound, recId, recTimer, ticking, saved, gone, moved, ffmpeg, state, stopped, stop, server, ids>>

PressStop ==
  /\ enabled /\ recId # 0
  /\ StopRecording
  /\ enabled' = FALSE
  /\ UNCHANGED <<sound, saved, gone, history, start, ffmpeg, state, stopped, server, ids>>

StartAnswered(n) ==
  /\ start[n] = "answered"
  /\ start' = [start EXCEPT ![n] = "over"]
  /\ recId' = n /\ recTimer' = n /\ ticking' = ticking \union {n}
  /\ saved' = 0 /\ enabled' = TRUE
  /\ UNCHANGED <<sound, recCellIdx, acts, gone, history,
                 ffmpeg, state, stopped, stop, server, ids>>

StartFailed(n) ==
  /\ start[n] = "refused"
  /\ start' = [start EXCEPT ![n] = "over"]
  /\ recCellIdx' = 0
  /\ enabled' = (recId # 0 \/ CanStart)
  /\ UNCHANGED <<sound, recId, recTimer, ticking, saved, acts, gone, history,
                 ffmpeg, state, stopped, stop, server, ids>>

StopAnswered(n) ==
  /\ stop["page"][n] \in {"answered", "refused"}
  /\ stop' = [stop EXCEPT !["page"][n] = "over"]
  /\ saved' = IF stop["page"][n] = "answered" THEN n ELSE saved
  /\ enabled' = (recId # 0 \/ CanStart)
  /\ UNCHANGED <<sound, recId, recCellIdx, recTimer, ticking, acts, gone, history,
                 start, ffmpeg, state, stopped, server, ids>>

SavedClose ==
  /\ saved # 0 /\ saved' = 0
  /\ UNCHANGED <<recorder, sound, recId, recCellIdx, recTimer, ticking, enabled, gone, history>>

\* The page is loaded anew: the number of screens and the sound's settings,
\* stored at each change, come back (init, restoreAudioPrefs).
Reload ==
  /\ channel' = [i \in Cell |-> NoChannel] /\ audible' = {} /\ audioCell' = 0
  /\ recId' = 0 /\ recCellIdx' = 0 /\ recTimer' = 0 /\ ticking' = {}
  /\ enabled' = FALSE /\ saved' = 0
  /\ gone' = {n \in Rec : start[n] # "idle"}
  /\ UNCHANGED <<recorder, count, globalMuted, history>>

User ==
  /\ acts < MaxActions /\ acts' = acts + 1
  /\ \/ \E i \in Cell : \/ \E ch \in Channel : AssignChannel(i, ch)
                       \/ ClearCell(i)
                       \/ SetAudioCell(i)
     \/ AddCell \/ RemoveCell
     \/ MuteBtn \/ \E v \in Volume : SetVolume(v)
     \/ StartRecording \/ PressStop \/ SavedClose
     \/ Reload

Answer(n) == n \notin gone /\ (StartAnswered(n) \/ StartFailed(n) \/ StopAnswered(n))

Next ==
  \/ User
  \/ \E n \in Rec : Answer(n)
  \/ RecorderNext /\ UNCHANGED <<sound, button, acts, gone, history>>

Spec == Init /\ [][Next]_vars

\* Goroutines run and timers fire; the user, ffmpeg and the signal need not come.
FairSpec ==
  /\ Spec
  /\ \A n \in Rec : WF_vars(Handler(n) /\ UNCHANGED <<sound, button, acts, gone, history>>)
  /\ WF_vars(Shutdown /\ UNCHANGED <<sound, button, acts, gone, history>>)

-----------------------------------------------------------------------------
TypeOK ==
  /\ RecorderTypeOK
  /\ count \in Cell /\ channel \in [Cell -> Channel \union {NoChannel}]
  /\ audible \subseteq Cell /\ audioCell \in 0 .. MaxCells
  /\ globalMuted \in BOOLEAN
  /\ {recId, recTimer, saved} \subseteq 0 .. MaxRecs /\ recCellIdx \in 0 .. MaxCells
  /\ ticking \subseteq Rec /\ enabled \in BOOLEAN /\ acts \in 0 .. MaxActions
  /\ recorded \in [Rec -> (0 .. MaxCells) \X (Channel \union {NoChannel})]
  /\ gone \subseteq Rec /\ overlap \subseteq Rec /\ moved \subseteq Rec

(* The page can stop what it records (startRecording, stopRecording): a    *)
(* recording in progress is the one it knows, or one about to be answered  *)
(* or being stopped, and no clock but that one's runs.  Only a reload and  *)
(* starts that overlap lose one: the button is set anew, and can be        *)
(* pressed, by any change of the sound while a start is under way.         *)
LostOnlyByOverlap ==
  /\ Listening => \A n \in Rec \ (gone \union overlap) : state[n] = "recording" =>
       n = recId \/ n \in Pending \/ stop["page"][n] \in {"sent"} \union Stopping
  /\ ticking \subseteq overlap \union {recId}

(* What is recorded is what is heard (applyAudio, assignChannel, clearCell,  *)
(* removeCell): the recording the page knows is of the screen with the     *)
(* sound and of the channel that screen shows, unless either changed while *)
(* its start was under way or starts overlapped.                           *)
RecordsWhatIsHeard ==
  recId # 0 /\ recId \notin overlap \union moved =>
    /\ recCellIdx = audioCell
    /\ recorded[recId] = <<audioCell, channel[audioCell]>>

(* Exactly the screen with the sound is heard, it is on the page and shows *)
(* a channel, and there is one if any screen shows a channel (applyAudio   *)
(* after every change of screens, channels, sound or mute).                *)
OneScreenHeard ==
  /\ audioCell = 0 <=> Filled(channel) = {}
  /\ audioCell # 0 => audioCell \in Filled(channel) /\ audioCell <= count
  /\ audible = IF globalMuted \/ audioCell = 0 THEN {} ELSE {audioCell}

(* The page in one invariant: types, the sound and what is recorded of it. *)
SoundOK == TypeOK /\ RecordsWhatIsHeard /\ OneScreenHeard
=============================================================================
