---------------------------- MODULE BufferMonitor ----------------------------
(***************************************************************************)
(* The buffering monitor of one screen (makeCell in web/static/cell.js).   *)
(*                                                                         *)
(* A live stream plays at the edge of its buffer.  When the media element  *)
(* reports a stall the monitor pauses it, lets the buffer fill, and lets   *)
(* it run again when there is enough, when it has waited too long, or when *)
(* the buffer no longer grows.  The element reports asynchronously: pause, *)
(* play and changes of its buffer put events in a queue that the page      *)
(* handles one at a time, with timers and clicks in between, so the        *)
(* monitor always reacts to a past state of the element.                   *)
(*                                                                         *)
(* Time is counted in periods of the monitor's timer.  The element is      *)
(* external: of the HTML standard the module keeps which events pause(),   *)
(* play(), load() and the buffer queue, and in which order.  Autoplay      *)
(* refusal, seeking and the end of a stream are left out.                  *)
(***************************************************************************)
EXTENDS Integers, Sequences, SequencesExt

CONSTANTS
  FillTarget,   \* FILL_TARGET: buffer level at which playback resumes
  MaxWait,      \* MAX_WAIT, in timer periods
  Plateau,      \* PLATEAU_MS, in timer periods
  MaxEvents     \* bound: the element and the user add no event beyond this

ASSUME MonitorAssumption ==
  /\ FillTarget \in Nat \ {0}
  /\ MaxWait \in Nat /\ Plateau \in Nat /\ MaxEvents \in Nat

VARIABLES
  video,    \* the media element, its events not yet handled, who paused it
  filling,  \* the monitor is holding the playhead
  autoPaused, \* the next pause event is taken for the monitor's own
  bufTimer, \* the interval is set
  waited,   \* timer periods since fillStart
  still,    \* timer periods since the buffer last grew (lastGrowAt)
  bestAhead,\* highest level seen during this refill
  cell      \* "empty", "loading", "playing" or "error"

monitor == <<filling, autoPaused, bufTimer, waited, still, bestAhead>>
bufferVars == <<video, monitor, cell>>

Events == {"waiting", "stalled", "playing", "pause"}

(* by: nobody, or who paused the element last.  raced: when the monitor    *)
(* paused it, a playing or pause event was already in the queue.  Both are *)
(* history only: no action reads them.                                     *)
Video == [paused : BOOLEAN, ahead : 0 .. FillTarget, events : Seq(Events),
          by : {"nobody", "user", "monitor"}, raced : BOOLEAN]

-----------------------------------------------------------------------------
(* The media element. *)

Queue(v, e) == [v EXCEPT !.events = Append(@, e)]

\* play(): without data the element says at once that it waits.
PlayVideo(v) ==
  IF v.paused
    THEN Queue([v EXCEPT !.paused = FALSE, !.by = "nobody", !.raced = FALSE],
               IF v.ahead = 0 THEN "waiting" ELSE "playing")
    ELSE v

PauseVideo(v, who) ==
  IF v.paused
    THEN v
    ELSE Queue([v EXCEPT !.paused = TRUE, !.by = who,
                         !.raced = \E e \in ToSet(v.events) : e \in {"playing", "pause"}],
               "pause")

\* load(): the element pauses silently and its queued events are dropped.
LoadVideo(v) == [paused |-> TRUE, ahead |-> 0, events |-> <<>>,
                 by |-> "nobody", raced |-> FALSE]

-----------------------------------------------------------------------------
BufferInit ==
  /\ video = [paused |-> TRUE, ahead |-> 0, events |-> <<>>, by |-> "nobody", raced |-> FALSE]
  /\ filling = FALSE /\ autoPaused = FALSE /\ bufTimer = FALSE
  /\ waited = 0 /\ still = 0 /\ bestAhead = 0
  /\ cell = "empty"

Enough == video.ahead = FillTarget

\* Wrong on purpose: the interval survives the player it watches.
HideBufferingKeepsTimer ==
  /\ filling' = FALSE /\ autoPaused' = FALSE
  /\ UNCHANGED <<bufTimer, waited, still, bestAhead>>

\* hideBuffering: the refill is abandoned, the interval cleared.
HideBuffering ==
  /\ filling' = FALSE /\ autoPaused' = FALSE /\ bufTimer' = FALSE
  /\ UNCHANGED <<waited, still, bestAhead>>

\* Wrong on purpose: the playhead is held, but no interval is set.
StartFillingUnwatched(v) ==
  IF filling \/ cell \in {"empty", "loading"}
    THEN video' = v /\ UNCHANGED monitor
    ELSE /\ waited' = 0 /\ still' = 0 /\ bestAhead' = v.ahead
         /\ filling' = TRUE /\ autoPaused' = TRUE
         /\ video' = PauseVideo(v, "monitor")
         /\ UNCHANGED bufTimer

(* startFilling on the element v, whose event has just been taken from the *)
(* queue.  Its own call of paintBuf may find enough at once and resume,    *)
(* and the interval is set after that all the same.                        *)
StartFilling(v) ==
  IF filling \/ cell \in {"empty", "loading"}
    THEN video' = v /\ UNCHANGED monitor
    ELSE LET held == PauseVideo(v, "monitor")
         IN /\ waited' = 0 /\ still' = 0 /\ bestAhead' = v.ahead
            /\ bufTimer' = TRUE
            /\ filling' = ~Enough /\ autoPaused' = ~Enough
            /\ video' = IF Enough THEN PlayVideo(held) ELSE held

HeadIs(e) == video.events # <<>> /\ Head(video.events) = e
Handled  == [video EXCEPT !.events = Tail(@)]

(* Handlers of the element's events. *)
OnStall ==
  /\ HeadIs("waiting") \/ HeadIs("stalled")
  /\ IF ~video.paused \/ autoPaused
       THEN StartFilling(Handled)
       ELSE video' = Handled /\ UNCHANGED monitor
  /\ UNCHANGED cell

OnPlaying ==
  /\ HeadIs("playing")
  /\ video' = Handled
  /\ filling' = FALSE /\ bufTimer' = FALSE
  /\ UNCHANGED <<autoPaused, waited, still, bestAhead, cell>>

\* Wrong on purpose: the monitor takes its own pause for the user's.
OnPauseAborts ==
  /\ HeadIs("pause")
  /\ video' = Handled
  /\ HideBuffering
  /\ UNCHANGED cell

\* Wrong on purpose: the user's pause does not end a refill.
OnPauseIgnored ==
  /\ HeadIs("pause")
  /\ video' = Handled
  /\ autoPaused' = FALSE
  /\ UNCHANGED <<filling, bufTimer, waited, still, bestAhead, cell>>

OnPause ==
  /\ HeadIs("pause")
  /\ video' = Handled
  /\ IF autoPaused
       THEN autoPaused' = FALSE /\ UNCHANGED <<filling, bufTimer, waited, still, bestAhead>>
       ELSE HideBuffering
  /\ UNCHANGED cell

(* The interval: paintBuf. *)
Tick ==
  /\ bufTimer
  /\ IF ~filling
       THEN UNCHANGED <<video, monitor>>
       ELSE LET grew == video.ahead > bestAhead
                quiet == IF grew THEN 0 ELSE still + 1
                timedOut == waited + 1 > MaxWait
                plateaued == video.ahead > 0 /\ quiet > Plateau
            IN /\ waited' = waited + 1
               /\ still' = quiet
               /\ bestAhead' = IF grew THEN video.ahead ELSE bestAhead
               /\ IF Enough \/ timedOut \/ plateaued
                    THEN /\ filling' = FALSE /\ autoPaused' = FALSE /\ bufTimer' = FALSE
                         /\ video' = PlayVideo(video)
                    ELSE UNCHANGED <<video, filling, autoPaused, bufTimer>>
  /\ UNCHANGED cell

(* The play/pause button. *)
Click ==
  /\ cell # "empty"
  /\ Len(video.events) < MaxEvents
  /\ video' = IF video.paused THEN PlayVideo(video) ELSE PauseVideo(video, "user")
  /\ UNCHANGED <<monitor, cell>>

(* The screen's player: a dynamic channel chosen, whose link is resolved   *)
(* while the old player goes on; a player started; reporting that it       *)
(* plays; out of servers or of a link; closed.                             *)
AssignDynamic ==
  /\ cell' = "loading"
  /\ UNCHANGED <<video, monitor>>

StartPlayback ==
  /\ cell' = "loading"
  /\ HideBuffering
  /\ video' = LoadVideo(video)

OnCellPlaying ==
  /\ cell # "empty"
  /\ Len(video.events) < MaxEvents
  /\ cell' = "playing"
  /\ video' = PlayVideo(video)
  /\ UNCHANGED monitor

OutOfServers ==
  /\ cell \in {"loading", "playing"}
  /\ cell' = "error"
  /\ UNCHANGED <<video, monitor>>

ClearCell ==
  /\ cell # "empty"
  /\ cell' = "empty"
  /\ HideBuffering
  /\ video' = LoadVideo(video)

(* The network and the decoder: a piece of the buffer arrives or is        *)
(* played; the download makes no progress for a while.                     *)
Download ==
  /\ cell # "empty" /\ video.ahead < FillTarget
  /\ Len(video.events) < MaxEvents
  /\ LET more == [video EXCEPT !.ahead = @ + 1]
     IN video' = IF video.ahead = 0 /\ ~video.paused THEN Queue(more, "playing") ELSE more
  /\ UNCHANGED <<monitor, cell>>

Play ==
  /\ ~video.paused /\ video.ahead > 0
  /\ Len(video.events) < MaxEvents
  /\ LET less == [video EXCEPT !.ahead = @ - 1]
     IN video' = IF video.ahead = 1 THEN Queue(less, "waiting") ELSE less
  /\ UNCHANGED <<monitor, cell>>

NoProgress ==
  /\ cell # "empty"
  /\ Len(video.events) < MaxEvents
  /\ video' = Queue(video, "stalled")
  /\ UNCHANGED <<monitor, cell>>

Handle == OnStall \/ OnPlaying \/ OnPause

BufferNext ==
  \/ Handle \/ Tick \/ Click
  \/ AssignDynamic \/ StartPlayback \/ OnCellPlaying \/ OutOfServers \/ ClearCell
  \/ Download \/ Play \/ NoProgress

BufferSpec == BufferInit /\ [][BufferNext]_bufferVars

\* The browser runs queued events and an interval that is set.
FairBufferSpec == BufferSpec /\ WF_bufferVars(Handle) /\ WF_bufferVars(Tick)

-----------------------------------------------------------------------------
(* Types; and the counters of a refill stay within its limits. *)
BufferTypeOK ==
  /\ video \in Video
  /\ filling \in BOOLEAN /\ autoPaused \in BOOLEAN /\ bufTimer \in BOOLEAN
  /\ waited \in 0 .. MaxWait + 1 /\ still \in 0 .. MaxWait + 1
  /\ bestAhead \in 0 .. FillTarget
  /\ cell \in {"empty", "loading", "playing", "error"}

AtRest == video.events = <<>>

(* "We can NEVER freeze forever" (paintBuf): once the events are handled,  *)
(* a playhead the monitor stopped is one it is still waiting to release.   *)
NeverFrozen == AtRest /\ video.paused /\ video.by = "monitor" => filling

(* What is left of it: the monitor forgets a playhead it stopped only when *)
(* an event that was queued before its pause reached it after it.          *)
FrozenOnlyByOlderEvent ==
  AtRest /\ video.paused /\ video.by = "monitor" => filling \/ video.raced

(* The interval does not outlive the refill it was set for: what keeps it  *)
(* is a refill, or an event that will clear it.  In particular it is       *)
(* cleared with the player, whichever way the player goes.                 *)
TimerHasReason == bufTimer => filling \/ ~AtRest

(* A refill that holds the playhead is watched by the interval that will   *)
(* release it, and ends with the channel.                                  *)
FillingIsWatched == filling => bufTimer /\ cell # "empty"

(* The monitor in one invariant: types, and the interval in both ways.     *)
MonitorOK == BufferTypeOK /\ TimerHasReason /\ FillingIsWatched

(* The monitor does not start a video the user has paused, unless the      *)
(* pause event has not yet been handled (pause listener: "no auto-resume").*)
UserPauseKept ==
  [][video.paused /\ video.by = "user" /\ "pause" \notin ToSet(video.events)
     /\ (Tick \/ Handle)
       => video'.paused]_bufferVars

(* Every refill ends, whatever the network does (MAX_WAIT, PLATEAU_MS).    *)
FillEnds == filling ~> ~filling

=============================================================================
