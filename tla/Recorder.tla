------------------------------ MODULE Recorder ------------------------------
(***************************************************************************)
(* The server's recorder (internal/recorder/recorder.go), the two requests *)
(* that reach it and the end of the process (main.go): ffmpeg children,    *)
(* the goroutine that waits for each, Stop and StopAll.                    *)
(*                                                                         *)
(* A recording is named by the request that started it: ids are handed out *)
(* once.  A recording is stopped by the page, which asks once for each id, *)
(* and by the shutdown.  ffmpeg is external: it may end by itself or break *)
(* at any time and need not heed the 'q'.  The eight seconds of Stop and   *)
(* the five of Shutdown are choices of when: no property is about time.    *)
(***************************************************************************)
EXTENDS Integers, FiniteSets

CONSTANT MaxRecs        \* bound: requests to start a recording

ASSUME RecorderAssumption == MaxRecs \in Nat

Rec    == 1 .. MaxRecs
Caller == {"page", "shutdown"}

VARIABLES
  start,    \* the request that starts a recording
  ffmpeg,   \* its child process
  state,    \* rec.state, "none" before it is in r.recs
  stopped,  \* rec.stopped
  stop,     \* a call of Stop for the page or for StopAll
  server,   \* "up", "stopping" (in StopAll), "draining" (Shutdown), "down"
  ids       \* StopAll: the recordings it found in progress

recorder == <<start, ffmpeg, state, stopped, stop, server, ids>>

Final    == {"done", "error"}
Stopping == {"waiting", "killed"}
Serving  == server # "down"

RecorderTypeOK ==
  /\ start \in [Rec -> {"idle", "sent", "spawned", "answered", "refused", "over"}]
  /\ ffmpeg \in [Rec -> {"none", "running", "ended", "broken"}]
  /\ state \in [Rec -> {"none", "recording"} \union Final]
  /\ stopped \in [Rec -> BOOLEAN]
  /\ stop \in [Caller -> [Rec -> {"none", "sent", "answered", "refused", "over"} \union Stopping]]
  /\ server \in {"up", "stopping", "draining", "down"}
  /\ ids \subseteq Rec

RecorderInit ==
  /\ start   = [n \in Rec |-> "idle"]
  /\ ffmpeg  = [n \in Rec |-> "none"]
  /\ state   = [n \in Rec |-> "none"]
  /\ stopped = [n \in Rec |-> FALSE]
  /\ stop    = [c \in Caller |-> [n \in Rec |-> "none"]]
  /\ server = "up" /\ ids = {}

-----------------------------------------------------------------------------
(* Start: ffmpeg runs before its recording is in r.recs. *)

Spawn(n) ==
  /\ Serving /\ start[n] = "sent"
  /\ \/ start' = [start EXCEPT ![n] = "spawned"] /\ ffmpeg' = [ffmpeg EXCEPT ![n] = "running"]
     \/ start' = [start EXCEPT ![n] = "refused"] /\ UNCHANGED ffmpeg
  /\ UNCHANGED <<state, stopped, stop, server, ids>>

Register(n) ==
  /\ Serving /\ start[n] = "spawned"
  /\ start' = [start EXCEPT ![n] = "answered"]
  /\ state' = [state EXCEPT ![n] = "recording"]
  /\ UNCHANGED <<ffmpeg, stopped, stop, server, ids>>

\* External: the stream ends, or fails, or ffmpeg heeds the 'q'.
Exit(n) ==
  /\ ffmpeg[n] = "running"
  /\ \E how \in {"ended", "broken"} : ffmpeg' = [ffmpeg EXCEPT ![n] = how]
  /\ UNCHANGED <<start, state, stopped, stop, server, ids>>

\* The goroutine behind Start, once cmd.Wait returns.
Watch(n) ==
  /\ Serving /\ ffmpeg[n] \in {"ended", "broken"} /\ state[n] = "recording"
  /\ state' = [state EXCEPT ![n] =
                 IF ~stopped[n] /\ ffmpeg[n] = "broken" THEN "error" ELSE "done"]
  /\ UNCHANGED <<start, ffmpeg, stopped, stop, server, ids>>

-----------------------------------------------------------------------------
(* Stop: nothing to do for a recording that is over; else 'q' and a wait,  *)
(* ended by the watcher or, after a kill, by the watcher all the same.     *)

EnterStop(c, n) ==
  /\ stop' = [stop EXCEPT ![c][n] = IF state[n] = "recording" THEN "waiting" ELSE "answered"]
  /\ stopped' = [stopped EXCEPT ![n] = @ \/ state[n] = "recording"]

ServeStop(n) ==
  /\ Serving /\ stop["page"][n] = "sent"
  /\ EnterStop("page", n)
  /\ UNCHANGED <<start, ffmpeg, state, server, ids>>

\* Wrong on purpose: after the eight seconds Stop waits on without killing.
KillNothing(c, n) == FALSE

Kill(c, n) ==
  /\ Serving /\ stop[c][n] = "waiting" /\ state[n] = "recording"
  /\ stop' = [stop EXCEPT ![c][n] = "killed"]
  /\ ffmpeg' = [ffmpeg EXCEPT ![n] = IF @ = "running" THEN "broken" ELSE @]
  /\ UNCHANGED <<start, state, stopped, server, ids>>

\* Wrong on purpose: answers once ffmpeg was told, whatever became of it.
LeaveStopEarly(c, n) ==
  /\ Serving /\ stop[c][n] \in Stopping
  /\ stop' = [stop EXCEPT ![c][n] = "answered"]
  /\ UNCHANGED <<start, ffmpeg, state, stopped, server, ids>>

LeaveStop(c, n) ==
  /\ Serving /\ stop[c][n] \in Stopping /\ state[n] \in Final
  /\ stop' = [stop EXCEPT ![c][n] = "answered"]
  /\ UNCHANGED <<start, ffmpeg, state, stopped, server, ids>>

-----------------------------------------------------------------------------
(* The end of the process: StopAll looks up what is in progress and stops  *)
(* it one by one, requests being served; Shutdown then waits for requests  *)
(* under way, and after five seconds for nobody.                           *)

Signal ==
  /\ server = "up"
  /\ server' = "stopping"
  /\ ids' = {n \in Rec : state[n] = "recording"}
  /\ UNCHANGED <<start, ffmpeg, state, stopped, stop>>

StopNext(n) ==
  /\ server = "stopping" /\ n \in ids /\ stop["shutdown"][n] = "none"
  /\ \A m \in Rec : stop["shutdown"][m] \notin Stopping
  /\ EnterStop("shutdown", n)
  /\ UNCHANGED <<start, ffmpeg, state, server, ids>>

\* Wrong on purpose: Shutdown begins while StopAll still waits.
StopAllInBackground ==
  /\ server = "stopping"
  /\ \A n \in ids : stop["shutdown"][n] # "none"
  /\ server' = "draining"
  /\ UNCHANGED <<start, ffmpeg, state, stopped, stop, ids>>

StopAllReturns ==
  /\ server = "stopping"
  /\ \A n \in ids : stop["shutdown"][n] = "answered"
  /\ server' = "draining"
  /\ UNCHANGED <<start, ffmpeg, state, stopped, stop, ids>>

\* What waits for an answer gets none; children live on without their server.
Down ==
  /\ server = "draining"
  /\ server' = "down"
  /\ start' = [n \in Rec |-> IF start[n] \in {"sent", "spawned"} THEN "refused" ELSE start[n]]
  /\ stop' = [stop EXCEPT !["page"] = [n \in Rec |->
                IF stop["page"][n] \in {"sent"} \union Stopping THEN "refused" ELSE stop["page"][n]]]
  /\ UNCHANGED <<ffmpeg, state, stopped, ids>>

Handler(n) ==
  \/ Spawn(n) \/ Register(n) \/ Watch(n) \/ ServeStop(n)
  \/ \E c \in Caller : Kill(c, n) \/ LeaveStop(c, n)

Shutdown == (\E n \in Rec : StopNext(n)) \/ StopAllReturns \/ Down

RecorderNext == Signal \/ Shutdown \/ \E n \in Rec : Handler(n) \/ Exit(n)

-----------------------------------------------------------------------------
(* When Stop has returned, the file is final: no child writes to it, its   *)
(* recording has ended for good (Stop "blocks until the process is gone"), *)
(* however many stops, an exit by itself and the kill coincide.            *)
AnsweredStopIsFinal ==
  \A c \in Caller, n \in Rec :
    stop[c][n] = "answered" => state[n] \in Final /\ ffmpeg[n] # "running"

(* The server leaves no child behind that was in progress when StopAll     *)
(* looked (main: rec.StopAll before Shutdown): an ffmpeg outlives it only  *)
(* if its recording was registered later than that.                        *)
OutlivesOnlyIfLater ==
  server \in {"draining", "down"} => \A n \in ids : ffmpeg[n] # "running"

(* Every Stop returns, whether ffmpeg heeds the 'q' or not, and so the     *)
(* shutdown ends.                                                          *)
StopsReturn ==
  /\ \A c \in Caller, n \in Rec : stop[c][n] \in Stopping ~> stop[c][n] \notin Stopping
  /\ server = "stopping" ~> server = "down"
=============================================================================
