-------------------------- MODULE PlaylistPromise --------------------------
(***************************************************************************)
(* PlaylistFetch implements LivePlaylist: single flight, micro-cache,      *)
(* stale copy and eviction never show a player anything older than what    *)
(* was on show when it asked.  Two history variables carry what the        *)
(* abstract specification remembers and the proxy does not.                *)
(***************************************************************************)
EXTENDS PlaylistFetch

VARIABLES
  served,  \* history: the newest version any client was answered with
  floor    \* history: floor[c]: served when the request of c missed the cache

historyVars == <<served, floor>>
promiseVars == <<vars, historyVars>>

Newer(c) == last'[c] > served

\* The history of a step: a client's answer, and the start and end of requests.
Record ==
  /\ served' = IF \E c \in Clients : Newer(c)
                 THEN last'[CHOOSE c \in Clients : Newer(c)] ELSE served
  /\ floor' = [c \in Clients |-> IF pc'[c] = "idle" THEN -1
                                 ELSE IF pc[c] = "idle" THEN served ELSE floor[c]]

PromiseInit == Init /\ served = -1 /\ floor = [c \in Clients |-> -1]

PromiseSpec == PromiseInit /\ [][Next /\ Record]_promiseVars

FairPromiseSpec == PromiseSpec /\ \A c \in Clients : WF_vars(Request(c))

Live == INSTANCE LivePlaylist
          WITH now <- clock, open <- {c \in Clients : pc[c] # "idle"}

\* Every behaviour of the proxy is one of LivePlaylist: a request that misses
\* the micro-cache opens it, the answer from a cache, a flight or the stale copy
\* closes it, and what goes on in between is invisible.
KeepsPromise == Live!Spec
=============================================================================
