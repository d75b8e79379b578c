---------------------------- MODULE PlaylistFetch ----------------------------
(***************************************************************************)
(* How internal/proxy answers requests for one playlist URL: the two       *)
(* second micro-cache, the single flight that collapses concurrent misses  *)
(* into one upstream request, and the last-known-good copy that is served  *)
(* when the upstream fails.  Caches and flights are keyed by URL, so URLs  *)
(* are independent but for eviction, which may strike at any time.         *)
(*                                                                         *)
(* A live playlist changes all the time: the version the upstream hands    *)
(* out is the clock at that moment.  Bodies are taken to be below the      *)
(* ten megabytes of maxPlaylistLen.                                        *)
(***************************************************************************)
EXTENDS Integers, FiniteSets

CONSTANTS
  Clients,
  NoOne,        \* no client
  PlaylistTTL,  \* playlistTTL
  LkgTTL,       \* playlistLKGTTL
  MaxClock      \* bound on the clock

ASSUME TTLs == PlaylistTTL \in Nat /\ LkgTTL \in Nat
ASSUME NoOneIsNoClient == NoOne \notin Clients
ASSUME ClockBound == MaxClock \in Nat

Absent == [ver |-> -1, expires |-> -1]   \* no entry in a cache
Failed == -1                             \* an upstream error or refusal

VARIABLES
  clock,
  playlists,  \* the micro-cache's entry for the URL
  lkg,        \* the last-known-good entry
  inflight,   \* the leader of the call in the inflight map, or NoOne
  pc,         \* pc[c]: where the request of client c stands
  call,       \* call[c]: the leader of the call c waits for
  res,        \* res[c]: the result of the call c led or waited for
  last        \* last[c]: the newest version c has been answered with

vars == <<clock, playlists, lkg, inflight, pc, call, res, last>>

Versions == 0..MaxClock
Entry == [ver : Versions, expires : Nat]

Leading == {"fetch", "fresh", "lkg", "release"}

Init ==
  /\ clock = 0
  /\ playlists = Absent /\ lkg = Absent
  /\ inflight = NoOne
  /\ pc = [c \in Clients |-> "idle"]
  /\ call = [c \in Clients |-> NoOne]
  /\ res = [c \in Clients |-> Failed]
  /\ last = [c \in Clients |-> -1]

Goto(c, step) == pc' = [pc EXCEPT ![c] = step]

\* lruCache.get finds an entry whose time has not passed; an expired one is
\* removed.
Hit(entry) == entry # Absent /\ clock <= entry.expires
AfterGet(entry) == IF Hit(entry) THEN entry ELSE Absent

\* The answer the client gets.
Answer(c, ver) == last' = [last EXCEPT ![c] = ver]

-----------------------------------------------------------------------------
(* ServeHTTP: the fast path. *)

Lookup(c) ==
  /\ pc[c] = "idle"
  /\ playlists' = AfterGet(playlists)
  /\ IF Hit(playlists)
     THEN Answer(c, playlists.ver) /\ UNCHANGED pc
     ELSE Goto(c, "join") /\ UNCHANGED last
  /\ UNCHANGED <<clock, lkg, inflight, call, res>>

(* fetchShared: wait for the call in flight, or lead a new one. *)

Wait(c) ==
  /\ pc[c] = "join" /\ inflight # NoOne
  /\ call' = [call EXCEPT ![c] = inflight]
  /\ Goto(c, "wait")
  /\ UNCHANGED <<clock, playlists, lkg, inflight, res, last>>

\* Wrong on purpose: the inflight map is not consulted.
LeadAlways(c) ==
  /\ pc[c] = "join"
  /\ inflight' = c
  /\ Goto(c, "fetch")
  /\ UNCHANGED <<clock, playlists, lkg, call, res, last>>

Lead(c) ==
  /\ pc[c] = "join" /\ inflight = NoOne
  /\ inflight' = c
  /\ Goto(c, "fetch")
  /\ UNCHANGED <<clock, playlists, lkg, call, res, last>>

(* fetchUpstream, run by the leader within upstreamLimit. *)

FetchOK(c) ==
  /\ pc[c] = "fetch"
  /\ res' = [res EXCEPT ![c] = clock]
  /\ Goto(c, "fresh")
  /\ UNCHANGED <<clock, playlists, lkg, inflight, call, last>>

\* Wrong on purpose: the error path returns without ending the call.
FetchFailsAndLeaves(c) ==
  /\ pc[c] = "fetch"
  /\ res' = [res EXCEPT ![c] = Failed]
  /\ Goto(c, "result")
  /\ UNCHANGED <<clock, playlists, lkg, inflight, call, last>>

FetchFails(c) ==
  /\ pc[c] = "fetch"
  /\ res' = [res EXCEPT ![c] = Failed]
  /\ Goto(c, "release")
  /\ UNCHANGED <<clock, playlists, lkg, inflight, call, last>>

StoreFresh(c) ==
  /\ pc[c] = "fresh"
  /\ playlists' = [ver |-> res[c], expires |-> clock + PlaylistTTL]
  /\ Goto(c, "lkg")
  /\ UNCHANGED <<clock, lkg, inflight, call, res, last>>

\* Wrong on purpose: a last-known-good copy is kept for as long as it lives.
StoreLKGOnce(c) ==
  /\ pc[c] = "lkg"
  /\ lkg' = IF Hit(lkg) THEN lkg ELSE [ver |-> res[c], expires |-> clock + LkgTTL]
  /\ Goto(c, "release")
  /\ UNCHANGED <<clock, playlists, inflight, call, res, last>>

StoreLKG(c) ==
  /\ pc[c] = "lkg"
  /\ lkg' = [ver |-> res[c], expires |-> clock + LkgTTL]
  /\ Goto(c, "release")
  /\ UNCHANGED <<clock, playlists, inflight, call, res, last>>

\* delete(h.inflight, target), then wg.Done: a new call may start in between.
Release(c) ==
  /\ pc[c] = "release"
  /\ inflight' = NoOne
  /\ Goto(c, "done")
  /\ UNCHANGED <<clock, playlists, lkg, call, res, last>>

Done(c) ==
  /\ pc[c] = "done"
  /\ LET waiting == {w \in Clients : pc[w] = "wait" /\ call[w] = c} IN
     /\ pc' = [w \in Clients |-> IF w \in waiting \union {c} THEN "result" ELSE pc[w]]
     /\ res' = [w \in Clients |-> IF w \in waiting THEN res[c] ELSE res[w]]
     /\ call' = [w \in Clients |-> IF w \in waiting THEN NoOne ELSE call[w]]
  /\ UNCHANGED <<clock, playlists, lkg, inflight, last>>

(* ServeHTTP: the result of the call, or the last-known-good copy. *)

Deliver(c) ==
  /\ pc[c] = "result" /\ res[c] # Failed
  /\ Answer(c, res[c])
  /\ Goto(c, "idle")
  /\ UNCHANGED <<clock, playlists, lkg, inflight, call, res>>

FallBack(c) ==
  /\ pc[c] = "result" /\ res[c] = Failed
  /\ lkg' = AfterGet(lkg)
  /\ IF Hit(lkg) THEN Answer(c, lkg.ver) ELSE UNCHANGED last
  /\ Goto(c, "idle")
  /\ UNCHANGED <<clock, playlists, inflight, call, res>>

-----------------------------------------------------------------------------
Tick ==
  /\ clock < MaxClock
  /\ clock' = clock + 1
  /\ UNCHANGED <<playlists, lkg, inflight, pc, call, res, last>>

\* Other URLs push an entry out of its sixteen megabytes.
Evict ==
  /\ \/ playlists # Absent /\ playlists' = Absent /\ UNCHANGED lkg
     \/ lkg # Absent /\ lkg' = Absent /\ UNCHANGED playlists
  /\ UNCHANGED <<clock, inflight, pc, call, res, last>>

Request(c) ==
  \/ Wait(c) \/ Lead(c)
  \/ FetchOK(c) \/ FetchFails(c) \/ StoreFresh(c) \/ StoreLKG(c)
  \/ Release(c) \/ Done(c)
  \/ Deliver(c) \/ FallBack(c)

Next ==
  \/ \E c \in Clients : Lookup(c) \/ Request(c)
  \/ Tick
  \/ Evict

Spec == Init /\ [][Next]_vars

\* Each goroutine is scheduled, and upstreamLimit ends every upstream request.
FairSpec == Spec /\ \A c \in Clients : WF_vars(Request(c))

-----------------------------------------------------------------------------
(* Properties. *)

TypeOK ==
  /\ clock \in Versions
  /\ playlists \in Entry \union {Absent} /\ lkg \in Entry \union {Absent}
  /\ inflight \in Clients \union {NoOne}
  /\ pc \in [Clients -> Leading \union {"idle", "join", "wait", "done", "result"}]
  /\ call \in [Clients -> Clients \union {NoOne}]
  /\ res \in [Clients -> Versions \union {Failed}]
  /\ last \in [Clients -> Versions \union {-1}]

\* One upstream request at a time: the inflight map holds the leader for as long
\* as it fetches and stores, and nobody waits for a call that has been answered.
OneFlight ==
  /\ \A c \in Clients : pc[c] \in Leading <=> inflight = c
  /\ \A c \in Clients : pc[c] = "wait" =>
       call[c] \in Clients /\ pc[call[c]] \in Leading \union {"done"}

\* Playlist requests in one invariant: types and flights.
FlightOK == TypeOK /\ OneFlight

\* A player that reloads its playlist never gets an older one than before,
\* whether it is answered from the micro-cache, by a fetch it led or shared, or
\* with the stale copy: a live HLS player treats a step back as an error.
NeverGoesBack == [][\A c \in Clients : last'[c] >= last[c]]_vars

\* Every request is answered: a waiter is woken up whatever becomes of the call
\* it joined.
EveryRequestAnswered == \A c \in Clients : pc[c] = "join" ~> pc[c] = "idle"
=============================================================================
