---------------------------- MODULE SegmentFetch ----------------------------
(***************************************************************************)
(* How internal/proxy fills its segment cache.  Three paths reach the      *)
(* upstream for the same segment:                                          *)
(*   - a viewer's request for a .ts link streams straight through and      *)
(*     caches the body once it is complete (serveTS);                      *)
(*   - a viewer's request for any other segment goes through the single    *)
(*     flight (fetchShared);                                               *)
(*   - every refresh of a media playlist walks the listed segments and     *)
(*     warms the missing ones in goroutines of a bounded pool              *)
(*     (schedulePrefetch): sem is the pool's token channel, pf the set of  *)
(*     links being warmed.                                                 *)
(* They share the cache and nothing else.  Eviction and expiry may remove  *)
(* a segment at any time.                                                  *)
(***************************************************************************)
EXTENDS Integers, Sequences, FiniteSets

CONSTANTS
  Segments,            \* segment links
  TsLinks,             \* those served by serveTS
  Listings,            \* what a media playlist may list: sequences of segments
  Schedulers,          \* goroutines that have just refreshed some playlist
  Workers,             \* identities for warming goroutines
  Viewers,             \* goroutines that serve a segment request
  NoOne,
  PrefetchConcurrency  \* prefetchConcurrency

ASSUME TsAreSegments == TsLinks \subseteq Segments
ASSUME ListingsAreLinks == Listings \subseteq Seq(Segments)
ASSUME PoolSize == PrefetchConcurrency \in Nat \ {0}
ASSUME FiniteGoroutines == IsFiniteSet(Schedulers) /\ IsFiniteSet(Workers)
ASSUME DistinctGoroutines == Schedulers \intersect Workers = {}
ASSUME NoOneIsNoViewer == NoOne \notin Viewers

VARIABLES
  cached,    \* segments with a live entry in the cache
  sem,       \* tokens in the channel
  pf,        \* links claimed for warming
  sched,     \* sched[s]: the step of s and the links it has still to walk
  worker,    \* worker[w]: the step of w and the link it warms
  viewer,    \* viewer[v]: the step of v and the link it wants
  inflight   \* inflight[u]: the leader of u's call, or NoOne

poolVars == <<sem, pf, sched, worker>>
vars == <<cached, poolVars, viewer, inflight>>

Init ==
  /\ cached = {}
  /\ sem = 0
  /\ pf = {}
  /\ sched = [s \in Schedulers |-> [step |-> "idle", todo |-> <<>>]]
  /\ worker = [w \in Workers |-> [step |-> "idle", url |-> NoOne]]
  /\ viewer = [v \in Viewers |-> [step |-> "idle", url |-> NoOne]]
  /\ inflight = [u \in Segments |-> NoOne]

-----------------------------------------------------------------------------
(* schedulePrefetch. *)

Schedule(s) ==
  /\ sched[s].step = "idle"
  /\ \E l \in Listings : sched' = [sched EXCEPT ![s] = [step |-> "check", todo |-> l]]
  /\ UNCHANGED <<cached, sem, pf, worker, viewer, inflight>>

NextLink(s) == Head(sched[s].todo)

Skip(s) == [sched EXCEPT ![s] = [step |-> "check", todo |-> Tail(@.todo)]]

Return(s) == [sched EXCEPT ![s] = [step |-> "idle", todo |-> <<>>]]

\* Is the next link already warm?
Check(s) ==
  /\ sched[s].step = "check"
  /\ sched' = IF sched[s].todo = <<>> THEN Return(s)
              ELSE IF NextLink(s) \in cached THEN Skip(s)
              ELSE [sched EXCEPT ![s].step = "acquire"]
  /\ UNCHANGED <<cached, sem, pf, worker, viewer, inflight>>

\* A token, or the end of the walk: a saturated pool is not waited for.
Acquire(s) ==
  /\ sched[s].step = "acquire"
  /\ \/ /\ sem < PrefetchConcurrency
        /\ sem' = sem + 1
        /\ sched' = [sched EXCEPT ![s].step = "claim"]
     \/ /\ sem = PrefetchConcurrency
        /\ sched' = Return(s)
        /\ UNCHANGED sem
  /\ UNCHANGED <<cached, pf, worker, viewer, inflight>>

\* Wrong on purpose: links being warmed are claimed again.
ClaimAgain(s, w) ==
  /\ sched[s].step = "claim"
  /\ worker[w].step = "idle"
  /\ pf' = pf \union {NextLink(s)}
  /\ worker' = [worker EXCEPT ![w] = [step |-> "warm", url |-> NextLink(s)]]
  /\ sched' = Skip(s)
  /\ UNCHANGED <<cached, sem, viewer, inflight>>

\* beginPrefetch succeeds: the token passes to a new goroutine.
Claim(s, w) ==
  /\ sched[s].step = "claim" /\ NextLink(s) \notin pf
  /\ worker[w].step = "idle"
  /\ pf' = pf \union {NextLink(s)}
  /\ worker' = [worker EXCEPT ![w] = [step |-> "warm", url |-> NextLink(s)]]
  /\ sched' = Skip(s)
  /\ UNCHANGED <<cached, sem, viewer, inflight>>

\* Wrong on purpose: the walk goes on without giving the token back.
GiveNothingBack(s) ==
  /\ sched[s].step = "claim" /\ NextLink(s) \in pf
  /\ sched' = Skip(s)
  /\ UNCHANGED <<cached, sem, pf, worker, viewer, inflight>>

\* beginPrefetch fails: another goroutine is warming the link.
GiveBack(s) ==
  /\ sched[s].step = "claim" /\ NextLink(s) \in pf
  /\ sem' = sem - 1
  /\ sched' = Skip(s)
  /\ UNCHANGED <<cached, pf, worker, viewer, inflight>>

-----------------------------------------------------------------------------
(* The warming goroutine: warmSegment, endPrefetch, token back. *)

Become(w, step) == worker' = [worker EXCEPT ![w].step = step]

\* The upstream answers with a segment that may be cached, or with something
\* else: an error, a refusal, a body above the per-item limit.
Warm(w) ==
  /\ worker[w].step = "warm"
  /\ cached' = cached \union {worker[w].url} \/ UNCHANGED cached
  /\ Become(w, "end")
  /\ UNCHANGED <<sem, pf, sched, viewer, inflight>>

EndPrefetch(w) ==
  /\ worker[w].step = "end"
  /\ pf' = pf \ {worker[w].url}
  /\ Become(w, "token")
  /\ UNCHANGED <<cached, sem, sched, viewer, inflight>>

\* Wrong on purpose: the goroutine ends without taking its token out again.
KeepToken(w) ==
  /\ worker[w].step = "token"
  /\ Become(w, "idle")
  /\ UNCHANGED <<cached, sem, pf, sched, viewer, inflight>>

ReturnToken(w) ==
  /\ worker[w].step = "token"
  /\ sem' = sem - 1
  /\ Become(w, "idle")
  /\ UNCHANGED <<cached, pf, sched, viewer, inflight>>

-----------------------------------------------------------------------------
(* Viewers. *)

See(v, step) == viewer' = [viewer EXCEPT ![v].step = step]

\* ServeHTTP: the cache, then one of the two ways to the upstream.
Look(v, u) ==
  /\ viewer[v].step = "idle"
  /\ u \notin cached
  /\ viewer' = [viewer EXCEPT ![v] = [step |-> IF u \in TsLinks THEN "ts" ELSE "join",
                                      url |-> u]]
  /\ UNCHANGED <<cached, poolVars, inflight>>

\* serveTS: the upstream request of this viewer alone.
OpenTS(v) ==
  /\ viewer[v].step = "ts"
  /\ See(v, "stream")
  /\ UNCHANGED <<cached, poolVars, inflight>>

\* The body came to its clean end within the limit, or it did not.
CloseTS(v) ==
  /\ viewer[v].step = "stream"
  /\ cached' = cached \union {viewer[v].url} \/ UNCHANGED cached
  /\ See(v, "idle")
  /\ UNCHANGED <<poolVars, inflight>>

\* Wrong on purpose: every viewer starts a call of its own.
JoinAlways(v) ==
  /\ viewer[v].step = "join"
  /\ inflight' = [inflight EXCEPT ![viewer[v].url] = v]
  /\ See(v, "fetch")
  /\ UNCHANGED <<cached, poolVars>>

\* fetchShared.
Join(v) ==
  /\ viewer[v].step = "join"
  /\ IF inflight[viewer[v].url] = NoOne
     THEN inflight' = [inflight EXCEPT ![viewer[v].url] = v] /\ See(v, "fetch")
     ELSE See(v, "wait") /\ UNCHANGED inflight
  /\ UNCHANGED <<cached, poolVars>>

Fetch(v) ==
  /\ viewer[v].step = "fetch"
  /\ cached' = cached \union {viewer[v].url} \/ UNCHANGED cached
  /\ See(v, "release")
  /\ UNCHANGED <<poolVars, inflight>>

\* The leader takes the call out of the map and answers everyone.
Release(v) ==
  /\ viewer[v].step = "release"
  /\ inflight' = [inflight EXCEPT ![viewer[v].url] = NoOne]
  /\ viewer' = [x \in Viewers |->
                  IF x = v \/ (viewer[x].step = "wait" /\ viewer[x].url = viewer[v].url)
                  THEN [viewer[x] EXCEPT !.step = "idle"] ELSE viewer[x]]
  /\ UNCHANGED <<cached, poolVars>>

-----------------------------------------------------------------------------
Evict(u) ==
  /\ u \in cached
  /\ cached' = cached \ {u}
  /\ UNCHANGED <<poolVars, viewer, inflight>>

Pool ==
  \/ \E s \in Schedulers : \/ Check(s) \/ Acquire(s) \/ GiveBack(s)
                           \/ \E w \in Workers : Claim(s, w)
  \/ \E w \in Workers : Warm(w) \/ EndPrefetch(w) \/ ReturnToken(w)

View(v) ==
  \/ \E u \in Segments : Look(v, u)
  \/ OpenTS(v) \/ CloseTS(v)
  \/ Join(v) \/ Fetch(v) \/ Release(v)

Next ==
  \/ \E s \in Schedulers : Schedule(s)
  \/ Pool
  \/ \E v \in Viewers : View(v)
  \/ \E u \in Segments : Evict(u)

Spec == Init /\ [][Next]_vars

\* Goroutines are scheduled and upstreamLimit ends every warm-up; nothing makes
\* anyone refresh a playlist.
FairSpec ==
  /\ Spec
  /\ \A s \in Schedulers :
       WF_vars(Check(s) \/ Acquire(s) \/ GiveBack(s) \/ \E w \in Workers : Claim(s, w))
  /\ \A w \in Workers : WF_vars(Warm(w) \/ EndPrefetch(w) \/ ReturnToken(w))

-----------------------------------------------------------------------------
(* Properties. *)

TypeOK ==
  /\ cached \subseteq Segments
  /\ sem \in 0..PrefetchConcurrency
  /\ pf \subseteq Segments
  /\ sched \in [Schedulers -> [step : {"idle", "check", "acquire", "claim"},
                               todo : Seq(Segments)]]
  /\ worker \in [Workers -> [step : {"idle", "warm", "end", "token"},
                             url : Segments \union {NoOne}]]
  /\ viewer \in [Viewers -> [step : {"idle", "ts", "stream", "join", "wait", "fetch", "release"},
                             url : Segments \union {NoOne}]]
  /\ inflight \in [Segments -> Viewers \union {NoOne}]

\* Who owes the channel a token: schedulers between the send and the go
\* statement, and goroutines that have not received it back.
Holders == {s \in Schedulers : sched[s].step = "claim"}
             \union {w \in Workers : worker[w].step # "idle"}

\* No path through the walk, the claim, the warm-up and its failures loses a
\* token or returns one twice.
TokenAccounting == sem = Cardinality(Holders)

Warming == {w \in Workers : worker[w].step # "idle"}

\* The pool never runs more than prefetchConcurrency warm-ups, however many
\* playlists are refreshed at the same moment.
WarmLimit == Cardinality(Warming) <= PrefetchConcurrency

\* The warm-up pool in one invariant: types, tokens and limit.
PoolOK == TypeOK /\ TokenAccounting /\ WarmLimit

\* A link is being warmed by one goroutine at most, and pf is exactly the links
\* being warmed: no claim outlives its goroutine, which would keep a link from
\* ever being warmed again.
OneWarmPerSegment ==
  /\ pf = {worker[w].url : w \in {x \in Workers : worker[x].step \in {"warm", "end"}}}
  /\ \A w, x \in Workers :
       worker[w].step \in {"warm", "end"} /\ worker[x].step \in {"warm", "end"}
         /\ worker[w].url = worker[x].url => w = x

\* The upstream requests in progress for a segment.
Fetching(u) ==
  {w \in Workers : worker[w] = [step |-> "warm", url |-> u]}
    \union {v \in Viewers : viewer[v].url = u /\ viewer[v].step \in {"stream", "fetch"}}

\* A segment that is not a .ts link is asked of the upstream at most twice at a
\* time, however many viewers and playlists want it: once by the single flight
\* and once by the pool.
BoundedFanout == \A u \in Segments \ TsLinks : Cardinality(Fetching(u)) <= 2

\* A full pool empties again.
PoolDrains == sem = PrefetchConcurrency ~> sem < PrefetchConcurrency
=============================================================================
