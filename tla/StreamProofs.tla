---------------------------- MODULE StreamProofs ----------------------------
(***************************************************************************)
(* Proofs about both ends of a stream.  First SegmentFetch, where the      *)
(* proxy warms segments, for any segments, any number of goroutines and    *)
(* any size of the pool: the tokens are accounted for, a link is warmed    *)
(* once at a time, and the fan-out to the upstream is bounded.             *)
(*                                                                         *)
(* Then BufferMonitor, which watches the video that plays them, for every  *)
(* length of the refill and of the queue.  Its invariant says what the     *)
(* queue of events still holds in store for the monitor: the event that    *)
(* will clear an interval nobody needs, the pause event the monitor takes  *)
(* for its own, the one the user has caused.                               *)
(***************************************************************************)
EXTENDS SegmentFetch, BufferMonitor, FiniteSetTheorems, TLAPS

\* Who works, works on a segment.
Targets ==
  /\ \A s \in Schedulers : sched[s].step \in {"acquire", "claim"} => sched[s].todo # <<>>
  /\ \A w \in Workers : worker[w].step # "idle" => worker[w].url \in Segments
  /\ \A v \in Viewers : viewer[v].step # "idle" => viewer[v].url \in Segments

\* Only .ts links are streamed; the leader of a call is the one in the inflight
\* map until it has answered.
Flights ==
  \A v \in Viewers :
    /\ viewer[v].step \in {"ts", "stream"} => viewer[v].url \in TsLinks
    /\ viewer[v].step \in {"fetch", "release"} => inflight[viewer[v].url] = v

Inv == TypeOK /\ Targets /\ TokenAccounting /\ OneWarmPerSegment /\ Flights

-----------------------------------------------------------------------------
\* The next link of a walk that goes on is a segment, and what follows is a walk.
LEMMA WalkFacts ==
  ASSUME TypeOK, Targets, NEW s \in Schedulers, sched[s].todo # <<>>
  PROVE  NextLink(s) \in Segments /\ Tail(sched[s].todo) \in Seq(Segments)
  BY DEF TypeOK, NextLink

\* The holders of tokens are finitely many, so they can be counted.
LEMMA HoldersFinite == IsFiniteSet(Holders) /\ Cardinality(Holders) \in Nat
<1>1. IsFiniteSet(Schedulers \union Workers)
  BY FiniteGoroutines, FS_Union
<1>2. Holders \in SUBSET (Schedulers \union Workers)
  BY DEF Holders
<1> QED
  BY <1>1, <1>2, FS_Subset, FS_CardinalityType

\* A goroutine that takes a token is counted once more, one that gives it back
\* once less.
LEMMA HoldersCount ==
  ASSUME NEW x
  PROVE  /\ x \notin Holders => Cardinality(Holders \union {x}) = Cardinality(Holders) + 1
         /\ x \in Holders => Cardinality(Holders \ {x}) = Cardinality(Holders) - 1
  BY HoldersFinite, FS_AddElement, FS_RemoveElement

\* The holders stay the same when nobody comes or goes.
LEMMA SameHolders ==
  ASSUME \A s \in Schedulers : sched'[s].step = "claim" <=> sched[s].step = "claim",
         \A w \in Workers : worker'[w].step # "idle" <=> worker[w].step # "idle"
  PROVE  Holders' = Holders
  BY DEF Holders

-----------------------------------------------------------------------------
\* Every step that touches the pool keeps the accounts of its tokens.
LEMMA TokenStep ==
  ASSUME TypeOK, Targets, TokenAccounting, [Next]_vars PROVE TokenAccounting'
<1> USE DEF TypeOK
<1>1. ASSUME UNCHANGED sem, Holders' = Holders PROVE TokenAccounting'
  BY <1>1 DEF TokenAccounting
<1>2. ASSUME NEW s \in Schedulers, Schedule(s) \/ Check(s) PROVE TokenAccounting'
  <2>1. \A x \in Schedulers : sched'[x].step = "claim" <=> sched[x].step = "claim"
    <3>1. CASE Schedule(s)
      BY <3>1 DEF Schedule
    <3>2. CASE Check(s)
      <4>1. sched' \in {Return(s), Skip(s), [sched EXCEPT ![s].step = "acquire"]}
            /\ sched[s].step = "check"
        BY <3>2 DEF Check
      <4>2. CASE sched' = Return(s)
        BY <4>1, <4>2 DEF Return
      <4>3. CASE sched' = Skip(s)
        BY <4>1, <4>3 DEF Skip
      <4>4. CASE sched' = [sched EXCEPT ![s].step = "acquire"]
        BY <4>1, <4>4
      <4> QED
        BY <4>1, <4>2, <4>3, <4>4
    <3> QED
      BY <1>2, <3>1, <3>2
  <2>2. Holders' = Holders
    BY <1>2, <2>1, SameHolders DEF Schedule, Check
  <2> QED
    BY <1>1, <1>2, <2>2 DEF Schedule, Check
<1>3. ASSUME NEW s \in Schedulers, Acquire(s) PROVE TokenAccounting'
  <2>1. CASE sem' = sem + 1
    <3>1. sched[s].step = "acquire" /\ sched' = [sched EXCEPT ![s].step = "claim"]
          /\ UNCHANGED worker
      BY <1>3, <2>1 DEF Acquire
    <3>2. Holders' = Holders \union {s}
      BY <3>1 DEF Holders
    <3>3. s \notin Holders
      BY <3>1, DistinctGoroutines DEF Holders
    <3> QED
      BY <2>1, <3>2, <3>3, HoldersCount DEF TokenAccounting
  <2>2. CASE sem' = sem
    <3>1. sched[s].step = "acquire" /\ sched' = Return(s) /\ UNCHANGED worker
      BY <1>3, <2>2 DEF Acquire
    <3>2. Holders' = Holders
      BY <3>1 DEF Holders, Return
    <3> QED
      BY <1>1, <2>2, <3>2
  <2> QED
    BY <1>3, <2>1, <2>2 DEF Acquire
<1>4. ASSUME NEW s \in Schedulers, NEW w \in Workers, Claim(s, w) PROVE TokenAccounting'
  <2>1. s \in Holders /\ w \notin Holders \ {s} /\ s # w
    BY <1>4, DistinctGoroutines DEF Claim, Holders
  <2>2. Holders' = (Holders \ {s}) \union {w}
    BY <1>4, <2>1, DistinctGoroutines DEF Claim, Holders, Skip
  <2>3. IsFiniteSet(Holders \ {s}) /\ Cardinality(Holders \ {s}) = Cardinality(Holders) - 1
    BY <2>1, HoldersFinite, FS_RemoveElement
  <2>4. Cardinality(Holders') = Cardinality(Holders)
    <3> DEFINE rest == Holders \ {s}
    <3>1. IsFiniteSet(rest) /\ w \notin rest /\ Holders' = rest \union {w}
      BY <2>1, <2>2, <2>3
    <3> HIDE DEF rest
    <3>2. Cardinality(Holders') = Cardinality(rest) + 1
      BY <3>1, FS_AddElement
    <3> QED
      BY <2>3, <3>2, HoldersFinite DEF rest
  <2> QED
    BY <1>4, <2>4 DEF Claim, TokenAccounting
<1>5. ASSUME NEW s \in Schedulers, GiveBack(s) PROVE TokenAccounting'
  <2>1. s \in Holders /\ Holders' = Holders \ {s}
    BY <1>5, DistinctGoroutines DEF GiveBack, Holders, Skip
  <2> QED
    BY <1>5, <2>1, HoldersCount DEF GiveBack, TokenAccounting
<1>6. ASSUME NEW w \in Workers, Warm(w) \/ EndPrefetch(w) PROVE TokenAccounting'
  <2>1. \A x \in Workers : worker'[x].step # "idle" <=> worker[x].step # "idle"
    BY <1>6 DEF Warm, EndPrefetch, Become
  <2>2. Holders' = Holders
    BY <1>6, <2>1, SameHolders DEF Warm, EndPrefetch
  <2> QED
    BY <1>1, <1>6, <2>2 DEF Warm, EndPrefetch
<1>7. ASSUME NEW w \in Workers, ReturnToken(w) PROVE TokenAccounting'
  <2>1. w \in Holders /\ Holders' = Holders \ {w}
    BY <1>7, DistinctGoroutines DEF ReturnToken, Become, Holders
  <2> QED
    BY <1>7, <2>1, HoldersCount DEF ReturnToken, TokenAccounting
<1>8. ASSUME UNCHANGED poolVars PROVE TokenAccounting'
  BY <1>1, <1>8 DEF poolVars, Holders
<1> QED
  BY <1>2, <1>3, <1>4, <1>5, <1>6, <1>7, <1>8 DEF Next, Pool, View, Look, OpenTS,
     CloseTS, Join, Fetch, Release, Evict, vars

\* Every step keeps the types and the segments that goroutines work on.
LEMMA TypeStep ==
  ASSUME TypeOK, Targets, TokenAccounting, [Next]_vars PROVE TypeOK' /\ Targets'
<1> USE DEF TypeOK, Targets
<1>1. sem' \in Nat
  <2>1. (IsFiniteSet(Holders) /\ Cardinality(Holders) \in Nat)'
    BY HoldersFinite, PTL
  <2> QED
    BY <2>1, TokenStep DEF TokenAccounting
<1>2. ASSUME NEW s \in Schedulers, Schedule(s) PROVE TypeOK' /\ Targets'
  BY <1>2, ListingsAreLinks DEF Schedule
<1>3. ASSUME NEW s \in Schedulers, Check(s) PROVE TypeOK' /\ Targets'
  <2>1. sched[s].todo # <<>> => sched[s].todo \in Seq(Segments) /\ Tail(sched[s].todo) \in Seq(Segments)
    BY WalkFacts
  <2>2. \/ sched' = Return(s)
        \/ sched[s].todo # <<>> /\ sched' \in {Skip(s), [sched EXCEPT ![s].step = "acquire"]}
    BY <1>3 DEF Check
  <2>3. TypeOK'
    BY <1>3, <2>1, <2>2 DEF Check, Return, Skip
  <2>4. Targets'
    BY <1>3, <2>2 DEF Check, Return, Skip
  <2> QED
    BY <2>3, <2>4
<1>4. ASSUME NEW s \in Schedulers, Acquire(s) PROVE TypeOK' /\ Targets'
  <2>1. sem' \in 0..PrefetchConcurrency
    BY <1>1, <1>4, PoolSize DEF Acquire
  <2>2. sched[s].step = "acquire" /\ UNCHANGED <<cached, pf, worker, viewer, inflight>>
    BY <1>4 DEF Acquire
  <2>3. CASE sched' = [sched EXCEPT ![s].step = "claim"]
    BY <2>1, <2>2, <2>3
  <2>4. CASE sched' = [sched EXCEPT ![s] = [step |-> "idle", todo |-> <<>>]]
    <3>1. <<>> \in Seq(Segments)
      OBVIOUS
    <3> QED
      BY <2>1, <2>2, <2>4, <3>1
  <2> QED
    BY <1>4, <2>3, <2>4 DEF Acquire, Return
<1>5. ASSUME NEW s \in Schedulers, NEW w \in Workers, Claim(s, w) PROVE TypeOK' /\ Targets'
  BY <1>5, WalkFacts DEF Claim, Skip
<1>6. ASSUME NEW s \in Schedulers, GiveBack(s) PROVE TypeOK' /\ Targets'
  <2>1. Tail(sched[s].todo) \in Seq(Segments)
    BY <1>6, WalkFacts DEF GiveBack
  <2>2. sem' \in 0..PrefetchConcurrency
    BY <1>1, <1>6, PoolSize DEF GiveBack
  <2> QED
    BY <1>6, <2>1, <2>2 DEF GiveBack, Skip
<1>7. ASSUME NEW w \in Workers, Warm(w) \/ EndPrefetch(w) PROVE TypeOK' /\ Targets'
  <2>1. PICK step \in {"end", "token"} : worker' = [worker EXCEPT ![w].step = step]
    BY <1>7 DEF Warm, EndPrefetch, Become
  <2>2. /\ cached' \subseteq Segments /\ pf' \subseteq Segments /\ worker[w].step # "idle"
        /\ UNCHANGED <<sem, sched, viewer, inflight>>
    BY <1>7 DEF Warm, EndPrefetch
  <2> QED
    BY <2>1, <2>2
<1>8. ASSUME NEW w \in Workers, ReturnToken(w) PROVE TypeOK' /\ Targets'
  BY <1>1, <1>8, PoolSize DEF ReturnToken, Become
<1>9. ASSUME NEW v \in Viewers, View(v) PROVE TypeOK' /\ Targets'
  <2>1. ASSUME NEW u \in Segments, Look(v, u) PROVE TypeOK' /\ Targets'
    BY <2>1 DEF Look, poolVars
  <2>2. CASE OpenTS(v)
    BY <2>2 DEF OpenTS, See, poolVars
  <2>3. CASE CloseTS(v)
    BY <2>3 DEF CloseTS, See, poolVars
  <2>4. CASE Join(v)
    <3>1. viewer[v].url \in Segments /\ UNCHANGED <<cached, sem, pf, sched, worker>>
      BY <2>4 DEF Join, poolVars
    <3>2. inflight' \in {inflight, [inflight EXCEPT ![viewer[v].url] = v]}
      BY <2>4 DEF Join
    <3>3. PICK step \in {"fetch", "wait"} : viewer' = [viewer EXCEPT ![v].step = step]
      BY <2>4 DEF Join, See
    <3>4. inflight' \in [Segments -> Viewers \union {NoOne}]
      BY <3>1, <3>2
    <3> QED
      BY <3>1, <3>3, <3>4
  <2>5. CASE Fetch(v)
    BY <2>5 DEF Fetch, See, poolVars
  <2>6. CASE Release(v)
    BY <2>6, SMTT(20) DEF Release, poolVars
  <2> QED
    BY <1>9, <2>1, <2>2, <2>3, <2>4, <2>5, <2>6 DEF View
<1>10. ASSUME NEW u \in Segments, Evict(u) PROVE TypeOK' /\ Targets'
  BY <1>10 DEF Evict, poolVars
<1>11. CASE UNCHANGED vars
  BY <1>11 DEF vars, poolVars
<1> QED
  BY <1>2, <1>3, <1>4, <1>5, <1>6, <1>7, <1>8, <1>9, <1>10, <1>11 DEF Next, Pool

\* Every step keeps the claims in pf those of the goroutines that warm, and no
\* two of them on one link.
LEMMA ClaimStep ==
  ASSUME TypeOK, Targets, OneWarmPerSegment, [Next]_vars PROVE OneWarmPerSegment'
<1> USE DEF TypeOK
<1>1. ASSUME UNCHANGED <<pf, worker>> PROVE OneWarmPerSegment'
  BY <1>1 DEF OneWarmPerSegment
<1>2. ASSUME NEW s \in Schedulers, NEW w \in Workers, Claim(s, w) PROVE OneWarmPerSegment'
  <2>1. worker' = [worker EXCEPT ![w] = [step |-> "warm", url |-> NextLink(s)]]
        /\ pf' = pf \union {NextLink(s)} /\ NextLink(s) \notin pf /\ worker[w].step = "idle"
    BY <1>2 DEF Claim
  <2> QED
    BY <2>1 DEF OneWarmPerSegment
<1>3. ASSUME NEW w \in Workers, Warm(w) PROVE OneWarmPerSegment'
  <2>1. worker' = [worker EXCEPT ![w].step = "end"] /\ pf' = pf /\ worker[w].step = "warm"
    BY <1>3 DEF Warm, Become
  <2> QED
    BY <2>1 DEF OneWarmPerSegment
<1>4. ASSUME NEW w \in Workers, EndPrefetch(w) PROVE OneWarmPerSegment'
  <2>1. /\ worker' = [worker EXCEPT ![w].step = "token"] /\ pf' = pf \ {worker[w].url}
        /\ worker[w].step = "end"
    BY <1>4 DEF EndPrefetch, Become
  <2> QED
    BY <2>1 DEF OneWarmPerSegment
<1>5. ASSUME NEW w \in Workers, ReturnToken(w) PROVE OneWarmPerSegment'
  <2>1. worker' = [worker EXCEPT ![w].step = "idle"] /\ pf' = pf /\ worker[w].step = "token"
    BY <1>5 DEF ReturnToken, Become
  <2> QED
    BY <2>1 DEF OneWarmPerSegment
<1> QED
  BY <1>1, <1>2, <1>3, <1>4, <1>5 DEF Next, Pool, Schedule, Check, Acquire, GiveBack,
     View, Look, OpenTS, CloseTS, Join, Fetch, Release, Evict, vars, poolVars

\* Every step keeps the leaders of the calls in the inflight map.
LEMMA FlightStep ==
  ASSUME TypeOK, Targets, Flights, [Next]_vars PROVE Flights'
<1> USE DEF TypeOK, Flights
<1>1. ASSUME UNCHANGED <<viewer, inflight>> PROVE Flights'
  BY <1>1
<1>2. ASSUME NEW v \in Viewers, NEW u \in Segments, Look(v, u) PROVE Flights'
  BY <1>2 DEF Look
<1>3. ASSUME NEW v \in Viewers, OpenTS(v) PROVE Flights'
  BY <1>3 DEF OpenTS, See
<1>4. ASSUME NEW v \in Viewers, CloseTS(v) PROVE Flights'
  BY <1>4 DEF CloseTS, See
<1>5. ASSUME NEW v \in Viewers, Join(v) PROVE Flights'
  <2>1. viewer[v].url \in Segments
    BY <1>5 DEF Join, Targets
  <2>2. CASE inflight[viewer[v].url] = NoOne
    <3>1. \A x \in Viewers :
            viewer[x].step \in {"fetch", "release"} => viewer[x].url # viewer[v].url
      BY <2>2, NoOneIsNoViewer
    <3>2. /\ inflight' = [inflight EXCEPT ![viewer[v].url] = v]
          /\ viewer' = [viewer EXCEPT ![v].step = "fetch"]
      BY <1>5, <2>2 DEF Join, See
    <3> QED
      BY <2>1, <3>1, <3>2
  <2>3. CASE inflight[viewer[v].url] # NoOne
    BY <1>5, <2>3 DEF Join, See
  <2> QED
    BY <2>2, <2>3
<1>6. ASSUME NEW v \in Viewers, Fetch(v) PROVE Flights'
  BY <1>6 DEF Fetch, See
<1>7. ASSUME NEW v \in Viewers, Release(v) PROVE Flights'
  BY <1>7 DEF Release, Targets
<1> QED
  BY <1>1, <1>2, <1>3, <1>4, <1>5, <1>6, <1>7 DEF Next, Pool, Schedule, Check, Acquire,
     GiveBack, Claim, Warm, EndPrefetch, ReturnToken, View, Evict, vars

-----------------------------------------------------------------------------
\* The invariant holds at first.
LEMMA InitInv == Init => Inv
<1> SUFFICES ASSUME Init PROVE Inv
  OBVIOUS
<1>1. TypeOK
  BY PoolSize DEF Init, TypeOK
<1>2. Targets /\ OneWarmPerSegment /\ Flights
  BY DEF Init, Targets, OneWarmPerSegment, Flights
<1>3. Holders = {}
  BY DEF Init, Holders
<1>4. TokenAccounting
  BY <1>3, FS_EmptySet DEF Init, TokenAccounting
<1> QED
  BY <1>1, <1>2, <1>4 DEF Inv

\* It holds for ever.
LEMMA InvHolds == Spec => []Inv
<1>1. Inv /\ [Next]_vars => Inv'
  BY TokenStep, TypeStep, ClaimStep, FlightStep DEF Inv
<1> QED
  BY InitInv, <1>1, PTL DEF Spec

\* The state of the prefetch pool and of the viewers always has its type.
THEOREM TypeCorrect == Spec => []TypeOK
<1>1. Inv => TypeOK
  BY DEF Inv
<1> QED
  BY <1>1, InvHolds, PTL

\* No path through schedulePrefetch and its goroutines loses a token of the
\* channel or returns one twice.
THEOREM TokensAccounted == Spec => []TokenAccounting
<1>1. Inv => TokenAccounting
  BY DEF Inv
<1> QED
  BY <1>1, InvHolds, PTL

\* schedulePrefetch never has more than prefetchConcurrency warm-ups running.
THEOREM PoolBounded == Spec => []WarmLimit
<1>1. Inv => WarmLimit
  <2> SUFFICES ASSUME Inv PROVE WarmLimit
    OBVIOUS
  <2>1. Warming \in SUBSET Holders
    BY DEF Warming, Holders
  <2>2. Cardinality(Warming) <= Cardinality(Holders) /\ Cardinality(Warming) \in Nat
    BY <2>1, HoldersFinite, FS_Subset, FS_CardinalityType
  <2> QED
    BY <2>2, HoldersFinite, PoolSize DEF Inv, TypeOK, TokenAccounting, WarmLimit
<1> QED
  BY <1>1, InvHolds, PTL

\* Types, tokens and the limit together: the pool neither leaks nor grows.
THEOREM PoolSound == Spec => []PoolOK
<1>1. TypeOK /\ TokenAccounting /\ WarmLimit => PoolOK
  BY DEF PoolOK
<1> QED
  BY <1>1, TypeCorrect, TokensAccounted, PoolBounded, PTL

\* The pf set names the links being warmed, each by one goroutine.
THEOREM WarmedOnce == Spec => []OneWarmPerSegment
<1>1. Inv => OneWarmPerSegment
  BY DEF Inv
<1> QED
  BY <1>1, InvHolds, PTL

\* A set whose elements are all one of two has at most two.
LEMMA AtMostTwo ==
  ASSUME NEW S, NEW a, NEW b, S \subseteq {a, b} PROVE Cardinality(S) <= 2
<1>1. IsFiniteSet({a}) /\ Cardinality({a}) = 1
  BY FS_Singleton
<1>2. IsFiniteSet({a} \union {b}) /\ Cardinality({a} \union {b}) <= 2
  BY <1>1, FS_AddElement
<1>3. S \in SUBSET ({a} \union {b})
  OBVIOUS
<1> QED
  BY <1>2, <1>3, FS_Subset, FS_CardinalityType

\* However many viewers and playlists want a segment that is not streamed, the
\* upstream is asked for it at most twice at a time.
THEOREM FanoutBounded == Spec => []BoundedFanout
<1>1. Inv => BoundedFanout
  <2> SUFFICES ASSUME Inv, NEW u \in Segments \ TsLinks PROVE Cardinality(Fetching(u)) <= 2
    BY DEF BoundedFanout
  <2> DEFINE warmer == CHOOSE w \in Workers : worker[w] = [step |-> "warm", url |-> u]
  <2>1. ASSUME NEW w \in Workers, worker[w] = [step |-> "warm", url |-> u] PROVE w = warmer
    <3>1. warmer \in Workers /\ worker[warmer] = [step |-> "warm", url |-> u]
      BY <2>1
    <3> HIDE DEF warmer
    <3> QED
      BY <2>1, <3>1 DEF Inv, OneWarmPerSegment
  <2>2. ASSUME NEW v \in Viewers, viewer[v].url = u, viewer[v].step \in {"stream", "fetch"}
        PROVE  v = inflight[u]
    BY <2>2 DEF Inv, Flights
  <2>3. Fetching(u) \subseteq {warmer, inflight[u]}
    <3> HIDE DEF warmer
    <3> QED
      BY <2>1, <2>2 DEF Fetching
  <2> QED
    BY <2>3, AtMostTwo
<1> QED
  BY <1>1, InvHolds, PTL

-----------------------------------------------------------------------------
(* The buffer monitor.                                                     *)

Has(q, e) == \E i \in 1 .. Len(q) : q[i] = e
TwoPauses(q) == \E i, j \in 1 .. Len(q) : i < j /\ q[i] = "pause" /\ q[j] = "pause"

\* The counters of a refill that goes on are below its limits.
Counters == still <= waited /\ (filling => waited <= MaxWait)

\* An interval without a refill will be cleared by a playing event.
TimerCleared == bufTimer /\ ~filling => Has(video.events, "playing")

\* The pause event that autoPaused waits for is queued, the user's behind it.
OwnPauseQueued ==
  /\ autoPaused => Has(video.events, "pause")
  /\ autoPaused /\ video.paused /\ video.by = "user" => TwoPauses(video.events)

\* A pause of the user's ends the refill, if it has not done so yet.
UserStopped ==
  video.paused /\ video.by = "user" => Has(video.events, "pause") \/ ~filling

\* The monitor stopped the playhead with no older event in the way.
MonitorHolds ==
  video.paused /\ video.by = "monitor" /\ ~video.raced =>
    /\ filling
    /\ ~Has(video.events, "playing") /\ ~TwoPauses(video.events)
    /\ Has(video.events, "pause") => autoPaused

BufferInv == BufferTypeOK /\ Counters /\ FillingIsWatched /\ TimerCleared /\ OwnPauseQueued
       /\ UserStopped /\ MonitorHolds

-----------------------------------------------------------------------------
(* A queue that gets an event. *)
LEMMA Appended ==
  ASSUME NEW q \in Seq(Events), NEW e \in Events
  PROVE  /\ Append(q, e) \in Seq(Events)
         /\ \A k : Has(Append(q, e), k) <=> Has(q, k) \/ k = e
         /\ TwoPauses(q) => TwoPauses(Append(q, e))
         /\ Has(q, "pause") /\ e = "pause" => TwoPauses(Append(q, e))
         /\ TwoPauses(Append(q, e)) => TwoPauses(q) \/ (Has(q, "pause") /\ e = "pause")
<1> DEFINE a == Append(q, e)
<1>1. a \in Seq(Events) /\ Len(a) = Len(q) + 1 /\ Len(q) \in Nat
  OBVIOUS
<1>2. \A i \in 1 .. Len(q) : a[i] = q[i]
  OBVIOUS
<1>3. a[Len(q) + 1] = e
  OBVIOUS
<1> HIDE DEF a
<1>4. \A k : Has(a, k) <=> Has(q, k) \/ k = e
  BY <1>1, <1>2, <1>3 DEF Has
<1>5. TwoPauses(q) => TwoPauses(a)
  BY <1>1, <1>2 DEF TwoPauses
<1>6. Has(q, "pause") /\ e = "pause" => TwoPauses(a)
  BY <1>1, <1>2, <1>3 DEF TwoPauses, Has
<1>7. TwoPauses(a) => TwoPauses(q) \/ (Has(q, "pause") /\ e = "pause")
  BY <1>1, <1>2, <1>3 DEF TwoPauses, Has
<1> QED
  BY <1>1, <1>4, <1>5, <1>6, <1>7 DEF a

(* A queue whose first event is handled. *)
LEMMA Removed ==
  ASSUME NEW q \in Seq(Events), q # <<>>
  PROVE  /\ Tail(q) \in Seq(Events) /\ Head(q) \in Events
         /\ \A k : Has(q, k) <=> Head(q) = k \/ Has(Tail(q), k)
         /\ TwoPauses(q) => Has(Tail(q), "pause")
         /\ TwoPauses(q) /\ Head(q) # "pause" => TwoPauses(Tail(q))
         /\ TwoPauses(Tail(q)) => TwoPauses(q)
         /\ Head(q) = "pause" /\ Has(Tail(q), "pause") => TwoPauses(q)
<1> DEFINE t == Tail(q)
<1>1. /\ t \in Seq(Events) /\ Len(t) = Len(q) - 1 /\ Len(q) \in Nat \ {0}
      /\ Head(q) = q[1] /\ Head(q) \in Events
  OBVIOUS
<1>2. \A i \in 1 .. Len(q) - 1 : t[i] = q[i + 1]
  OBVIOUS
<1> HIDE DEF t
<1>3. \A i \in 2 .. Len(q) : i - 1 \in 1 .. Len(t) /\ t[i - 1] = q[i]
  BY <1>1, <1>2
<1>4. \A k : Has(q, k) <=> Head(q) = k \/ Has(t, k)
  <2> TAKE k
  <2>1. Has(q, k) => Head(q) = k \/ Has(t, k)
    <3> SUFFICES ASSUME NEW i \in 1 .. Len(q), q[i] = k, i # 1 PROVE Has(t, k)
      BY <1>1 DEF Has
    <3>1. i \in 2 .. Len(q)
      BY <1>1
    <3>2. i - 1 \in 1 .. Len(t) /\ t[i - 1] = k
      BY <1>3, <3>1
    <3> QED BY <3>2 DEF Has
  <2>2. Has(t, k) => Has(q, k)
    <3> SUFFICES ASSUME NEW i \in 1 .. Len(t), t[i] = k PROVE Has(q, k)
      BY DEF Has
    <3>1. i \in 1 .. Len(q) - 1 /\ i + 1 \in 1 .. Len(q)
      BY <1>1
    <3>2. q[i + 1] = k
      BY <1>2, <3>1
    <3> QED BY <3>1, <3>2 DEF Has
  <2>3. Head(q) = k => Has(q, k)
    BY <1>1 DEF Has
  <2> QED BY <2>1, <2>2, <2>3
<1>5. TwoPauses(q) => Has(t, "pause")
  <2> SUFFICES ASSUME NEW i \in 1 .. Len(q), NEW j \in 1 .. Len(q), i < j, q[j] = "pause"
               PROVE  Has(t, "pause")
    BY DEF TwoPauses
  <2>1. j \in 2 .. Len(q)
    BY <1>1
  <2>2. j - 1 \in 1 .. Len(t) /\ t[j - 1] = "pause"
    BY <1>3, <2>1
  <2> QED BY <2>2 DEF Has
<1>6. TwoPauses(q) /\ Head(q) # "pause" => TwoPauses(t)
  <2> SUFFICES ASSUME NEW i \in 1 .. Len(q), NEW j \in 1 .. Len(q), i < j,
                      q[i] = "pause", q[j] = "pause", i # 1
               PROVE  TwoPauses(t)
    BY <1>1 DEF TwoPauses
  <2>1. i - 1 < j - 1 /\ i \in 2 .. Len(q) /\ j \in 2 .. Len(q)
    BY <1>1
  <2>2. /\ i - 1 \in 1 .. Len(t) /\ t[i - 1] = "pause"
        /\ j - 1 \in 1 .. Len(t) /\ t[j - 1] = "pause"
    BY <1>3, <2>1
  <2> QED BY <2>1, <2>2 DEF TwoPauses
<1>7. TwoPauses(t) => TwoPauses(q)
  <2> SUFFICES ASSUME NEW i \in 1 .. Len(t), NEW j \in 1 .. Len(t), i < j,
                      t[i] = "pause", t[j] = "pause"
               PROVE  TwoPauses(q)
    BY DEF TwoPauses
  <2>1. /\ i + 1 \in 1 .. Len(q) /\ j + 1 \in 1 .. Len(q) /\ i + 1 < j + 1
        /\ i \in 1 .. Len(q) - 1 /\ j \in 1 .. Len(q) - 1
    BY <1>1
  <2>2. q[i + 1] = "pause" /\ q[j + 1] = "pause"
    BY <1>2, <2>1
  <2> QED BY <2>1, <2>2 DEF TwoPauses
<1>8. Head(q) = "pause" /\ Has(t, "pause") => TwoPauses(q)
  <2> SUFFICES ASSUME Head(q) = "pause", NEW i \in 1 .. Len(t), t[i] = "pause"
               PROVE  TwoPauses(q)
    BY DEF Has
  <2>1. /\ i \in 1 .. Len(q) - 1
        /\ 1 < i + 1 /\ 1 \in 1 .. Len(q) /\ i + 1 \in 1 .. Len(q)
    BY <1>1
  <2>2. q[1] = "pause" /\ q[i + 1] = "pause"
    BY <1>1, <1>2, <2>1
  <2> QED BY <2>1, <2>2 DEF TwoPauses
<1> QED
  BY <1>1, <1>4, <1>5, <1>6, <1>7, <1>8 DEF t

(* The empty queue. *)
LEMMA NoEvents ==
  <<>> \in Seq(Events) /\ (\A k : ~Has(<<>>, k)) /\ ~TwoPauses(<<>>)
BY DEF Has, TwoPauses

-----------------------------------------------------------------------------
(* What play() and pause() do to the element and its queue. *)
LEMMA Queued ==
  ASSUME NEW v \in Video, NEW e \in Events
  PROVE  LET w == Queue(v, e)
         IN /\ w \in Video /\ w.events = Append(v.events, e)
            /\ w.paused = v.paused /\ w.by = v.by /\ w.raced = v.raced
<1>1. Append(v.events, e) \in Seq(Events)
  BY Appended DEF Video
<1> QED
  BY <1>1 DEF Queue, Video

LEMMA Played ==
  ASSUME NEW v \in Video
  PROVE  LET w == PlayVideo(v)
         IN /\ w \in Video /\ ~w.paused
            /\ \A k : Has(v.events, k) => Has(w.events, k)
            /\ TwoPauses(v.events) => TwoPauses(w.events)
            /\ v.paused /\ v.ahead # 0 => Has(w.events, "playing")
<1> DEFINE e == IF v.ahead = 0 THEN "waiting" ELSE "playing"
<1>1. e \in Events /\ v.events \in Seq(Events)
  BY DEF Events, Video
<1>2. CASE v.paused
  <2>1. PlayVideo(v) = [v EXCEPT !.paused = FALSE, !.by = "nobody", !.raced = FALSE,
                                 !.events = Append(v.events, e)]
    BY <1>2 DEF PlayVideo, Queue, Video
  <2>2. Append(v.events, e) \in Seq(Events)
    BY <1>1, Appended
  <2>3. PlayVideo(v) \in Video /\ ~PlayVideo(v).paused
        /\ PlayVideo(v).events = Append(v.events, e)
    BY <2>1, <2>2 DEF Video
  <2>4. v.ahead # 0 => e = "playing"
    OBVIOUS
  <2> HIDE DEF e
  <2> QED
    BY <2>3, <2>4, <1>1, Appended
<1>3. CASE ~v.paused
  BY <1>3 DEF PlayVideo
<1> QED
  BY <1>2, <1>3 DEF Video

LEMMA Paused ==
  ASSUME NEW v \in Video, NEW who \in {"user", "monitor"}, ~v.paused
  PROVE  LET w == PauseVideo(v, who)
         IN /\ w \in Video /\ w.paused /\ w.by = who /\ w.ahead = v.ahead
            /\ Has(w.events, "pause")
            /\ \A k : Has(v.events, k) => Has(w.events, k)
            /\ Has(v.events, "pause") => TwoPauses(w.events)
            /\ ~w.raced => ~Has(w.events, "playing") /\ ~TwoPauses(w.events)
<1> DEFINE r == \E e \in ToSet(v.events) : e \in {"playing", "pause"}
           w == PauseVideo(v, who)
<1>1. "pause" \in Events /\ v.events \in Seq(Events)
  BY DEF Events, Video
<1>2. w = [v EXCEPT !.paused = TRUE, !.by = who, !.raced = r,
                    !.events = Append(v.events, "pause")]
  BY DEF PauseVideo, Queue, Video
<1>3. Append(v.events, "pause") \in Seq(Events)
  BY <1>1, Appended
<1>4. w \in Video /\ w.paused /\ w.by = who /\ w.ahead = v.ahead
      /\ w.events = Append(v.events, "pause") /\ (w.raced <=> r)
  BY <1>2, <1>3 DEF Video
<1>5. ~r => ~Has(v.events, "playing") /\ ~Has(v.events, "pause")
  <2> SUFFICES ASSUME NEW i \in 1 .. Len(v.events), v.events[i] \in {"playing", "pause"} PROVE r
    BY DEF Has
  <2>1. v.events[i] \in ToSet(v.events)
    BY <1>1 DEF ToSet
  <2> QED BY <2>1
<1> HIDE DEF r, w
<1>6. TwoPauses(v.events) => Has(v.events, "pause")
  BY DEF TwoPauses, Has
<1> QED
  BY <1>1, <1>4, <1>5, <1>6, Appended DEF w

-----------------------------------------------------------------------------
LEMMA BufferInitInv == BufferInit => BufferInv
<1> SUFFICES ASSUME BufferInit PROVE BufferInv
  OBVIOUS
<1>1. video \in Video /\ video.by = "nobody"
  BY NoEvents, MonitorAssumption DEF BufferInit, Video
<1>2. BufferTypeOK
  <2>1. 0 \in 0 .. MaxWait + 1 /\ 0 \in 0 .. FillTarget
    BY MonitorAssumption
  <2> QED BY <1>1, <2>1 DEF BufferInit, BufferTypeOK
<1> QED
  BY <1>1, <1>2, MonitorAssumption DEF BufferInit, BufferInv, Counters,
     FillingIsWatched, TimerCleared, OwnPauseQueued, UserStopped, MonitorHolds

(* An action that leaves the monitor and the screen's channel alone and    *)
(* adds to the queue an event that is no pause, or none; a playing event   *)
(* only when the element is not paused.                                    *)
LEMMA Outside ==
  ASSUME BufferInv, UNCHANGED monitor,
         NEW e \in Events \ {"pause"}, video' \in Video,
         video'.events \in {video.events, Append(video.events, e)},
         video'.paused = video.paused, video'.by = video.by, video'.raced = video.raced,
         e = "playing" => ~video.paused,
         cell' \in {"empty", "loading", "playing", "error"},
         cell' = "empty" => cell = "empty"
  PROVE  BufferInv'
<1>1. video.events \in Seq(Events) /\ video \in Video
  BY DEF BufferInv, BufferTypeOK, Video
<1>2. \A k : Has(video'.events, k) <=> Has(video.events, k) \/ (k = e /\ video'.events # video.events)
  <2>1. CASE video'.events = video.events
    BY <2>1
  <2>2. CASE video'.events # video.events
    <3>1. video'.events = Append(video.events, e)
      BY <2>2
    <3> QED BY <1>1, <2>2, <3>1, Appended
  <2> QED BY <2>1, <2>2
<1>3. TwoPauses(video'.events) <=> TwoPauses(video.events)
  <2>1. CASE video'.events = video.events
    BY <2>1
  <2>2. CASE video'.events = Append(video.events, e)
    BY <1>1, <2>2, Appended
  <2> QED BY <2>1, <2>2
<1>4. BufferTypeOK' /\ Counters' /\ FillingIsWatched'
  BY DEF BufferInv, BufferTypeOK, Counters, FillingIsWatched, monitor
<1>5. TimerCleared' /\ OwnPauseQueued' /\ UserStopped'
  BY <1>2, <1>3 DEF BufferInv, TimerCleared, OwnPauseQueued, UserStopped, monitor
<1>6. MonitorHolds'
  BY <1>2, <1>3 DEF BufferInv, MonitorHolds, monitor
<1> QED
  BY <1>4, <1>5, <1>6 DEF BufferInv

(* play() with the monitor at rest or still filling. *)
LEMMA PlayedKeeps ==
  ASSUME BufferInv, UNCHANGED monitor, video' = PlayVideo(video),
         cell' \in {"empty", "loading", "playing", "error"},
         cell' = "empty" => cell = "empty"
  PROVE  BufferInv'
<1>1. video \in Video
  BY DEF BufferInv, BufferTypeOK
<1> QED
  BY <1>1, Played DEF BufferInv, BufferTypeOK, Counters, FillingIsWatched, TimerCleared,
     OwnPauseQueued, UserStopped, MonitorHolds, monitor

(* load() with the refill abandoned. *)
LEMMA LoadedKeeps ==
  ASSUME BufferInv, HideBuffering, video' = LoadVideo(video),
         cell' \in {"empty", "loading", "playing", "error"}
  PROVE  BufferInv'
<1>1. video' \in Video /\ video'.by = "nobody" /\ video'.events = <<>>
  BY NoEvents, MonitorAssumption DEF LoadVideo, Video
<1> QED
  BY <1>1 DEF HideBuffering, BufferInv, BufferTypeOK, Counters, FillingIsWatched,
     TimerCleared, OwnPauseQueued, UserStopped, MonitorHolds

(* The first event taken from the queue, and nothing else done. *)
LEMMA TakenOff ==
  ASSUME BufferInv, video.events # <<>>
  PROVE  /\ Handled \in Video /\ Handled.events = Tail(video.events)
         /\ Handled.paused = video.paused /\ Handled.by = video.by
         /\ Handled.raced = video.raced /\ Handled.ahead = video.ahead
<1>1. video \in Video /\ Tail(video.events) \in Seq(Events)
  BY Removed DEF BufferInv, BufferTypeOK, Video
<1> QED
  BY <1>1 DEF Handled, Video

LEMMA StallKeeps ==
  ASSUME BufferInv, OnStall PROVE BufferInv'
<1> DEFINE q == video.events
<1>1. q \in Seq(Events) /\ q # <<>> /\ Head(q) \in {"waiting", "stalled"}
  BY DEF BufferInv, BufferTypeOK, Video, OnStall, HeadIs
<1>2. /\ \A k \in {"playing", "pause"} : Has(q, k) <=> Has(Tail(q), k)
      /\ TwoPauses(q) <=> TwoPauses(Tail(q))
  BY <1>1, Removed
<1>3. CASE video' = Handled /\ UNCHANGED monitor
  BY <1>1, <1>2, <1>3, TakenOff DEF OnStall, BufferInv, BufferTypeOK, Counters,
     FillingIsWatched, TimerCleared, OwnPauseQueued, UserStopped, MonitorHolds, monitor
<1>4. CASE ~(filling \/ cell \in {"empty", "loading"}) /\ (~video.paused \/ autoPaused)
           /\ StartFilling(Handled)
  <2> DEFINE held == PauseVideo(Handled, "monitor")
  <2>1. /\ waited' = 0 /\ still' = 0 /\ bestAhead' = video.ahead
        /\ bufTimer' = TRUE /\ filling' = ~Enough /\ autoPaused' = ~Enough
        /\ video' = IF Enough THEN PlayVideo(held) ELSE held
        /\ cell' = cell
    BY <1>1, <1>4, TakenOff DEF StartFilling, OnStall
  <2>2. /\ held \in Video /\ held.paused /\ Has(held.events, "pause")
        /\ held.ahead = video.ahead
        /\ held.by = "user" => autoPaused /\ TwoPauses(held.events)
        /\ held.by = "monitor" /\ ~held.raced =>
              ~Has(held.events, "playing") /\ ~TwoPauses(held.events)
    <3>1. CASE ~video.paused
      BY <1>1, <3>1, TakenOff, Paused
    <3>2. CASE video.paused
      <4>1. held = Handled /\ autoPaused
        BY <1>1, <1>4, <3>2, TakenOff DEF PauseVideo
      <4>2. Has(q, "pause") /\ (video.by = "user" => TwoPauses(q))
        BY <3>2, <4>1 DEF BufferInv, OwnPauseQueued
      <4>3. video.by = "monitor" => video.raced
        BY <1>4, <3>2 DEF BufferInv, MonitorHolds
      <4> QED BY <1>1, <1>2, <3>2, <4>1, <4>2, <4>3, TakenOff
    <3> QED BY <3>1, <3>2
  <2> HIDE DEF held
  <2>3. CASE Enough
    <3>1. video.ahead # 0
      BY <2>3, MonitorAssumption DEF Enough
    <3>2. video' \in Video /\ ~video'.paused /\ Has(video'.events, "playing")
      BY <2>1, <2>2, <2>3, <3>1, Played
    <3> QED
      BY <2>1, <2>3, <3>2, <1>4, MonitorAssumption DEF BufferInv, BufferTypeOK, Video,
         Counters, FillingIsWatched, TimerCleared, OwnPauseQueued, UserStopped,
         MonitorHolds
  <2>4. CASE ~Enough
    BY <2>1, <2>2, <2>4, <1>4, MonitorAssumption DEF BufferInv, BufferTypeOK, Video,
       Counters, FillingIsWatched, TimerCleared, OwnPauseQueued, UserStopped,
       MonitorHolds
  <2> QED BY <2>3, <2>4
<1> QED
  BY <1>3, <1>4 DEF OnStall, StartFilling

LEMMA PlayingKeeps ==
  ASSUME BufferInv, OnPlaying PROVE BufferInv'
<1> DEFINE q == video.events
<1>1. q \in Seq(Events) /\ q # <<>> /\ Head(q) = "playing"
  BY DEF BufferInv, BufferTypeOK, Video, OnPlaying, HeadIs
<1>2. /\ Has(q, "pause") <=> Has(Tail(q), "pause")
      /\ TwoPauses(q) => TwoPauses(Tail(q))
      /\ Has(q, "playing")
  BY <1>1, Removed
<1> QED
  BY <1>1, <1>2, TakenOff DEF OnPlaying, BufferInv, BufferTypeOK, Counters,
     FillingIsWatched, TimerCleared, OwnPauseQueued, UserStopped, MonitorHolds

LEMMA PauseKeeps ==
  ASSUME BufferInv, OnPause PROVE BufferInv'
<1> DEFINE q == video.events
<1>1. q \in Seq(Events) /\ q # <<>> /\ Head(q) = "pause"
  BY DEF BufferInv, BufferTypeOK, Video, OnPause, HeadIs
<1>2. /\ Has(q, "playing") <=> Has(Tail(q), "playing")
      /\ TwoPauses(q) <=> Has(Tail(q), "pause")
      /\ TwoPauses(Tail(q)) => TwoPauses(q)
      /\ Has(q, "pause")
  BY <1>1, Removed
<1>3. CASE autoPaused
  BY <1>1, <1>2, <1>3, TakenOff DEF OnPause, BufferInv, BufferTypeOK, Counters,
     FillingIsWatched, TimerCleared, OwnPauseQueued, UserStopped, MonitorHolds
<1>4. CASE ~autoPaused
  BY <1>1, <1>2, <1>4, TakenOff DEF OnPause, HideBuffering, BufferInv, BufferTypeOK,
     Counters, FillingIsWatched, TimerCleared, OwnPauseQueued, UserStopped, MonitorHolds
<1> QED BY <1>3, <1>4

LEMMA TickKeeps ==
  ASSUME BufferInv, Tick PROVE BufferInv'
<1>1. video \in Video
  BY DEF BufferInv, BufferTypeOK
<1>2. CASE ~filling
  BY <1>2 DEF Tick, BufferInv, BufferTypeOK, Counters, FillingIsWatched, TimerCleared,
     OwnPauseQueued, UserStopped, MonitorHolds, monitor
<1>3. CASE filling
  <2>1. /\ waited' = waited + 1 /\ still' \in {0, still + 1}
        /\ bestAhead' \in {video.ahead, bestAhead}
        /\ cell' = cell
    BY <1>3 DEF Tick
  <2>2. /\ waited' \in 0 .. MaxWait + 1 /\ still' \in 0 .. MaxWait + 1 /\ still' <= waited'
        /\ bestAhead' \in 0 .. FillTarget
    BY <1>3, <2>1, MonitorAssumption DEF BufferInv, BufferTypeOK, Video, Counters
  <2>3. CASE filling'
    <3>1. waited + 1 <= MaxWait /\ UNCHANGED <<video, filling, autoPaused, bufTimer>>
      <4>1. ~(filling' = FALSE)
        BY <2>3
      <4>2. ~(waited + 1 > MaxWait) /\ UNCHANGED <<video, filling, autoPaused, bufTimer>>
        BY <1>3, <4>1 DEF Tick
      <4> QED
        BY <4>2, MonitorAssumption DEF BufferInv, BufferTypeOK
    <3> QED
      BY <1>3, <2>1, <2>2, <3>1 DEF BufferInv, BufferTypeOK, Counters, FillingIsWatched,
         TimerCleared, OwnPauseQueued, UserStopped, MonitorHolds
  <2>4. CASE ~filling'
    <3>1. /\ autoPaused' = FALSE /\ bufTimer' = FALSE /\ filling' = FALSE
          /\ video' = PlayVideo(video)
      BY <1>3, <2>4 DEF Tick
    <3> QED
      BY <1>1, <2>1, <2>2, <2>4, <3>1, Played DEF BufferInv, BufferTypeOK, Counters,
         FillingIsWatched, TimerCleared, OwnPauseQueued, UserStopped, MonitorHolds
  <2> QED BY <2>3, <2>4
<1> QED BY <1>2, <1>3

LEMMA NextKeeps == BufferInv /\ [BufferNext]_bufferVars => BufferInv'
<1> SUFFICES ASSUME BufferInv, [BufferNext]_bufferVars PROVE BufferInv'
  OBVIOUS
<1>0. video \in Video /\ video.events \in Seq(Events)
      /\ cell \in {"empty", "loading", "playing", "error"}
  BY DEF BufferInv, BufferTypeOK, Video
<1>1. CASE OnStall
  BY <1>1, StallKeeps
<1>2. CASE OnPlaying
  BY <1>2, PlayingKeeps
<1>3. CASE OnPause
  BY <1>3, PauseKeeps
<1>4. CASE Tick
  BY <1>4, TickKeeps
<1>5. CASE Click
  <2>1. CASE video.paused
    BY <1>0, <1>5, <2>1, PlayedKeeps DEF Click
  <2>2. CASE ~video.paused
    BY <1>0, <1>5, <2>2, Paused DEF Click, BufferInv, BufferTypeOK, Counters,
       FillingIsWatched, TimerCleared, OwnPauseQueued, UserStopped, MonitorHolds,
       monitor
  <2> QED BY <2>1, <2>2
<1>6. CASE AssignDynamic
  <2>1. "stalled" \in Events \ {"pause"}
    BY DEF Events
  <2> QED BY <1>0, <1>6, <2>1, Outside DEF AssignDynamic
<1>7. CASE StartPlayback
  BY <1>7, LoadedKeeps DEF StartPlayback
<1>8. CASE OnCellPlaying
  BY <1>8, PlayedKeeps DEF OnCellPlaying
<1>9. CASE OutOfServers
  <2>1. "stalled" \in Events \ {"pause"}
    BY DEF Events
  <2> QED BY <1>0, <1>9, <2>1, Outside DEF OutOfServers
<1>10. CASE ClearCell
  BY <1>10, LoadedKeeps DEF ClearCell
<1>11. CASE Download
  <2> DEFINE more == [video EXCEPT !.ahead = @ + 1]
  <2>1. more \in Video /\ "playing" \in Events \ {"pause"} /\ "stalled" \in Events \ {"pause"}
        /\ more.events = video.events /\ more.paused = video.paused
        /\ more.by = video.by /\ more.raced = video.raced
    BY <1>0, <1>11, MonitorAssumption DEF Download, Video, Events
  <2> HIDE DEF more
  <2>2. CASE video' = more /\ UNCHANGED <<monitor, cell>>
    <3>1. "stalled" # "playing" /\ video'.events = video.events
      BY <2>1, <2>2
    <3> QED BY <1>0, <2>1, <2>2, <3>1, Outside
  <2>3. CASE ~video.paused /\ video' = Queue(more, "playing") /\ UNCHANGED <<monitor, cell>>
    <3>1. /\ video' \in Video /\ video'.events = Append(video.events, "playing")
          /\ video'.paused = video.paused /\ video'.by = video.by /\ video'.raced = video.raced
      BY <2>1, <2>3, Queued
    <3> QED BY <1>0, <2>1, <2>3, <3>1, Outside
  <2> QED BY <1>11, <2>2, <2>3 DEF Download, more
<1>12. CASE Play
  <2> DEFINE less == [video EXCEPT !.ahead = @ - 1]
  <2>1. less \in Video /\ "waiting" \in Events \ {"pause"}
        /\ less.events = video.events /\ less.paused = video.paused
        /\ less.by = video.by /\ less.raced = video.raced
    BY <1>0, <1>12, MonitorAssumption DEF Play, Video, Events
  <2> HIDE DEF less
  <2>2. CASE video' = less /\ UNCHANGED <<monitor, cell>>
    BY <1>0, <2>1, <2>2, Outside
  <2>3. CASE video' = Queue(less, "waiting") /\ UNCHANGED <<monitor, cell>>
    <3>1. /\ video' \in Video /\ video'.events = Append(video.events, "waiting")
          /\ video'.paused = video.paused /\ video'.by = video.by /\ video'.raced = video.raced
      BY <2>1, <2>3, Queued
    <3> QED BY <1>0, <2>1, <2>3, <3>1, Outside
  <2> QED BY <1>12, <2>2, <2>3 DEF Play, less
<1>13. CASE NoProgress
  <2>1. "stalled" \in Events \ {"pause"}
    BY DEF Events
  <2>2. /\ video' \in Video /\ video'.events = Append(video.events, "stalled")
        /\ video'.paused = video.paused /\ video'.by = video.by /\ video'.raced = video.raced
    BY <1>0, <1>13, <2>1, Queued DEF NoProgress
  <2> QED BY <1>0, <1>13, <2>1, <2>2, Outside DEF NoProgress
<1>14. CASE UNCHANGED bufferVars
  BY <1>14 DEF bufferVars, monitor, BufferInv, BufferTypeOK, Counters, FillingIsWatched,
     TimerCleared, OwnPauseQueued, UserStopped, MonitorHolds
<1> QED
  BY <1>1, <1>2, <1>3, <1>4, <1>5, <1>6, <1>7, <1>8, <1>9, <1>10, <1>11, <1>12,
     <1>13, <1>14 DEF BufferNext, Handle

LEMMA BufferInvHolds == BufferSpec => []BufferInv
BY BufferInitInv, NextKeeps, PTL DEF BufferSpec

-----------------------------------------------------------------------------
(* The element's and the monitor's state keep their types; a refill's      *)
(* counters stay within MAX_WAIT, whatever the limits are.                 *)
THEOREM BufferTypeCorrect == BufferSpec => []BufferTypeOK
<1>1. BufferInv => BufferTypeOK
  BY DEF BufferInv
<1> QED BY <1>1, BufferInvHolds, PTL

(* The monitor forgets a playhead it stopped only when an event queued     *)
(* before its pause reached it after it.                                   *)
THEOREM FrozenOnlyThen == BufferSpec => []FrozenOnlyByOlderEvent
<1>1. BufferInv => FrozenOnlyByOlderEvent
  BY NoEvents DEF BufferInv, MonitorHolds, FrozenOnlyByOlderEvent, AtRest
<1> QED BY <1>1, BufferInvHolds, PTL

(* The interval never outlives the refill or the player it was set for.    *)
THEOREM TimerNeverLeaks == BufferSpec => []TimerHasReason
<1>1. BufferInv => TimerHasReason
  BY NoEvents DEF BufferInv, TimerCleared, TimerHasReason, AtRest
<1> QED BY <1>1, BufferInvHolds, PTL

(* A held playhead always has the interval that will release it.           *)
THEOREM RefillsAreWatched == BufferSpec => []FillingIsWatched
<1>1. BufferInv => FillingIsWatched
  BY DEF BufferInv
<1> QED BY <1>1, BufferInvHolds, PTL

(* Types, and the interval neither outlives its refill nor misses it.      *)
THEOREM MonitorSound == BufferSpec => []MonitorOK
<1>1. BufferTypeOK /\ TimerHasReason /\ FillingIsWatched => MonitorOK
  BY DEF MonitorOK
<1> QED BY <1>1, BufferTypeCorrect, TimerNeverLeaks, RefillsAreWatched, PTL

(* A video the user has paused stays paused once the monitor knows.        *)
THEOREM PauseIsTheUsers == BufferSpec => UserPauseKept
<1> DEFINE Kept == video.paused /\ video.by = "user" /\ "pause" \notin ToSet(video.events)
                     /\ (Tick \/ Handle) => video'.paused
<1>1. BufferInv /\ [BufferNext]_bufferVars => [Kept]_bufferVars
  <2> SUFFICES ASSUME BufferInv, video.paused, video.by = "user",
                      "pause" \notin ToSet(video.events), Tick \/ Handle
               PROVE  video'.paused
    OBVIOUS
  <2>1. ~Has(video.events, "pause")
    BY DEF Has, ToSet, BufferInv, BufferTypeOK, Video
  <2>2. ~filling /\ ~autoPaused
    BY <2>1 DEF BufferInv, UserStopped, OwnPauseQueued
  <2>3. CASE Tick
    BY <2>2, <2>3 DEF Tick
  <2>4. CASE Handle
    <3>1. video.events # <<>>
      BY <2>4 DEF Handle, OnStall, OnPlaying, OnPause, HeadIs
    <3>2. video' = Handled
      BY <2>2, <2>4 DEF Handle, OnStall, OnPlaying, OnPause
    <3> QED BY <3>1, <3>2, TakenOff
  <2> QED BY <2>3, <2>4
<1> QED
  BY <1>1, BufferInvHolds, PTL DEF BufferSpec, UserPauseKept
=============================================================================
