------------------------ MODULE PlaylistFetchProofs ------------------------
(***************************************************************************)
(* Proofs about PlaylistFetch, for any set of clients and any              *)
(* time-to-lives: its types, that there is one upstream request at a time, *)
(* that no client is ever answered with an older playlist than before, and *)
(* that it implements LivePlaylist, for which the invariant also bounds    *)
(* what the answer of an open request may be.                              *)
(***************************************************************************)
EXTENDS PlaylistPromise, TLAPS

\* The leader has a playlist and its call is still in the inflight map.
Stored == {"fresh", "lkg", "release"}

\* A leader that stores has a playlist to store.
HasPlaylist == \A c \in Clients : pc[c] \in {"fresh", "lkg"} => res[c] # Failed

\* Nothing is newer than the clock.
NothingNewer ==
  /\ playlists.ver <= clock /\ lkg.ver <= clock
  /\ \A c \in Clients : res[c] <= clock /\ last[c] <= clock

\* What the leader of a call brings is the newest there is until the call is out
\* of the inflight map.
LeaderHasNewest ==
  \A c \in Clients : pc[c] \in Stored /\ res[c] # Failed =>
    /\ playlists.ver <= res[c] /\ lkg.ver <= res[c]
    /\ \A w \in Clients : last[w] <= res[c] /\ res[w] <= res[c]

\* The micro-cache is ahead of everything but a playlist about to be stored.
MicroCacheNewest ==
  playlists # Absent =>
    /\ lkg.ver <= playlists.ver
    /\ \A w \in Clients : /\ last[w] <= playlists.ver
                          /\ pc[w] # "fresh" => res[w] <= playlists.ver

\* The last-known-good copy lags behind the micro-cache only between the two
\* stores of a leader.
LkgLagsOnlyInStore ==
  lkg # Absent /\ playlists # Absent =>
    playlists.ver <= lkg.ver \/ \E c \in Clients : pc[c] = "lkg"

\* It covers every result that was handed out, and every client that may come to
\* be answered with it.
LkgCoversResults ==
  lkg # Absent =>
    \A w \in Clients :
      /\ pc[w] \in {"release", "done", "result"} => res[w] <= lkg.ver
      /\ \/ last[w] <= lkg.ver
         \/ \E c \in Clients : /\ pc[c] = "lkg"
                               /\ \/ pc[w] \in {"idle", "join"}
                                  \/ pc[w] = "wait" /\ call[w] = c

\* A result is not older than what those who will get it have seen.
ResultsAdvance ==
  \A c \in Clients :
    pc[c] \in Stored \union {"done", "result"} /\ res[c] # Failed =>
      /\ last[c] <= res[c]
      /\ pc[c] # "result" =>
           \A w \in Clients : pc[w] = "wait" /\ call[w] = c => last[w] <= res[c]

Inv ==
  /\ TypeOK
  /\ HasPlaylist
  /\ OneFlight
  /\ NothingNewer
  /\ LeaderHasNewest
  /\ MicroCacheNewest
  /\ LkgLagsOnlyInStore
  /\ LkgCoversResults
  /\ ResultsAdvance

-----------------------------------------------------------------------------
\* Every step keeps the types.
LEMMA TypeStep == TypeOK /\ HasPlaylist /\ [Next]_vars => (TypeOK /\ HasPlaylist)'
<1> SUFFICES ASSUME TypeOK, HasPlaylist, [Next]_vars PROVE (TypeOK /\ HasPlaylist)'
  OBVIOUS
<1> USE TTLs, ClockBound DEF HasPlaylist, TypeOK, Leading, Entry, Versions, Absent, Failed
<1>1. ASSUME NEW c \in Clients, Lookup(c) PROVE (TypeOK /\ HasPlaylist)'
  BY <1>1 DEF Lookup, Hit, AfterGet, Answer, Goto
<1>2. ASSUME NEW c \in Clients, Wait(c) PROVE (TypeOK /\ HasPlaylist)'
  BY <1>2 DEF Wait, Goto
<1>3. ASSUME NEW c \in Clients, Lead(c) PROVE (TypeOK /\ HasPlaylist)'
  BY <1>3 DEF Lead, Goto
<1>4. ASSUME NEW c \in Clients, FetchOK(c) PROVE (TypeOK /\ HasPlaylist)'
  BY <1>4 DEF FetchOK, Goto
<1>5. ASSUME NEW c \in Clients, FetchFails(c) PROVE (TypeOK /\ HasPlaylist)'
  BY <1>5 DEF FetchFails, Goto
<1>6. ASSUME NEW c \in Clients, StoreFresh(c) PROVE (TypeOK /\ HasPlaylist)'
  BY <1>6 DEF StoreFresh, Goto
<1>7. ASSUME NEW c \in Clients, StoreLKG(c) PROVE (TypeOK /\ HasPlaylist)'
  BY <1>7 DEF StoreLKG, Goto
<1>8. ASSUME NEW c \in Clients, Release(c) PROVE (TypeOK /\ HasPlaylist)'
  BY <1>8 DEF Release, Goto
<1>9. ASSUME NEW c \in Clients, Done(c) PROVE (TypeOK /\ HasPlaylist)'
  BY <1>9 DEF Done
<1>10. ASSUME NEW c \in Clients, Deliver(c) PROVE (TypeOK /\ HasPlaylist)'
  BY <1>10 DEF Deliver, Answer, Goto
<1>11. ASSUME NEW c \in Clients, FallBack(c) PROVE (TypeOK /\ HasPlaylist)'
  BY <1>11 DEF FallBack, Hit, AfterGet, Answer, Goto
<1>12. CASE Tick
  BY <1>12 DEF Tick
<1>13. CASE Evict
  BY <1>13 DEF Evict
<1>14. CASE UNCHANGED vars
  BY <1>14 DEF vars
<1> QED
  BY <1>1, <1>2, <1>3, <1>4, <1>5, <1>6, <1>7, <1>8, <1>9, <1>10, <1>11, <1>12, <1>13, <1>14 DEF Next, Request

\* Every step keeps the single flight.
LEMMA FlightStep == TypeOK /\ OneFlight /\ [Next]_vars => OneFlight'
<1> SUFFICES ASSUME TypeOK, OneFlight, [Next]_vars PROVE OneFlight'
  OBVIOUS
<1> USE NoOneIsNoClient DEF OneFlight, TypeOK, Leading, Entry, Versions, Absent, Failed
<1>1. ASSUME NEW c \in Clients, Lookup(c) PROVE OneFlight'
  BY <1>1 DEF Lookup, Hit, AfterGet, Answer, Goto
<1>2. ASSUME NEW c \in Clients, Wait(c) PROVE OneFlight'
  BY <1>2 DEF Wait, Goto
<1>3. ASSUME NEW c \in Clients, Lead(c) PROVE OneFlight'
  BY <1>3 DEF Lead, Goto
<1>4. ASSUME NEW c \in Clients, FetchOK(c) PROVE OneFlight'
  BY <1>4 DEF FetchOK, Goto
<1>5. ASSUME NEW c \in Clients, FetchFails(c) PROVE OneFlight'
  BY <1>5 DEF FetchFails, Goto
<1>6. ASSUME NEW c \in Clients, StoreFresh(c) PROVE OneFlight'
  BY <1>6 DEF StoreFresh, Goto
<1>7. ASSUME NEW c \in Clients, StoreLKG(c) PROVE OneFlight'
  BY <1>7 DEF StoreLKG, Goto
<1>8. ASSUME NEW c \in Clients, Release(c) PROVE OneFlight'
  BY <1>8 DEF Release, Goto
<1>9. ASSUME NEW c \in Clients, Done(c) PROVE OneFlight'
  BY <1>9 DEF Done
<1>10. ASSUME NEW c \in Clients, Deliver(c) PROVE OneFlight'
  BY <1>10 DEF Deliver, Answer, Goto
<1>11. ASSUME NEW c \in Clients, FallBack(c) PROVE OneFlight'
  BY <1>11 DEF FallBack, Hit, AfterGet, Answer, Goto
<1>12. CASE Tick
  BY <1>12 DEF Tick
<1>13. CASE Evict
  BY <1>13 DEF Evict
<1>14. CASE UNCHANGED vars
  BY <1>14 DEF vars
<1> QED
  BY <1>1, <1>2, <1>3, <1>4, <1>5, <1>6, <1>7, <1>8, <1>9, <1>10, <1>11, <1>12, <1>13, <1>14 DEF Next, Request

\* No step makes anything newer than the clock.
LEMMA ClockStep == TypeOK /\ NothingNewer /\ [Next]_vars => NothingNewer'
<1> SUFFICES ASSUME TypeOK, NothingNewer, [Next]_vars PROVE NothingNewer'
  OBVIOUS
<1> USE ClockBound DEF NothingNewer, TypeOK, Leading, Entry, Versions, Absent, Failed
<1>1. ASSUME NEW c \in Clients, Lookup(c) PROVE NothingNewer'
  BY <1>1 DEF Lookup, Hit, AfterGet, Answer, Goto
<1>2. ASSUME NEW c \in Clients, Wait(c) PROVE NothingNewer'
  BY <1>2 DEF Wait, Goto
<1>3. ASSUME NEW c \in Clients, Lead(c) PROVE NothingNewer'
  BY <1>3 DEF Lead, Goto
<1>4. ASSUME NEW c \in Clients, FetchOK(c) PROVE NothingNewer'
  BY <1>4 DEF FetchOK, Goto
<1>5. ASSUME NEW c \in Clients, FetchFails(c) PROVE NothingNewer'
  BY <1>5 DEF FetchFails, Goto
<1>6. ASSUME NEW c \in Clients, StoreFresh(c) PROVE NothingNewer'
  BY <1>6 DEF StoreFresh, Goto
<1>7. ASSUME NEW c \in Clients, StoreLKG(c) PROVE NothingNewer'
  BY <1>7 DEF StoreLKG, Goto
<1>8. ASSUME NEW c \in Clients, Release(c) PROVE NothingNewer'
  BY <1>8 DEF Release, Goto
<1>9. ASSUME NEW c \in Clients, Done(c) PROVE NothingNewer'
  BY <1>9 DEF Done
<1>10. ASSUME NEW c \in Clients, Deliver(c) PROVE NothingNewer'
  BY <1>10 DEF Deliver, Answer, Goto
<1>11. ASSUME NEW c \in Clients, FallBack(c) PROVE NothingNewer'
  BY <1>11 DEF FallBack, Hit, AfterGet, Answer, Goto
<1>12. CASE Tick
  BY <1>12 DEF Tick
<1>13. CASE Evict
  BY <1>13 DEF Evict
<1>14. CASE UNCHANGED vars
  BY <1>14 DEF vars
<1> QED
  BY <1>1, <1>2, <1>3, <1>4, <1>5, <1>6, <1>7, <1>8, <1>9, <1>10, <1>11, <1>12, <1>13, <1>14 DEF Next, Request

\* The leader of a call keeps the newest playlist: no one else stores one meanwhile.
LEMMA LeaderStep == TypeOK /\ HasPlaylist /\ OneFlight /\ NothingNewer /\ LeaderHasNewest /\ [Next]_vars => LeaderHasNewest'
<1> SUFFICES ASSUME TypeOK, HasPlaylist, OneFlight, NothingNewer, LeaderHasNewest, [Next]_vars PROVE LeaderHasNewest'
  OBVIOUS
<1> USE DEF OneFlight, NothingNewer, LeaderHasNewest, Stored, TypeOK, Leading, Entry, Versions, Absent, Failed
<1>1. ASSUME NEW c \in Clients, Lookup(c) PROVE LeaderHasNewest'
  BY <1>1 DEF Lookup, Hit, AfterGet, Answer, Goto
<1>2. ASSUME NEW c \in Clients, Wait(c) PROVE LeaderHasNewest'
  BY <1>2 DEF Wait, Goto
<1>3. ASSUME NEW c \in Clients, Lead(c) PROVE LeaderHasNewest'
  BY <1>3 DEF Lead, Goto
<1>4. ASSUME NEW c \in Clients, FetchOK(c) PROVE LeaderHasNewest'
  BY <1>4 DEF FetchOK, Goto
<1>5. ASSUME NEW c \in Clients, FetchFails(c) PROVE LeaderHasNewest'
  BY <1>5 DEF FetchFails, Goto
<1>6. ASSUME NEW c \in Clients, StoreFresh(c) PROVE LeaderHasNewest'
  BY <1>6 DEF StoreFresh, Goto
<1>7. ASSUME NEW c \in Clients, StoreLKG(c) PROVE LeaderHasNewest'
  BY <1>7 DEF StoreLKG, Goto
<1>8. ASSUME NEW c \in Clients, Release(c) PROVE LeaderHasNewest'
  BY <1>8 DEF Release, Goto
<1>9. ASSUME NEW c \in Clients, Done(c) PROVE LeaderHasNewest'
  BY <1>9 DEF Done
<1>10. ASSUME NEW c \in Clients, Deliver(c) PROVE LeaderHasNewest'
  BY <1>10 DEF Deliver, Answer, Goto
<1>11. ASSUME NEW c \in Clients, FallBack(c) PROVE LeaderHasNewest'
  BY <1>11 DEF FallBack, Hit, AfterGet, Answer, Goto
<1>12. CASE Tick
  BY <1>12 DEF Tick
<1>13. CASE Evict
  BY <1>13 DEF Evict
<1>14. CASE UNCHANGED vars
  BY <1>14 DEF vars
<1> QED
  BY <1>1, <1>2, <1>3, <1>4, <1>5, <1>6, <1>7, <1>8, <1>9, <1>10, <1>11, <1>12, <1>13, <1>14 DEF Next, Request

\* The micro-cache stays ahead.
LEMMA MicroCacheStep == TypeOK /\ HasPlaylist /\ OneFlight /\ NothingNewer /\ LeaderHasNewest /\ MicroCacheNewest /\ [Next]_vars => MicroCacheNewest'
<1> SUFFICES ASSUME TypeOK, HasPlaylist, OneFlight, NothingNewer, LeaderHasNewest, MicroCacheNewest, [Next]_vars PROVE MicroCacheNewest'
  OBVIOUS
<1> USE DEF OneFlight, NothingNewer, LeaderHasNewest, MicroCacheNewest, HasPlaylist, Stored, TypeOK, Leading, Entry, Versions, Absent, Failed
<1>1. ASSUME NEW c \in Clients, Lookup(c) PROVE MicroCacheNewest'
  BY <1>1 DEF Lookup, Hit, AfterGet, Answer, Goto
<1>2. ASSUME NEW c \in Clients, Wait(c) PROVE MicroCacheNewest'
  BY <1>2 DEF Wait, Goto
<1>3. ASSUME NEW c \in Clients, Lead(c) PROVE MicroCacheNewest'
  BY <1>3 DEF Lead, Goto
<1>4. ASSUME NEW c \in Clients, FetchOK(c) PROVE MicroCacheNewest'
  BY <1>4 DEF FetchOK, Goto
<1>5. ASSUME NEW c \in Clients, FetchFails(c) PROVE MicroCacheNewest'
  BY <1>5 DEF FetchFails, Goto
<1>6. ASSUME NEW c \in Clients, StoreFresh(c) PROVE MicroCacheNewest'
  BY <1>6 DEF StoreFresh, Goto
<1>7. ASSUME NEW c \in Clients, StoreLKG(c) PROVE MicroCacheNewest'
  BY <1>7 DEF StoreLKG, Goto
<1>8. ASSUME NEW c \in Clients, Release(c) PROVE MicroCacheNewest'
  BY <1>8 DEF Release, Goto
<1>9. ASSUME NEW c \in Clients, Done(c) PROVE MicroCacheNewest'
  BY <1>9 DEF Done
<1>10. ASSUME NEW c \in Clients, Deliver(c) PROVE MicroCacheNewest'
  BY <1>10 DEF Deliver, Answer, Goto
<1>11. ASSUME NEW c \in Clients, FallBack(c) PROVE MicroCacheNewest'
  BY <1>11 DEF FallBack, Hit, AfterGet, Answer, Goto
<1>12. CASE Tick
  BY <1>12 DEF Tick
<1>13. CASE Evict
  BY <1>13 DEF Evict
<1>14. CASE UNCHANGED vars
  BY <1>14 DEF vars
<1> QED
  BY <1>1, <1>2, <1>3, <1>4, <1>5, <1>6, <1>7, <1>8, <1>9, <1>10, <1>11, <1>12, <1>13, <1>14 DEF Next, Request

\* The last-known-good copy lags only between the two stores.
LEMMA LagStep == TypeOK /\ HasPlaylist /\ OneFlight /\ LeaderHasNewest /\ LkgLagsOnlyInStore /\ [Next]_vars => LkgLagsOnlyInStore'
<1> SUFFICES ASSUME TypeOK, HasPlaylist, OneFlight, LeaderHasNewest, LkgLagsOnlyInStore, [Next]_vars PROVE LkgLagsOnlyInStore'
  OBVIOUS
<1> USE DEF OneFlight, LeaderHasNewest, LkgLagsOnlyInStore, HasPlaylist, Stored, TypeOK, Leading, Entry, Versions, Absent, Failed
<1>1. ASSUME NEW c \in Clients, Lookup(c) PROVE LkgLagsOnlyInStore'
  BY <1>1 DEF Lookup, Hit, AfterGet, Answer, Goto
<1>2. ASSUME NEW c \in Clients, Wait(c) PROVE LkgLagsOnlyInStore'
  BY <1>2 DEF Wait, Goto
<1>3. ASSUME NEW c \in Clients, Lead(c) PROVE LkgLagsOnlyInStore'
  BY <1>3 DEF Lead, Goto
<1>4. ASSUME NEW c \in Clients, FetchOK(c) PROVE LkgLagsOnlyInStore'
  BY <1>4 DEF FetchOK, Goto
<1>5. ASSUME NEW c \in Clients, FetchFails(c) PROVE LkgLagsOnlyInStore'
  BY <1>5 DEF FetchFails, Goto
<1>6. ASSUME NEW c \in Clients, StoreFresh(c) PROVE LkgLagsOnlyInStore'
  BY <1>6 DEF StoreFresh, Goto
<1>7. ASSUME NEW c \in Clients, StoreLKG(c) PROVE LkgLagsOnlyInStore'
  BY <1>7 DEF StoreLKG, Goto
<1>8. ASSUME NEW c \in Clients, Release(c) PROVE LkgLagsOnlyInStore'
  BY <1>8 DEF Release, Goto
<1>9. ASSUME NEW c \in Clients, Done(c) PROVE LkgLagsOnlyInStore'
  BY <1>9 DEF Done
<1>10. ASSUME NEW c \in Clients, Deliver(c) PROVE LkgLagsOnlyInStore'
  BY <1>10 DEF Deliver, Answer, Goto
<1>11. ASSUME NEW c \in Clients, FallBack(c) PROVE LkgLagsOnlyInStore'
  BY <1>11 DEF FallBack, Hit, AfterGet, Answer, Goto
<1>12. CASE Tick
  BY <1>12 DEF Tick
<1>13. CASE Evict
  BY <1>13 DEF Evict
<1>14. CASE UNCHANGED vars
  BY <1>14 DEF vars
<1> QED
  BY <1>1, <1>2, <1>3, <1>4, <1>5, <1>6, <1>7, <1>8, <1>9, <1>10, <1>11, <1>12, <1>13, <1>14 DEF Next, Request

\* The last-known-good copy covers what it may have to stand in for.
LEMMA CoverStep == TypeOK /\ HasPlaylist /\ OneFlight /\ LeaderHasNewest /\ MicroCacheNewest /\ LkgLagsOnlyInStore /\ LkgCoversResults /\ ResultsAdvance /\ [Next]_vars => LkgCoversResults'
<1> SUFFICES ASSUME TypeOK, HasPlaylist, OneFlight, LeaderHasNewest, MicroCacheNewest, LkgLagsOnlyInStore, LkgCoversResults, ResultsAdvance, [Next]_vars PROVE LkgCoversResults'
  OBVIOUS
<1> USE DEF OneFlight, LeaderHasNewest, MicroCacheNewest, LkgLagsOnlyInStore, LkgCoversResults, ResultsAdvance, HasPlaylist, Stored, TypeOK, Leading, Entry, Versions, Absent, Failed
<1>1. ASSUME NEW c \in Clients, Lookup(c) PROVE LkgCoversResults'
  BY <1>1 DEF Lookup, Hit, AfterGet, Answer, Goto
<1>2. ASSUME NEW c \in Clients, Wait(c) PROVE LkgCoversResults'
  BY <1>2 DEF Wait, Goto
<1>3. ASSUME NEW c \in Clients, Lead(c) PROVE LkgCoversResults'
  <2>1. \A d \in Clients : pc[d] # "lkg"
    BY <1>3, NoOneIsNoClient DEF Lead
  <2> QED
    BY <1>3, <2>1 DEF Lead, Goto
<1>4. ASSUME NEW c \in Clients, FetchOK(c) PROVE LkgCoversResults'
  BY <1>4 DEF FetchOK, Goto
<1>5. ASSUME NEW c \in Clients, FetchFails(c) PROVE LkgCoversResults'
  BY <1>5 DEF FetchFails, Goto
<1>6. ASSUME NEW c \in Clients, StoreFresh(c) PROVE LkgCoversResults'
  BY <1>6 DEF StoreFresh, Goto
<1>7. ASSUME NEW c \in Clients, StoreLKG(c) PROVE LkgCoversResults'
  BY <1>7 DEF StoreLKG, Goto
<1>8. ASSUME NEW c \in Clients, Release(c) PROVE LkgCoversResults'
  BY <1>8 DEF Release, Goto
<1>9. ASSUME NEW c \in Clients, Done(c) PROVE LkgCoversResults'
  BY <1>9 DEF Done
<1>10. ASSUME NEW c \in Clients, Deliver(c) PROVE LkgCoversResults'
  BY <1>10 DEF Deliver, Answer, Goto
<1>11. ASSUME NEW c \in Clients, FallBack(c) PROVE LkgCoversResults'
  BY <1>11 DEF FallBack, Hit, AfterGet, Answer, Goto
<1>12. CASE Tick
  BY <1>12 DEF Tick
<1>13. CASE Evict
  BY <1>13 DEF Evict
<1>14. CASE UNCHANGED vars
  BY <1>14 DEF vars
<1> QED
  BY <1>1, <1>2, <1>3, <1>4, <1>5, <1>6, <1>7, <1>8, <1>9, <1>10, <1>11, <1>12, <1>13, <1>14 DEF Next, Request

\* A result stays ahead of what those who will get it have seen.
LEMMA ResultStep == TypeOK /\ HasPlaylist /\ OneFlight /\ NothingNewer /\ LeaderHasNewest /\ MicroCacheNewest /\ ResultsAdvance /\ [Next]_vars => ResultsAdvance'
<1> SUFFICES ASSUME TypeOK, HasPlaylist, OneFlight, NothingNewer, LeaderHasNewest, MicroCacheNewest, ResultsAdvance, [Next]_vars PROVE ResultsAdvance'
  OBVIOUS
<1> USE DEF OneFlight, NothingNewer, LeaderHasNewest, MicroCacheNewest, ResultsAdvance, HasPlaylist, Stored, TypeOK, Leading, Entry, Versions, Absent, Failed
<1>1. ASSUME NEW c \in Clients, Lookup(c) PROVE ResultsAdvance'
  BY <1>1 DEF Lookup, Hit, AfterGet, Answer, Goto
<1>2. ASSUME NEW c \in Clients, Wait(c) PROVE ResultsAdvance'
  BY <1>2 DEF Wait, Goto
<1>3. ASSUME NEW c \in Clients, Lead(c) PROVE ResultsAdvance'
  BY <1>3 DEF Lead, Goto
<1>4. ASSUME NEW c \in Clients, FetchOK(c) PROVE ResultsAdvance'
  BY <1>4 DEF FetchOK, Goto
<1>5. ASSUME NEW c \in Clients, FetchFails(c) PROVE ResultsAdvance'
  BY <1>5 DEF FetchFails, Goto
<1>6. ASSUME NEW c \in Clients, StoreFresh(c) PROVE ResultsAdvance'
  BY <1>6 DEF StoreFresh, Goto
<1>7. ASSUME NEW c \in Clients, StoreLKG(c) PROVE ResultsAdvance'
  BY <1>7 DEF StoreLKG, Goto
<1>8. ASSUME NEW c \in Clients, Release(c) PROVE ResultsAdvance'
  BY <1>8 DEF Release, Goto
<1>9. ASSUME NEW c \in Clients, Done(c) PROVE ResultsAdvance'
  BY <1>9 DEF Done
<1>10. ASSUME NEW c \in Clients, Deliver(c) PROVE ResultsAdvance'
  BY <1>10 DEF Deliver, Answer, Goto
<1>11. ASSUME NEW c \in Clients, FallBack(c) PROVE ResultsAdvance'
  BY <1>11 DEF FallBack, Hit, AfterGet, Answer, Goto
<1>12. CASE Tick
  BY <1>12 DEF Tick
<1>13. CASE Evict
  BY <1>13 DEF Evict
<1>14. CASE UNCHANGED vars
  BY <1>14 DEF vars
<1> QED
  BY <1>1, <1>2, <1>3, <1>4, <1>5, <1>6, <1>7, <1>8, <1>9, <1>10, <1>11, <1>12, <1>13, <1>14 DEF Next, Request

-----------------------------------------------------------------------------
\* The invariant holds at first.
LEMMA InitInv == Init => Inv
  BY NoOneIsNoClient, ClockBound
  DEF Init, Inv, TypeOK, HasPlaylist, OneFlight, NothingNewer, LeaderHasNewest, MicroCacheNewest,
      LkgLagsOnlyInStore, LkgCoversResults, ResultsAdvance, Stored, Leading, Versions, Absent, Failed

\* It holds for ever.
LEMMA InvHolds == Spec => []Inv
<1>1. Init => Inv
  BY InitInv
<1>2. Inv /\ [Next]_vars => Inv'
  <2> SUFFICES ASSUME Inv, [Next]_vars PROVE Inv'
    OBVIOUS
  <2> USE DEF Inv
  <2>1. TypeOK' /\ HasPlaylist'
    BY TypeStep
  <2>2. OneFlight'
    BY FlightStep
  <2>3. NothingNewer'
    BY ClockStep
  <2>4. LeaderHasNewest'
    BY LeaderStep
  <2>5. MicroCacheNewest'
    BY MicroCacheStep
  <2>6. LkgLagsOnlyInStore'
    BY LagStep
  <2>7. LkgCoversResults'
    BY CoverStep
  <2>8. ResultsAdvance'
    BY ResultStep
  <2> QED
    BY <2>1, <2>2, <2>3, <2>4, <2>5, <2>6, <2>7, <2>8
<1> QED
  BY <1>1, <1>2, PTL DEF Spec

\* The variables of playlist requests always have their types.
THEOREM TypeCorrect == Spec => []TypeOK
<1>1. Inv => TypeOK
  BY DEF Inv
<1> QED
  BY <1>1, InvHolds, PTL

\* However many players ask for a playlist at once, fetchShared sends one
\* request upstream, and everyone who waits, waits for a call that will end.
THEOREM SingleFlight == Spec => []OneFlight
<1>1. Inv => OneFlight
  BY DEF Inv
<1> QED
  BY <1>1, InvHolds, PTL

\* Types and flights together.
THEOREM FlightsSound == Spec => []FlightOK
<1>1. TypeOK /\ OneFlight => FlightOK
  BY DEF FlightOK
<1> QED
  BY <1>1, TypeCorrect, SingleFlight, PTL

\* No step answers a client with an older playlist than it had.
LEMMA AnswersAdvance ==
  Inv /\ [Next]_vars => [\A c \in Clients : last'[c] >= last[c]]_vars
<1> SUFFICES ASSUME Inv, Next PROVE \A c \in Clients : last'[c] >= last[c]
  OBVIOUS
<1> USE DEF Inv, TypeOK, Versions, Entry, Failed, Absent
<1>1. ASSUME NEW c \in Clients, Lookup(c) PROVE \A w \in Clients : last'[w] >= last[w]
  BY <1>1, ClockBound DEF Lookup, Hit, Answer, MicroCacheNewest
<1>2. ASSUME NEW c \in Clients, Deliver(c) PROVE \A w \in Clients : last'[w] >= last[w]
  BY <1>2, ClockBound DEF Deliver, Answer, ResultsAdvance
<1>3. ASSUME NEW c \in Clients, FallBack(c) PROVE \A w \in Clients : last'[w] >= last[w]
  <2>1. CASE Hit(lkg)
    \* c has its result, so it is no one that a leader between the stores may wake.
    <3>1. last[c] <= lkg.ver
      BY <1>3, <2>1 DEF FallBack, Hit, LkgCoversResults
    <3> QED
      BY <1>3, <2>1, <3>1, ClockBound DEF FallBack, Answer
  <2>2. CASE ~Hit(lkg)
    BY <1>3, <2>2, ClockBound DEF FallBack
  <2> QED
    BY <2>1, <2>2
<1>4. ASSUME UNCHANGED last PROVE \A w \in Clients : last'[w] >= last[w]
  BY <1>4, ClockBound
<1> QED
  BY <1>1, <1>2, <1>3, <1>4
  DEF Next, Request, Wait, Lead, FetchOK, FetchFails, StoreFresh, StoreLKG, Release, Done, Tick, Evict

\* A player that reloads its playlist never gets an older one than before,
\* from whichever of ServeHTTP's three sources it is answered.
THEOREM PlaylistsAdvance == Spec => NeverGoesBack
<1>1. Inv /\ [Next]_vars => [\A c \in Clients : last'[c] >= last[c]]_vars
  BY AnswersAdvance
<1> QED
  BY <1>1, InvHolds, PTL DEF Spec, NeverGoesBack

-----------------------------------------------------------------------------
(* PlaylistFetch implements LivePlaylist. *)

\* served is the newest answer there is.
ServedIsNewest ==
  /\ served \in Versions \union {-1}
  /\ \A c \in Clients : last[c] <= served
  /\ served = -1 \/ \E c \in Clients : last[c] = served

FloorsFollow ==
  /\ floor \in [Clients -> Versions \union {-1}]
  /\ \A c \in Clients : /\ floor[c] <= served
                        /\ pc[c] = "idle" => floor[c] = -1

\* A result is not older than what was on show when those who will get it asked.
ResultsCover ==
  \A c \in Clients :
    pc[c] \in Stored \union {"done", "result"} /\ res[c] # Failed =>
      /\ floor[c] <= res[c]
      /\ pc[c] # "result" =>
           \A w \in Clients : pc[w] = "wait" /\ call[w] = c => floor[w] <= res[c]

\* Nor is the last-known-good copy, but for those who will get what is about to
\* be stored there.
LkgCoversFloors ==
  lkg # Absent =>
    \A w \in Clients :
      \/ floor[w] <= lkg.ver
      \/ \E c \in Clients : /\ pc[c] = "lkg"
                            /\ pc[w] = "join" \/ (pc[w] = "wait" /\ call[w] = c)

PromiseInv == ServedIsNewest /\ FloorsFollow /\ ResultsCover /\ LkgCoversFloors

-----------------------------------------------------------------------------
\* What Record says of a step that answers nobody.
LEMMA NoAnswer ==
  ASSUME Inv, PromiseInv, Record, last' = last
  PROVE  served' = served
BY DEF Record, Newer, PromiseInv, ServedIsNewest, Inv, TypeOK, Versions

\* What Record says of a step that answers c.
LEMMA OneAnswer ==
  ASSUME Inv, PromiseInv, Record, NEW c \in Clients, NEW v \in Versions,
         last' = [last EXCEPT ![c] = v]
  PROVE  served' = IF v > served THEN v ELSE served
<1> USE DEF Inv, TypeOK, PromiseInv, ServedIsNewest, Versions
<1>1. \A w \in Clients : Newer(w) => w = c /\ v > served
  BY ClockBound DEF Newer
<1>2. last'[c] = v
  OBVIOUS
<1>3. v > served => Newer(c)
  BY <1>2 DEF Newer
<1>4. CASE v > served
  <2>1. \E w \in Clients : Newer(w)
    BY <1>3, <1>4
  <2>2. (CHOOSE w \in Clients : Newer(w)) = c
    BY <1>1, <2>1
  <2> QED
    BY <1>2, <1>4, <2>1, <2>2 DEF Record
<1>5. CASE ~(v > served)
  BY <1>1, <1>5 DEF Record
<1> QED
  BY <1>4, <1>5

\* A step that starts and ends no request leaves the floors.
LEMMA FloorsStay ==
  ASSUME Inv, PromiseInv, Record, \A c \in Clients : pc'[c] = "idle" <=> pc[c] = "idle"
  PROVE  floor' = floor
BY DEF Record, PromiseInv, FloorsFollow

\* A step that ends the request of c.
LEMMA FloorFalls ==
  ASSUME Inv, PromiseInv, Record, NEW c \in Clients, pc[c] # "idle",
         pc' = [pc EXCEPT ![c] = "idle"]
  PROVE  floor' = [floor EXCEPT ![c] = -1]
BY DEF Record, PromiseInv, FloorsFollow, Inv, TypeOK

-----------------------------------------------------------------------------
\* Everything between the start and the end of a request: nobody is answered.
Between(c) ==
  \/ Wait(c) \/ Lead(c) \/ FetchOK(c) \/ FetchFails(c) \/ StoreFresh(c) \/ StoreLKG(c)
  \/ Release(c) \/ Done(c)

LEMMA BetweenIsQuiet ==
  ASSUME Inv, NEW c \in Clients, Between(c)
  PROVE  last' = last /\ \A w \in Clients : pc'[w] = "idle" <=> pc[w] = "idle"
BY DEF Between, Wait, Lead, FetchOK, FetchFails, StoreFresh, StoreLKG, Release, Done, Goto,
       Inv, TypeOK

\* Such a step keeps the bounds of results and of the stale copy.
LEMMA BetweenKeeps ==
  ASSUME Inv, PromiseInv, NEW c \in Clients, Between(c), served' = served, floor' = floor
  PROVE  ResultsCover' /\ LkgCoversFloors'
<1>0. \A w \in Clients, v \in Int : (\A x \in Clients : last[x] <= v) /\ v >= -1 => floor[w] <= v
  BY ClockBound DEF PromiseInv, ServedIsNewest, FloorsFollow, Inv, TypeOK, Versions
<1> USE ClockBound DEF Inv, PromiseInv, TypeOK, Versions, Entry, Leading, Stored, Absent, Failed,
        ResultsCover, LkgCoversFloors, FloorsFollow
<1>1. CASE Wait(c)
  BY <1>0, <1>1, NoOneIsNoClient DEF Wait, Goto, OneFlight, LeaderHasNewest
<1>2. CASE Lead(c)
  BY <1>0, <1>2, NoOneIsNoClient DEF Lead, Goto, OneFlight
<1>3. CASE FetchOK(c)
  BY <1>0, <1>3 DEF FetchOK, Goto, NothingNewer
<1>4. CASE FetchFails(c)
  BY <1>0, <1>4 DEF FetchFails, Goto, OneFlight
<1>5. CASE StoreFresh(c)
  BY <1>0, <1>5 DEF StoreFresh, Goto, OneFlight
<1>6. CASE StoreLKG(c)
  BY <1>0, <1>6 DEF StoreLKG, Goto, OneFlight, LeaderHasNewest, HasPlaylist
<1>7. CASE Release(c)
  BY <1>0, <1>7 DEF Release, Goto, OneFlight
<1>8. CASE Done(c)
  BY <1>0, <1>8 DEF Done, OneFlight
<1> QED
  BY <1>1, <1>2, <1>3, <1>4, <1>5, <1>6, <1>7, <1>8 DEF Between

-----------------------------------------------------------------------------
\* What is on show is in the micro-cache, whoever has been given it.
LEMMA OnShow ==
  ASSUME Inv, PromiseInv, Hit(playlists)
  PROVE  playlists.ver \in Versions /\ served <= playlists.ver
BY ClockBound DEF Hit, Inv, TypeOK, Entry, Absent, Versions, MicroCacheNewest, PromiseInv, ServedIsNewest

\* The stale copy is not older than what was on show when the request came.
LEMMA StaleCopy ==
  ASSUME Inv, PromiseInv, NEW c \in Clients, FallBack(c), Hit(lkg)
  PROVE  lkg.ver \in Versions /\ floor[c] <= lkg.ver
BY DEF FallBack, Hit, Inv, TypeOK, Entry, Absent, PromiseInv, LkgCoversFloors

\* Every step, as the players see it: it asks, it answers, it refuses, or it is
\* a matter of the proxy or the upstream.
Hits(c) == Lookup(c) /\ Hit(playlists)
Misses(c) == Lookup(c) /\ ~Hit(playlists)
CoversUp(c) == FallBack(c) /\ Hit(lkg)
Refuses(c) == FallBack(c) /\ ~Hit(lkg)

LEMMA StepKinds ==
  ASSUME Next
  PROVE  \/ \E c \in Clients : \/ Hits(c) \/ Misses(c) \/ Between(c)
                               \/ Deliver(c) \/ CoversUp(c) \/ Refuses(c)
         \/ Tick \/ Evict
BY DEF Next, Request, Between, Hits, Misses, CoversUp, Refuses

\* What each of them does to what the players see.
LEMMA HitsShown ==
  ASSUME Inv, PromiseInv, Record, NEW c \in Clients, Hits(c)
  PROVE  /\ last' = [last EXCEPT ![c] = playlists.ver] /\ pc' = pc /\ floor' = floor
         /\ served' = playlists.ver /\ served <= playlists.ver /\ playlists.ver \in Versions
<1>1. playlists.ver \in Versions /\ served <= playlists.ver
  BY OnShow DEF Hits
<1>2. last' = [last EXCEPT ![c] = playlists.ver] /\ pc' = pc
  BY DEF Hits, Lookup, Answer
<1>3. floor' = floor
  BY <1>2, FloorsStay
<1>4. served' = IF playlists.ver > served THEN playlists.ver ELSE served
  BY <1>1, <1>2, OneAnswer
<1> QED
  BY <1>1, <1>2, <1>3, <1>4, ClockBound DEF Versions, PromiseInv, ServedIsNewest

LEMMA MissesShown ==
  ASSUME Inv, PromiseInv, Record, NEW c \in Clients, Misses(c)
  PROVE  /\ pc[c] = "idle" /\ pc' = [pc EXCEPT ![c] = "join"]
         /\ last' = last /\ served' = served /\ floor' = [floor EXCEPT ![c] = served]
<1>1. pc[c] = "idle" /\ pc' = [pc EXCEPT ![c] = "join"] /\ last' = last
  BY DEF Misses, Lookup, Goto
<1>2. served' = served
  BY <1>1, NoAnswer
<1>3. floor' = [floor EXCEPT ![c] = served]
  BY <1>1 DEF Record, PromiseInv, FloorsFollow, Inv, TypeOK
<1> QED
  BY <1>1, <1>2, <1>3

LEMMA DeliverShown ==
  ASSUME Inv, PromiseInv, Record, NEW c \in Clients, Deliver(c)
  PROVE  /\ pc[c] # "idle" /\ pc' = [pc EXCEPT ![c] = "idle"] /\ floor' = [floor EXCEPT ![c] = -1]
         /\ res[c] \in Versions /\ floor[c] <= res[c] /\ last' = [last EXCEPT ![c] = res[c]]
         /\ served' = IF res[c] > served THEN res[c] ELSE served
<1>1. /\ pc[c] = "result" /\ pc' = [pc EXCEPT ![c] = "idle"]
      /\ last' = [last EXCEPT ![c] = res[c]] /\ res[c] # Failed
  BY DEF Deliver, Answer, Goto
<1>2. res[c] \in Versions
  BY <1>1 DEF Inv, TypeOK
<1>3. floor[c] <= res[c]
  BY <1>1 DEF PromiseInv, ResultsCover
<1>4. floor' = [floor EXCEPT ![c] = -1]
  BY <1>1, FloorFalls
<1>5. served' = IF res[c] > served THEN res[c] ELSE served
  BY <1>1, <1>2, OneAnswer
<1> QED
  BY <1>1, <1>2, <1>3, <1>4, <1>5

LEMMA CoversUpShown ==
  ASSUME Inv, PromiseInv, Record, NEW c \in Clients, CoversUp(c)
  PROVE  /\ pc[c] # "idle" /\ pc' = [pc EXCEPT ![c] = "idle"] /\ floor' = [floor EXCEPT ![c] = -1]
         /\ lkg.ver \in Versions /\ floor[c] <= lkg.ver /\ last' = [last EXCEPT ![c] = lkg.ver]
         /\ served' = IF lkg.ver > served THEN lkg.ver ELSE served
<1>1. /\ pc[c] = "result" /\ pc' = [pc EXCEPT ![c] = "idle"]
      /\ last' = [last EXCEPT ![c] = lkg.ver]
  BY DEF CoversUp, FallBack, Answer, Goto
<1>2. lkg.ver \in Versions /\ floor[c] <= lkg.ver
  BY StaleCopy DEF CoversUp
<1>4. floor' = [floor EXCEPT ![c] = -1]
  BY <1>1, FloorFalls
<1>5. served' = IF lkg.ver > served THEN lkg.ver ELSE served
  BY <1>1, <1>2, OneAnswer
<1> QED
  BY <1>1, <1>2, <1>4, <1>5

LEMMA RefusesShown ==
  ASSUME Inv, PromiseInv, Record, NEW c \in Clients, Refuses(c)
  PROVE  /\ pc[c] # "idle" /\ pc' = [pc EXCEPT ![c] = "idle"] /\ floor' = [floor EXCEPT ![c] = -1]
         /\ last' = last /\ served' = served
<1>1. pc[c] = "result" /\ pc' = [pc EXCEPT ![c] = "idle"] /\ last' = last
  BY DEF Refuses, FallBack, Goto
<1>2. served' = served
  BY <1>1, NoAnswer
<1>3. floor' = [floor EXCEPT ![c] = -1]
  BY <1>1, FloorFalls
<1> QED
  BY <1>1, <1>2, <1>3

LEMMA QuietShown ==
  ASSUME Inv, PromiseInv, Record, (\E c \in Clients : Between(c)) \/ Tick \/ Evict
  PROVE  /\ \A w \in Clients : pc'[w] = "idle" <=> pc[w] = "idle"
         /\ last' = last /\ served' = served /\ floor' = floor
<1>1. last' = last /\ \A w \in Clients : pc'[w] = "idle" <=> pc[w] = "idle"
  BY BetweenIsQuiet DEF Tick, Evict
<1>2. served' = served
  BY <1>1, NoAnswer
<1>3. floor' = floor
  BY <1>1, FloorsStay
<1> QED
  BY <1>1, <1>2, <1>3

-----------------------------------------------------------------------------
\* An answer, or a refusal, with what is needed of it.
LEMMA AnswerKeeps ==
  ASSUME Inv, PromiseInv, NEW c \in Clients, NEW v \in Versions, last[c] <= v,
         last' = [last EXCEPT ![c] = v], served' = IF v > served THEN v ELSE served,
         floor' = floor \/ floor' = [floor EXCEPT ![c] = -1]
  PROVE  ServedIsNewest' /\ \A w \in Clients : floor'[w] <= served'
<1> USE ClockBound DEF PromiseInv, ServedIsNewest, FloorsFollow, Inv, TypeOK, Versions
<1>1. CASE v > served
  <2>1. last'[c] = served'
    BY <1>1
  <2> QED
    BY <1>1, <2>1
<1>2. CASE ~(v > served)
  <2>1. served = -1 \/ \E d \in Clients : last'[d] = served
    BY <1>2
  <2> QED
    BY <1>2, <2>1
<1> QED
  BY <1>1, <1>2

LEMMA PromiseStep ==
  ASSUME Inv, PromiseInv, [Next /\ Record]_promiseVars
  PROVE  PromiseInv'
<1>1. ASSUME Record, NEW c \in Clients, Hits(c) PROVE PromiseInv'
  <2>1. /\ last' = [last EXCEPT ![c] = playlists.ver] /\ pc' = pc /\ floor' = floor
        /\ served' = IF playlists.ver > served THEN playlists.ver ELSE served
        /\ playlists.ver \in Versions
    BY <1>1, HitsShown, ClockBound DEF Versions, PromiseInv, ServedIsNewest
  <2>5. last[c] <= playlists.ver
    BY <1>1, <2>1, HitsShown, ClockBound DEF PromiseInv, ServedIsNewest, Inv, TypeOK, Versions
  <2>2. ServedIsNewest' /\ \A w \in Clients : floor'[w] <= served'
    BY <2>1, <2>5, AnswerKeeps
  <2>3. UNCHANGED <<lkg, call, res>>
    BY <1>1 DEF Hits, Lookup
  <2> QED
    BY <2>1, <2>2, <2>3 DEF PromiseInv, FloorsFollow, ResultsCover, LkgCoversFloors, Versions
<1>2. ASSUME Record, NEW c \in Clients, Misses(c) PROVE PromiseInv'
  <2>1. /\ pc[c] = "idle" /\ pc' = [pc EXCEPT ![c] = "join"]
        /\ last' = last /\ served' = served /\ floor' = [floor EXCEPT ![c] = served]
    BY <1>2, MissesShown
  <2>2. UNCHANGED <<lkg, call, res>>
    BY <1>2 DEF Misses, Lookup
  <2>3. ServedIsNewest' /\ FloorsFollow'
    BY <2>1, ClockBound DEF PromiseInv, ServedIsNewest, FloorsFollow, Inv, TypeOK, Versions
  <2>4. ResultsCover'
    BY <2>1, <2>2 DEF PromiseInv, ResultsCover, FloorsFollow, Stored, Inv, TypeOK
  <2>5. lkg # Absent => \/ served <= lkg.ver
                        \/ \E d \in Clients : pc[d] = "lkg"
    BY ClockBound DEF PromiseInv, ServedIsNewest, Inv, TypeOK, LkgCoversResults, Versions, Entry, Absent
  <2>6. LkgCoversFloors'
    BY <2>1, <2>2, <2>5 DEF PromiseInv, LkgCoversFloors, FloorsFollow, Inv, TypeOK
  <2> QED
    BY <2>3, <2>4, <2>6 DEF PromiseInv
<1>3. ASSUME Record, NEW c \in Clients, Between(c) PROVE PromiseInv'
  <2>1. /\ \A w \in Clients : pc'[w] = "idle" <=> pc[w] = "idle"
        /\ last' = last /\ served' = served /\ floor' = floor
    BY <1>3, QuietShown
  <2>2. ResultsCover' /\ LkgCoversFloors'
    BY <1>3, <2>1, BetweenKeeps
  <2> QED
    BY <2>1, <2>2 DEF PromiseInv, ServedIsNewest, FloorsFollow, Versions
<1>4. ASSUME Record, NEW c \in Clients, NEW v \in Versions, pc[c] = "result",
             pc' = [pc EXCEPT ![c] = "idle"], floor' = [floor EXCEPT ![c] = -1],
             \/ /\ last' = [last EXCEPT ![c] = v] /\ last[c] <= v
                /\ served' = IF v > served THEN v ELSE served
             \/ last' = last /\ served' = served,
             lkg' \in {lkg, Absent}, call' = call, res' = res,
             \A w \in Clients : pc[w] = "wait" => call[w] # c
      PROVE PromiseInv'
  <2>1. ServedIsNewest' /\ \A w \in Clients : floor'[w] <= served'
    <3>1. CASE last' = last /\ served' = served
      BY <1>4, <3>1, ClockBound DEF PromiseInv, ServedIsNewest, FloorsFollow, Inv, TypeOK, Versions
    <3>2. CASE /\ last' = [last EXCEPT ![c] = v] /\ last[c] <= v
               /\ served' = IF v > served THEN v ELSE served
      BY <1>4, <3>2, AnswerKeeps
    <3> QED
      BY <1>4, <3>1, <3>2
  <2>2. FloorsFollow'
    BY <1>4, <2>1 DEF PromiseInv, FloorsFollow, Inv, TypeOK, Versions
  <2>3. ResultsCover'
    BY <1>4 DEF PromiseInv, ResultsCover, FloorsFollow, Stored, Inv, TypeOK
  <2>4. ASSUME NEW w \in Clients, lkg' # Absent
        PROVE \/ floor'[w] <= lkg'.ver
              \/ \E d \in Clients : /\ pc'[d] = "lkg"
                                    /\ pc'[w] = "join" \/ (pc'[w] = "wait" /\ call'[w] = d)
    <3>1. CASE w = c
      BY <1>4, <2>4, <3>1, ClockBound DEF PromiseInv, FloorsFollow, Inv, TypeOK, Versions, Entry
    <3>2. CASE w # c
      BY <1>4, <2>4, <3>2 DEF PromiseInv, LkgCoversFloors, FloorsFollow, Inv, TypeOK
    <3> QED
      BY <3>1, <3>2
  <2> QED
    BY <2>1, <2>2, <2>3, <2>4 DEF PromiseInv, LkgCoversFloors
<1>5. ASSUME NEW c \in Clients, pc[c] = "result" PROVE \A w \in Clients : pc[w] = "wait" => call[w] # c
  BY <1>5 DEF Inv, OneFlight, Leading
<1>6. ASSUME Record, NEW c \in Clients, Deliver(c) PROVE PromiseInv'
  <2>1. last[c] <= res[c]
    BY <1>6 DEF Deliver, Inv, ResultsAdvance
  <2> QED
    BY <1>4, <1>5, <1>6, <2>1, DeliverShown DEF Deliver
<1>7. ASSUME Record, NEW c \in Clients, CoversUp(c) PROVE PromiseInv'
  <2>1. last[c] <= lkg.ver
    BY <1>7 DEF CoversUp, FallBack, Hit, Inv, LkgCoversResults
  <2> QED
    BY <1>4, <1>5, <1>7, <2>1, CoversUpShown DEF CoversUp, FallBack, AfterGet
<1>8. ASSUME Record, NEW c \in Clients, Refuses(c) PROVE PromiseInv'
  <2>1. 0 \in Versions
    BY ClockBound DEF Versions
  <2> QED
    BY <1>4, <1>5, <1>8, <2>1, RefusesShown DEF Refuses, FallBack, AfterGet
<1>9. ASSUME Record, Tick \/ Evict PROVE PromiseInv'
  <2>1. last' = last /\ served' = served /\ floor' = floor /\ UNCHANGED <<pc, call, res>>
    BY <1>9, QuietShown DEF Tick, Evict
  <2> QED
    BY <1>9, <2>1
    DEF Tick, Evict, PromiseInv, ServedIsNewest, FloorsFollow, ResultsCover, LkgCoversFloors, Versions
<1>10. ASSUME UNCHANGED promiseVars PROVE PromiseInv'
  BY <1>10 DEF promiseVars, vars, historyVars, PromiseInv, ServedIsNewest, FloorsFollow,
               ResultsCover, LkgCoversFloors, Versions
<1> QED
  BY <1>1, <1>2, <1>3, <1>6, <1>7, <1>8, <1>9, <1>10, StepKinds

-----------------------------------------------------------------------------
\* Every step of the proxy is a step of LivePlaylist, or invisible.
LEMMA StepRefines ==
  ASSUME Inv, PromiseInv, [Next /\ Record]_promiseVars
  PROVE  [Live!Next]_Live!vars
<1> DEFINE open == {c \in Clients : pc[c] # "idle"}
<1> USE ClockBound DEF Live!Next, Live!vars
<1>1. ASSUME Record, NEW c \in Clients, Hits(c) PROVE Live!AnswerAtOnce(c)
  <2>1. playlists.ver \in 0 .. clock
    BY <1>1 DEF Hits, Hit, Inv, TypeOK, NothingNewer, Entry, Absent, Versions
  <2>2. c \notin open /\ clock' = clock
    BY <1>1 DEF Hits, Lookup
  <2> QED
    BY <1>1, <2>1, <2>2, HitsShown DEF Live!AnswerAtOnce, Live!Answer, Versions, PromiseInv, ServedIsNewest
<1>2. ASSUME Record, NEW c \in Clients, Misses(c) PROVE Live!Ask(c)
  <2>1. c \notin open /\ open' = open \union {c}
    BY <1>2, MissesShown DEF Inv, TypeOK
  <2>2. clock' = clock
    BY <1>2 DEF Misses, Lookup
  <2> QED
    BY <1>2, <2>1, <2>2, MissesShown DEF Live!Ask
<1>3. ASSUME NEW c \in Clients, pc[c] # "idle", pc' = [pc EXCEPT ![c] = "idle"]
      PROVE c \in open /\ open' = open \ {c}
  BY <1>3 DEF Inv, TypeOK
<1>4. ASSUME Record, NEW c \in Clients, Deliver(c) PROVE Live!AnswerLater(c)
  <2>1. res[c] \in 0 .. clock /\ clock' = clock
    BY <1>4, DeliverShown DEF Deliver, Inv, TypeOK, NothingNewer, Versions
  <2> QED
    BY <1>3, <1>4, <2>1, DeliverShown DEF Live!AnswerLater, Live!Answer
<1>5. ASSUME Record, NEW c \in Clients, CoversUp(c) PROVE Live!AnswerLater(c)
  <2>1. lkg.ver \in 0 .. clock /\ clock' = clock
    BY <1>5, CoversUpShown DEF CoversUp, FallBack, Inv, TypeOK, NothingNewer, Versions
  <2> QED
    BY <1>3, <1>5, <2>1, CoversUpShown DEF Live!AnswerLater, Live!Answer
<1>6. ASSUME Record, NEW c \in Clients, Refuses(c) PROVE Live!Refuse(c)
  BY <1>3, <1>6, RefusesShown DEF Live!Refuse, Refuses, FallBack
<1>7. ASSUME Record, Tick PROVE Live!Advance
  BY <1>7, QuietShown DEF Live!Advance, Tick
<1>8. ASSUME Record, Evict \/ \E c \in Clients : Between(c) PROVE UNCHANGED Live!vars
  <2>1. open' = open
    BY <1>8, QuietShown
  <2>2. clock' = clock
    BY <1>8 DEF Evict, Between, Wait, Lead, FetchOK, FetchFails, StoreFresh, StoreLKG, Release, Done
  <2> QED
    BY <1>8, <2>1, <2>2, QuietShown
<1>9. ASSUME UNCHANGED promiseVars PROVE UNCHANGED Live!vars
  BY <1>9 DEF promiseVars, vars, historyVars
<1> QED
  BY <1>1, <1>2, <1>4, <1>5, <1>6, <1>7, <1>8, <1>9, StepKinds

\* Every behaviour of the proxy is one of LivePlaylist: no player is answered
\* with anything older than what any player had been given when it asked.
THEOREM PromiseKept == PromiseSpec => KeepsPromise
<1>1. PromiseSpec => Spec
  <2>1. [Next /\ Record]_promiseVars => [Next]_vars
    BY DEF promiseVars
  <2> QED
    BY <2>1, PTL DEF PromiseSpec, PromiseInit, Spec
<1>2. PromiseSpec => []Inv
  BY <1>1, InvHolds, PTL
<1>3. PromiseInit => PromiseInv
  BY ClockBound DEF PromiseInit, Init, PromiseInv, ServedIsNewest, FloorsFollow, ResultsCover, LkgCoversFloors,
                    Stored, Versions, Absent
<1>4. Inv /\ PromiseInv /\ [Next /\ Record]_promiseVars => PromiseInv'
  BY PromiseStep
<1>5. PromiseInit => Live!Init
  BY DEF PromiseInit, Init, Live!Init
<1>6. Inv /\ PromiseInv /\ [Next /\ Record]_promiseVars => [Live!Next]_Live!vars
  BY StepRefines
<1> QED
  BY <1>2, <1>3, <1>4, <1>5, <1>6, PTL DEF PromiseSpec, KeepsPromise, Live!Spec
=============================================================================
