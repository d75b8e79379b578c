---------------------------- MODULE LibraryProofs ----------------------------
(***************************************************************************)
(* Proofs about Library, for any channels, playlists, screens and search   *)
(* terms, and for any number of actions.                                   *)
(*                                                                         *)
(* The invariant has three parts, each touched by a few callbacks only.    *)
(* Requests: what the list shows is what the server has, with one request  *)
(* under way for every star that differs, unless requests clashed.  Drawn: *)
(* what was drawn last is what a callback would draw now.  FiltersShown:   *)
(* every filter in force is seen.                                          *)
(***************************************************************************)
EXTENDS Library, FiniteSetTheorems, FunctionTheorems, SequenceTheorems, TLAPS

\* A request and its answer.  The star of a request that will be put back is of
\* a channel that is listed.
IsCall(r) ==
  /\ r \in [no : Nat, kind : {"load", "fav"}, ch : Channel \union {None}, on : BOOLEAN,
            loads : Nat, stage : {"sent", "ok", "failed"}, ids : SUBSET Channel,
            fav : SUBSET Channel, alone : BOOLEAN]
  /\ r.loads <= list.loads /\ r.fav \subseteq r.ids
  /\ r.kind = "fav" => r.ch \in Channel /\ (r.loads = list.loads => r.ch \in list.ids)

CallsTyped == \A r \in calls : IsCall(r)

TablesTyped ==
  /\ catalog \subseteq Channel /\ faved \subseteq catalog /\ playlists \subseteq Playlist
  /\ list \in [ids : SUBSET Channel, fav : SUBSET Channel, loads : Nat]
  /\ list.fav \subseteq list.ids /\ behind \in BOOLEAN

PageTyped ==
  /\ search \in Search /\ box \in Search /\ pickerSearch \in Search /\ pickerBox \in Search
  /\ loading \in BOOLEAN /\ timer \in BOOLEAN /\ cut \in BOOLEAN /\ pickerTimer \in BOOLEAN
  /\ cells \in [Cell -> Channel \union {None}] /\ target \in Cell \union {0}

\* A request that overlapped no other it clashes with clashes with none.
AloneApart == \A p, q \in calls : p.alone /\ p # q => ~Clash(p, q)

\* The answer to a load that nothing overlapped is the server's present state.
AloneLoadFresh ==
  \A r \in calls : r.kind = "load" /\ r.alone /\ r.stage = "ok" =>
    r.ids = catalog /\ r.fav = faved

\* While nothing is left behind, no request under way has clashed.
NoneClashed == ~behind => \A r \in calls : r.alone

\* While nothing is left behind and no load is under way, the list is the
\* server's, except for the stars whose requests are under way.
Settled ==
  ~behind /\ (\A r \in calls : r.kind = "fav") =>
    /\ list.ids = catalog
    /\ \A ch \in Channel :
         (\A r \in calls : r.ch # ch) => (ch \in list.fav <=> ch \in faved)
    /\ \A r \in calls :
         /\ r.loads = list.loads
         /\ r.ch \in list.fav <=> r.on
         /\ r.ch \in faved <=> (r.on <=> r.stage = "ok")

Requests ==
  /\ TablesTyped /\ CallsTyped
  /\ AloneApart /\ AloneLoadFresh /\ NoneClashed /\ Settled

LibraryInv ==
  Requests /\ PageTyped /\ ViewIsCurrent /\ FiltersShown /\ acts \in 0 .. MaxActions

-----------------------------------------------------------------------------
(* Requests. *)

tables == <<catalog, faved, playlists, calls, list, behind>>

\* A callback that changes neither the list nor the requests.
LEMMA RequestsIdle == ASSUME Requests, UNCHANGED tables PROVE Requests'
<1> USE DEF tables
<1>1. TablesTyped' /\ CallsTyped'
  BY DEF Requests, TablesTyped, CallsTyped, IsCall
<1>2. AloneApart' /\ AloneLoadFresh'
  BY DEF Requests, AloneApart, AloneLoadFresh
<1>3. NoneClashed' /\ Settled'
  BY DEF Requests, NoneClashed, Settled
<1> QED BY <1>1, <1>2, <1>3 DEF Requests

\* Which requests are under way once r has joined them.
LEMMA JoinedFacts ==
  ASSUME NEW r, NEW q \in Joined(r)
  PROVE  \/ q \in calls /\ ~Clash(r, q)
         \/ \E p \in calls : Clash(r, p) /\ q = [p EXCEPT !.alone = FALSE]
         \/ q = [r EXCEPT !.alone = (Clashing(r) = {})]
  BY DEF Joined, Clashing

\* What a request that was changed in one field still is.
LEMMA AloneField ==
  ASSUME NEW r, IsCall(r), NEW b \in BOOLEAN
  PROVE  LET q == [r EXCEPT !.alone = b]
         IN  /\ IsCall(q) /\ q.alone = b /\ q.kind = r.kind /\ q.ch = r.ch /\ q.on = r.on
             /\ q.loads = r.loads /\ q.stage = r.stage /\ q.ids = r.ids /\ q.fav = r.fav
  BY DEF IsCall

\* A new request leaves the requests typed and apart, and no load alone that
\* has been served.
LEMMA SendKeeps ==
  ASSUME CallsTyped, AloneApart, NEW r, IsCall(r), r.stage = "sent", calls' = Joined(r),
         list'.ids = list.ids, list'.loads = list.loads
  PROVE  CallsTyped' /\ AloneApart' /\ AloneLoadFresh'
<1> DEFINE c(p) == [p EXCEPT !.alone = FALSE]
           new == [r EXCEPT !.alone = (Clashing(r) = {})]
<1>1. /\ IsCall(new) /\ new.alone = (Clashing(r) = {}) /\ new.kind = r.kind
      /\ new.ch = r.ch /\ new.stage = "sent"
  <2> DEFINE none == Clashing(r) = {}
  <2>1. none \in BOOLEAN
    OBVIOUS
  <2> HIDE DEF none
  <2>2. LET q == [r EXCEPT !.alone = none]
        IN  IsCall(q) /\ q.alone = none /\ q.kind = r.kind /\ q.ch = r.ch /\ q.stage = "sent"
    BY <2>1, AloneField
  <2> QED BY <2>2 DEF none
<1>2. ASSUME NEW p \in calls
      PROVE  IsCall(c(p)) /\ ~c(p).alone /\ c(p).kind = p.kind /\ c(p).ch = p.ch
  BY AloneField DEF CallsTyped
<1>3. ASSUME NEW q \in calls'
      PROVE  \/ q \in calls /\ ~Clash(r, q)
             \/ \E p \in calls : Clash(r, p) /\ q = c(p)
             \/ q = new
  BY JoinedFacts
<1>4. new.alone => \A p \in calls : ~Clash(r, p)
  BY <1>1 DEF Clashing
<1> HIDE DEF c, new
<1>5. CallsTyped'
  <2>1. \A q \in calls' : IsCall(q)
    BY <1>1, <1>2, <1>3 DEF CallsTyped
  <2> QED BY <2>1 DEF CallsTyped, IsCall
<1>6. AloneApart'
  <2> SUFFICES ASSUME NEW p \in calls', NEW q \in calls', p.alone, p # q PROVE ~Clash(p, q)
    BY DEF AloneApart
  <2>1. CASE p = new
    <3>1. ~Clash(r, q)
      BY <1>1, <1>2, <1>3, <1>4, <2>1 DEF Clash
    <3> QED BY <1>1, <2>1, <3>1 DEF Clash
  <2>2. CASE p # new
    <3>1. p \in calls /\ ~Clash(r, p)
      BY <1>2, <1>3, <2>2
    <3>2. CASE q \in calls
      BY <3>1, <3>2 DEF AloneApart
    <3>3. CASE q = new
      BY <1>1, <3>1, <3>3 DEF Clash
    <3>4. ASSUME NEW o \in calls, Clash(r, o), q = c(o) PROVE ~Clash(p, q)
      <4>1. p # o
        BY <3>1, <3>4
      <4>2. ~Clash(p, o)
        BY <3>1, <4>1 DEF AloneApart
      <4> QED BY <1>2, <3>4, <4>2 DEF Clash
    <3> QED BY <1>3, <3>2, <3>3, <3>4
  <2> QED BY <2>1, <2>2
<1>7. AloneLoadFresh'
  <2> SUFFICES ASSUME NEW q \in calls', q.kind = "load", q.alone, q.stage = "ok" PROVE FALSE
    BY DEF AloneLoadFresh
  <2>1. Clash(r, q)
    BY DEF Clash
  <2> QED BY <1>1, <1>2, <1>3, <2>1
<1> QED BY <1>5, <1>6, <1>7

\* A request that clashes with none leaves the others as they are.
LEMMA SendAlone ==
  ASSUME NEW r, IsCall(r), r.alone, calls' = Joined(r), Clashing(r) = {}
  PROVE  calls' = calls \union {r} /\ \A q \in calls : ~Clash(r, q)
<1>1. [r EXCEPT !.alone = (Clashing(r) = {})] = r
  BY DEF IsCall
<1> QED BY <1>1 DEF Joined, Clashing

\* The star of a channel (setFav): it is shown as the request will have it.
LEMMA SetFavKeeps ==
  ASSUME Requests, acts \in Nat, NEW ch \in Channel, ch \in list.ids, SetFav(ch)
  PROVE  Requests'
<1> DEFINE on == ch \notin list.fav
           r == Call(acts + 1, "fav", ch, on)
<1> USE DEF Requests
<1>1. /\ list' = [list EXCEPT !.fav = IF ch \in @ THEN @ \ {ch} ELSE @ \union {ch}]
      /\ calls' = Joined(r) /\ behind' = (behind \/ Clashing(r) # {})
      /\ UNCHANGED <<catalog, faved, playlists>>
  BY DEF SetFav, Send, server
<1>2. /\ list'.ids = list.ids /\ list'.loads = list.loads
      /\ list'.fav = IF on THEN list.fav \union {ch} ELSE list.fav \ {ch}
  BY <1>1 DEF TablesTyped
<1>3. TablesTyped'
  <2>1. list' \in [ids : SUBSET Channel, fav : SUBSET Channel, loads : Nat]
    BY <1>1 DEF TablesTyped
  <2>2. behind' \in BOOLEAN
    BY <1>1 DEF TablesTyped
  <2> QED BY <1>1, <1>2, <2>1, <2>2 DEF TablesTyped
<1>4. /\ IsCall(r) /\ r.stage = "sent" /\ r.alone /\ r.kind = "fav" /\ r.ch = ch /\ r.on = on
      /\ r.loads = list.loads
  BY DEF IsCall, Call, TablesTyped
<1> HIDE DEF r
<1>5. CallsTyped' /\ AloneApart' /\ AloneLoadFresh'
  BY <1>1, <1>2, <1>4, SendKeeps
<1>6. ASSUME ~behind' PROVE ~behind /\ calls' = calls \union {r} /\ \A q \in calls : ~Clash(r, q)
  BY <1>1, <1>4, <1>6, SendAlone
<1>7. NoneClashed'
  BY <1>4, <1>6 DEF NoneClashed
<1>8. Settled'
  <2> SUFFICES ASSUME ~behind', \A q \in calls' : q.kind = "fav"
               PROVE  /\ list'.ids = catalog'
                      /\ \A c \in Channel :
                           (\A q \in calls' : q.ch # c) => (c \in list'.fav <=> c \in faved')
                      /\ \A q \in calls' :
                           /\ q.loads = list'.loads
                           /\ q.ch \in list'.fav <=> q.on
                           /\ q.ch \in faved' <=> (q.on <=> q.stage = "ok")
    BY DEF Settled
  <2>1. ~behind /\ calls' = calls \union {r} /\ \A q \in calls : q.kind = "fav" /\ q.ch # ch
    BY <1>4, <1>6 DEF Clash
  <2>2. /\ list.ids = catalog
        /\ \A c \in Channel : (\A q \in calls : q.ch # c) => (c \in list.fav <=> c \in faved)
        /\ \A q \in calls : /\ q.loads = list.loads
                            /\ q.ch \in list.fav <=> q.on
                            /\ q.ch \in faved <=> (q.on <=> q.stage = "ok")
    BY <2>1 DEF Settled
  <2>3. ch \in faved <=> ~on
    BY <2>1, <2>2
  <2>4. /\ r.loads = list'.loads /\ (r.ch \in list'.fav <=> r.on)
        /\ r.ch \in faved' <=> (r.on <=> r.stage = "ok")
    <3> HIDE DEF on
    <3>1. (r.on <=> on) /\ (r.ch \in faved' <=> ~on)
      BY <1>1, <1>4, <2>3, Zenon
    <3>2. ch \in list'.fav <=> on
      BY <1>2
    <3>3. r.on <=> r.ch \in list'.fav
      BY <1>4, <3>1, <3>2, Zenon
    <3>4. r.loads = list'.loads /\ r.stage # "ok"
      BY <1>2, <1>4
    <3> QED BY <3>1, <3>3, <3>4, Zenon
  <2>5. \A c \in Channel : c # ch => (c \in list'.fav <=> c \in list.fav)
    BY <1>2
  <2>6. \A q \in calls : q.ch \in Channel
    BY <2>1 DEF CallsTyped, IsCall
  <2> HIDE DEF on
  <2> QED BY <1>1, <1>2, <1>4, <2>1, <2>2, <2>4, <2>5, <2>6
<1> QED BY <1>3, <1>5, <1>7, <1>8

\* An edit, whatever it changes, is followed by a load.
LEMMA EditKeeps ==
  ASSUME Requests, acts \in Nat, Edit PROVE Requests'
<1> DEFINE r == Call(acts + 1, "load", None, FALSE)
<1> USE DEF Requests
<1>1. /\ calls' = Joined(r) /\ behind' = (behind \/ Clashing(r) # {}) /\ list' = list
  BY DEF Edit, Send
<1>2. catalog' \subseteq Channel /\ faved' \subseteq catalog' /\ playlists' \subseteq Playlist
  <2>1. Manual \subseteq Channel
    BY LibraryAssumption
  <2>2. CASE \E ch \in Manual :
               \/ catalog' = catalog \union {ch} /\ faved' = faved \union {ch}
               \/ catalog' = catalog \ {ch} /\ faved' = faved \ {ch}
    BY <2>1, <2>2 DEF Edit, TablesTyped
  <2>3. ASSUME NEW p \in Playlist, NEW own \in SUBSET Channel,
               \/ /\ playlists' = playlists \union {p} /\ catalog' = catalog \union own
                  /\ UNCHANGED faved
               \/ /\ playlists' = playlists \ {p} /\ catalog' = catalog \ own
                  /\ faved' = faved \ own
        PROVE  /\ catalog' \subseteq Channel /\ faved' \subseteq catalog'
               /\ playlists' \subseteq Playlist
    BY <2>3 DEF TablesTyped
  <2> QED BY <2>2, <2>3 DEF Edit
<1>3. TablesTyped'
  BY <1>1, <1>2 DEF TablesTyped
<1>4. IsCall(r) /\ r.stage = "sent" /\ r.alone /\ r.kind = "load"
  BY DEF IsCall, Call, TablesTyped
<1> HIDE DEF r
<1>5. CallsTyped' /\ AloneApart' /\ AloneLoadFresh'
  BY <1>1, <1>4, SendKeeps
<1>6. ASSUME ~behind' PROVE ~behind /\ calls' = calls \union {r} /\ \A q \in calls : ~Clash(r, q)
  BY <1>1, <1>4, <1>6, SendAlone
<1>7. NoneClashed' /\ Settled'
  BY <1>4, <1>6 DEF NoneClashed, Settled
<1> QED BY <1>3, <1>5, <1>7

\* While nothing is left behind, a load is the only request under way.
LEMMA AloneLoadIsAll ==
  ASSUME AloneApart, NEW r \in calls, r.kind = "load", r.alone PROVE calls = {r}
  BY DEF AloneApart, Clash

\* A request that the server has handled is what it was otherwise.
LEMMA ServedKeeps ==
  ASSUME Requests, NEW r \in calls, NEW s, IsCall(s), s.kind = r.kind, s.ch = r.ch,
         s.alone = r.alone, calls' = (calls \ {r}) \union {s}, UNCHANGED <<list, behind>>
  PROVE  CallsTyped' /\ AloneApart' /\ NoneClashed'
<1>1. CallsTyped'
  BY DEF Requests, CallsTyped, IsCall
<1>2. AloneApart'
  BY DEF Requests, AloneApart, Clash
<1>3. NoneClashed'
  BY DEF Requests, NoneClashed
<1> QED BY <1>1, <1>2, <1>3

\* What the server has handled: a load, a star, or nothing of either.
LEMMA ServedCall ==
  ASSUME Requests, NEW r \in calls, NEW stage \in {"ok", "failed"}
  PROVE  LET s == [r EXCEPT !.stage = stage]
         IN  /\ IsCall(s) /\ s.kind = r.kind /\ s.ch = r.ch /\ s.alone = r.alone /\ s.on = r.on
             /\ s.loads = r.loads /\ s.stage = stage
  BY DEF Requests, CallsTyped, IsCall

LEMMA ServedLoad ==
  ASSUME Requests, NEW r \in calls
  PROVE  LET s == [r EXCEPT !.stage = "ok", !.ids = catalog, !.fav = faved]
         IN  /\ IsCall(s) /\ s.kind = r.kind /\ s.ch = r.ch /\ s.alone = r.alone
             /\ s.stage = "ok" /\ s.ids = catalog /\ s.fav = faved
  BY DEF Requests, CallsTyped, TablesTyped, IsCall

\* The server's part of a request.
LEMMA ServeKeeps ==
  ASSUME Requests, NEW r \in calls, Serve(r) PROVE Requests'
<1> USE DEF Requests
<1>1. UNCHANGED <<catalog, playlists, list, behind>> /\ r.stage = "sent"
  BY DEF Serve
<1>2. CASE /\ r.kind = "load"
           /\ calls' = (calls \ {r}) \union
                       {[r EXCEPT !.stage = "ok", !.ids = catalog, !.fav = faved]}
           /\ UNCHANGED faved
  <2> DEFINE s == [r EXCEPT !.stage = "ok", !.ids = catalog, !.fav = faved]
  <2>1. /\ IsCall(s) /\ s.kind = "load" /\ s.ch = r.ch /\ s.alone = r.alone
        /\ s.ids = catalog /\ s.fav = faved
    BY <1>2, ServedLoad
  <2>2. calls' = (calls \ {r}) \union {s} /\ UNCHANGED faved
    BY <1>2
  <2> HIDE DEF s
  <2>3. TablesTyped'
    BY <1>1, <2>2 DEF TablesTyped
  <2>4. CallsTyped' /\ AloneApart' /\ NoneClashed'
    BY <1>1, <1>2, <2>1, <2>2, ServedKeeps
  <2>5. AloneLoadFresh'
    BY <1>1, <2>1, <2>2 DEF AloneLoadFresh
  <2>6. Settled'
    BY <2>1, <2>2 DEF Settled
  <2> QED BY <2>3, <2>4, <2>5, <2>6
<1>3. ASSUME NEW stage \in {"ok", "failed"}, r.kind = "fav",
             calls' = (calls \ {r}) \union {[r EXCEPT !.stage = stage]},
             stage = "ok" => r.ch \in catalog /\ faved' = IF r.on THEN faved \union {r.ch}
                                                          ELSE faved \ {r.ch},
             stage = "failed" => UNCHANGED faved
      PROVE  Requests'
  <2> DEFINE s == [r EXCEPT !.stage = stage]
  <2>1. /\ IsCall(s) /\ s.kind = "fav" /\ s.ch = r.ch /\ s.alone = r.alone /\ s.on = r.on
        /\ s.loads = r.loads /\ s.stage = stage
    BY <1>3, ServedCall
  <2>2. calls' = (calls \ {r}) \union {s}
    BY <1>3
  <2> HIDE DEF s
  <2>3. TablesTyped'
    BY <1>1, <1>3 DEF TablesTyped
  <2>4. CallsTyped' /\ AloneApart' /\ NoneClashed'
    BY <1>1, <1>3, <2>1, <2>2, ServedKeeps
  <2>5. AloneLoadFresh'
    <3>1. \A q \in calls' : q.kind = "load" => ~q.alone
      BY <1>3, <2>1, <2>2 DEF AloneApart, Clash
    <3> QED BY <3>1 DEF AloneLoadFresh
  <2>6. Settled'
    <3> SUFFICES ASSUME ~behind, \A q \in calls' : q.kind = "fav"
                 PROVE  /\ list.ids = catalog
                        /\ \A c \in Channel :
                             (\A q \in calls' : q.ch # c) => (c \in list.fav <=> c \in faved')
                        /\ \A q \in calls' :
                             /\ q.loads = list.loads
                             /\ q.ch \in list.fav <=> q.on
                             /\ q.ch \in faved' <=> (q.on <=> q.stage = "ok")
      BY <1>1 DEF Settled
    <3>1. \A q \in calls : q.kind = "fav"
      BY <1>3, <2>2
    <3>2. /\ list.ids = catalog
          /\ \A c \in Channel : (\A q \in calls : q.ch # c) => (c \in list.fav <=> c \in faved)
          /\ \A q \in calls : /\ q.loads = list.loads
                              /\ q.ch \in list.fav <=> q.on
                              /\ q.ch \in faved <=> (q.on <=> q.stage = "ok")
      BY <3>1 DEF Settled
    <3>3. \A q \in calls \ {r} : q.ch # r.ch
      BY DEF NoneClashed, AloneApart, Clash
    <3>4. \A c : c # r.ch => (c \in faved' <=> c \in faved)
      BY <1>3
    <3>5. r.ch \in faved' <=> (r.on <=> stage = "ok")
      <4>1. r.ch \in faved <=> ~r.on
        BY <1>1, <3>2
      <4>2. CASE stage = "ok"
        BY <1>3, <4>2
      <4>3. CASE stage = "failed"
        BY <1>3, <4>1, <4>3
      <4> QED BY <4>2, <4>3
    <3>6. /\ s.loads = list.loads /\ (s.ch \in list.fav <=> s.on)
          /\ s.ch \in faved' <=> (s.on <=> s.stage = "ok")
      BY <2>1, <3>2, <3>5, Zenon
    <3> QED BY <2>1, <2>2, <3>2, <3>3, <3>4, <3>6
  <2> QED BY <2>3, <2>4, <2>5, <2>6
<1>4. ASSUME r.kind = "load", calls' = (calls \ {r}) \union {[r EXCEPT !.stage = "failed"]},
             UNCHANGED faved
      PROVE  Requests'
  <2> DEFINE s == [r EXCEPT !.stage = "failed"]
  <2>1. IsCall(s) /\ s.kind = "load" /\ s.ch = r.ch /\ s.alone = r.alone /\ s.stage = "failed"
    BY <1>4, ServedCall
  <2>2. calls' = (calls \ {r}) \union {s} /\ UNCHANGED faved
    BY <1>4
  <2> HIDE DEF s
  <2>3. TablesTyped'
    BY <1>1, <2>2 DEF TablesTyped
  <2>4. CallsTyped' /\ AloneApart' /\ NoneClashed'
    BY <1>1, <1>4, <2>1, <2>2, ServedKeeps
  <2>5. AloneLoadFresh'
    BY <1>1, <2>1, <2>2 DEF AloneLoadFresh
  <2>6. Settled'
    BY <2>1, <2>2 DEF Settled
  <2> QED BY <2>3, <2>4, <2>5, <2>6
<1>5. r.kind \in {"load", "fav"}
  BY DEF CallsTyped, IsCall
<1>6. CASE r.kind = "fav" /\ r.ch \in catalog
           /\ calls' = (calls \ {r}) \union {[r EXCEPT !.stage = "ok"]}
           /\ faved' = IF r.on THEN faved \union {r.ch} ELSE faved \ {r.ch}
  BY <1>3, <1>6
<1>7. CASE calls' = (calls \ {r}) \union {[r EXCEPT !.stage = "failed"]} /\ UNCHANGED faved
  BY <1>3, <1>4, <1>5, <1>7
<1> QED
  <2>1. \/ /\ r.kind = "load"
           /\ calls' = (calls \ {r}) \union
                       {[r EXCEPT !.stage = "ok", !.ids = catalog, !.fav = faved]}
           /\ UNCHANGED faved
        \/ /\ r.kind = "fav" /\ r.ch \in catalog
           /\ calls' = (calls \ {r}) \union {[r EXCEPT !.stage = "ok"]}
           /\ faved' = IF r.on THEN faved \union {r.ch} ELSE faved \ {r.ch}
        \/ calls' = (calls \ {r}) \union {[r EXCEPT !.stage = "failed"]} /\ UNCHANGED faved
    BY DEF Serve
  <2> QED BY <1>2, <1>6, <1>7, <2>1

\* Fewer requests are under way, the rest are as they were.
LEMMA AnsweredKeeps ==
  ASSUME Requests, NEW r \in calls, calls' = calls \ {r}, UNCHANGED <<catalog, faved, playlists>>
  PROVE  AloneApart' /\ AloneLoadFresh'
  BY DEF Requests, AloneApart, AloneLoadFresh

\* The answer to a load (loadChannels).
LEMMA LoadAnsweredKeeps ==
  ASSUME Requests, NEW r \in calls, LoadAnswered(r) PROVE Requests'
<1> USE DEF Requests
<1>1. /\ r.kind = "load" /\ r.stage # "sent" /\ calls' = calls \ {r}
      /\ UNCHANGED <<catalog, faved, playlists>>
  BY DEF LoadAnswered, server
<1>2. AloneApart' /\ AloneLoadFresh'
  BY <1>1, AnsweredKeeps
<1>3. CASE r.stage = "ok"
  <2>1. /\ list' = [ids |-> r.ids, fav |-> r.fav, loads |-> list.loads + 1]
        /\ behind' = (behind /\ ~r.alone)
    BY <1>3 DEF LoadAnswered
  <2>2. IsCall(r)
    BY DEF CallsTyped
  <2>3. TablesTyped'
    <3>1. list' \in [ids : SUBSET Channel, fav : SUBSET Channel, loads : Nat]
      BY <2>1, <2>2 DEF TablesTyped, IsCall
    <3>2. list'.fav \subseteq list'.ids
      BY <2>1, <2>2 DEF IsCall
    <3>3. behind' \in BOOLEAN
      BY <2>1 DEF TablesTyped
    <3> QED BY <1>1, <3>1, <3>2, <3>3 DEF TablesTyped
  <2>4. CallsTyped'
    BY <1>1, <2>1 DEF CallsTyped, IsCall, TablesTyped
  <2>5. ASSUME ~behind' PROVE calls' = {} /\ list'.ids = catalog /\ list'.fav = faved
    <3>1. r.alone
      BY <2>1, <2>5 DEF NoneClashed
    <3> QED BY <1>1, <1>3, <2>1, <3>1, AloneLoadIsAll DEF AloneLoadFresh
  <2>6. NoneClashed' /\ Settled'
    BY <1>1, <2>5 DEF NoneClashed, Settled
  <2> QED BY <1>2, <2>3, <2>4, <2>6
<1>4. CASE r.stage # "ok"
  <2>1. UNCHANGED list /\ behind' = TRUE
    BY <1>4 DEF LoadAnswered
  <2>2. TablesTyped' /\ CallsTyped'
    BY <1>1, <2>1 DEF TablesTyped, CallsTyped, IsCall
  <2>3. NoneClashed' /\ Settled'
    BY <2>1 DEF NoneClashed, Settled
  <2> QED BY <1>2, <2>2, <2>3
<1> QED BY <1>3, <1>4

\* The answer to a star (setFav): a failure puts it back.
LEMMA FavAnsweredKeeps ==
  ASSUME Requests, NEW r \in calls, FavAnswered(r) PROVE Requests'
<1> USE DEF Requests
<1> DEFINE undone == r.stage = "failed" /\ r.loads = list.loads
<1>1. /\ r.kind = "fav" /\ r.stage # "sent" /\ calls' = calls \ {r}
      /\ UNCHANGED <<catalog, faved, playlists, behind>>
      /\ list' = IF undone
                   THEN [list EXCEPT !.fav = IF r.on THEN @ \ {r.ch} ELSE @ \union {r.ch}]
                   ELSE list
  BY DEF FavAnswered, server
<1>2. AloneApart' /\ AloneLoadFresh'
  BY <1>1, AnsweredKeeps
<1>3. IsCall(r)
  BY DEF CallsTyped
<1>4. /\ list'.ids = list.ids /\ list'.loads = list.loads
      /\ undone => list'.fav = IF r.on THEN list.fav \ {r.ch} ELSE list.fav \union {r.ch}
      /\ ~undone => list'.fav = list.fav
  BY <1>1 DEF TablesTyped
<1>5. TablesTyped'
  <2>1. undone => r.ch \in list.ids
    BY <1>1, <1>3 DEF IsCall
  <2>2. list' \in [ids : SUBSET Channel, fav : SUBSET Channel, loads : Nat]
    BY <1>1, <1>3 DEF TablesTyped, IsCall
  <2>3. list'.fav \subseteq list'.ids
    BY <1>4, <2>1 DEF TablesTyped
  <2> QED BY <1>1, <2>2, <2>3 DEF TablesTyped
<1>6. CallsTyped'
  BY <1>1, <1>4 DEF CallsTyped, IsCall
<1>7. NoneClashed'
  BY <1>1 DEF NoneClashed
<1>8. Settled'
  <2> SUFFICES ASSUME ~behind, \A q \in calls' : q.kind = "fav"
               PROVE  /\ list'.ids = catalog
                      /\ \A c \in Channel :
                           (\A q \in calls' : q.ch # c) => (c \in list'.fav <=> c \in faved)
                      /\ \A q \in calls' :
                           /\ q.loads = list'.loads
                           /\ q.ch \in list'.fav <=> q.on
                           /\ q.ch \in faved <=> (q.on <=> q.stage = "ok")
    BY <1>1 DEF Settled
  <2>1. \A q \in calls : q.kind = "fav"
    BY <1>1
  <2>2. /\ list.ids = catalog
        /\ \A c \in Channel : (\A q \in calls : q.ch # c) => (c \in list.fav <=> c \in faved)
        /\ \A q \in calls : /\ q.loads = list.loads
                            /\ q.ch \in list.fav <=> q.on
                            /\ q.ch \in faved <=> (q.on <=> q.stage = "ok")
    BY <2>1 DEF Settled
  <2>3. \A q \in calls \ {r} : q.ch # r.ch
    BY DEF NoneClashed, AloneApart, Clash
  <2>4. \A c : c # r.ch => (c \in list'.fav <=> c \in list.fav)
    BY <1>4
  <2>5. r.ch \in list'.fav <=> r.ch \in faved
    <3>1. (r.ch \in list.fav <=> r.on) /\ (r.ch \in faved <=> (r.on <=> r.stage = "ok"))
      BY <2>2
    <3>2. CASE r.stage = "failed"
      <4>1. undone
        BY <2>2, <3>2
      <4> QED BY <1>4, <3>1, <3>2, <4>1
    <3>3. CASE r.stage = "ok"
      BY <1>4, <3>1, <3>3
    <3> QED BY <1>1, <1>3, <3>2, <3>3 DEF IsCall
  <2> HIDE DEF undone
  <2> QED BY <1>1, <1>4, <2>2, <2>3, <2>4, <2>5
<1> QED BY <1>2, <1>5, <1>6, <1>7, <1>8

-----------------------------------------------------------------------------
(* What is drawn, and what filters it. *)

Page == PageTyped /\ ViewIsCurrent /\ FiltersShown

browsed == <<list, loading, search, country, selected, tab>>

\* A callback that draws the side bar draws it as it should be.
LEMMA DrawnKeeps ==
  ASSUME RenderChannelList, target' # 0 => pickerView' = PickerChannels'
  PROVE  ViewIsCurrent'
  BY DEF RenderChannelList, ViewIsCurrent, Shown, Browse

\* One that does not draw it may not change what it depends on.
LEMMA UndrawnKeeps ==
  ASSUME ViewIsCurrent, UNCHANGED <<browsed, view, marks, deadShown>>, lit' = Active',
         target' # 0 => pickerView' = PickerChannels'
  PROVE  ViewIsCurrent'
<1>1. Browse' = Browse
  BY DEF browsed, Browse, Drawing, OnTab, FavSection, OfPlaylist, WorkingSet
<1>2. Shown' = Shown
  BY DEF Shown
<1> QED BY <1>1, <1>2 DEF ViewIsCurrent

\* The screens that play are highlighted as long as neither changes.
LEMMA LitKeeps == ASSUME ViewIsCurrent, UNCHANGED <<cells, lit>> PROVE lit' = Active'
  BY DEF ViewIsCurrent, Active

\* The picker shows what it should as long as neither list nor term changes.
LEMMA PickerKeeps ==
  ASSUME ViewIsCurrent, target' \in {0, target}, list'.ids = list.ids,
         target' # 0 => UNCHANGED <<pickerSearch, pickerView>>
  PROVE  target' # 0 => pickerView' = PickerChannels'
  BY DEF ViewIsCurrent, PickerChannels

\* The filters are shown as long as nothing about them changes.
LEMMA FiltersKeep ==
  ASSUME FiltersShown, UNCHANGED <<filters, picker>>, list'.ids = list.ids
  PROVE  FiltersShown'
  BY DEF FiltersShown, filters, picker, Countries

LEMMA TypesKeep ==
  ASSUME PageTyped, UNCHANGED <<filters, picker, cells>>, loading' \in BOOLEAN
  PROVE  PageTyped'
  BY DEF PageTyped, filters, picker

\* The server draws nothing.
LEMMA ServePage == ASSUME Page, NEW r, Serve(r) PROVE Page'
<1>1. UNCHANGED <<list, loading, filters, drawn, picker, screens>>
  BY DEF Serve
<1>2. ViewIsCurrent'
  BY <1>1, UndrawnKeeps, LitKeeps, PickerKeeps DEF Page, browsed, filters, drawn, picker, screens
<1> QED BY <1>1, <1>2, FiltersKeep, TypesKeep DEF Page, PageTyped, screens

\* Nor do the requests of an edit.
LEMMA EditPage == ASSUME Page, Edit PROVE Page'
<1>1. UNCHANGED <<list, loading, filters, drawn, picker, screens>>
  BY DEF Edit
<1>2. ViewIsCurrent'
  BY <1>1, UndrawnKeeps, LitKeeps, PickerKeeps DEF Page, browsed, filters, drawn, picker, screens
<1> QED BY <1>1, <1>2, FiltersKeep, TypesKeep DEF Page, PageTyped, screens

\* A star that was pressed is drawn.
LEMMA SetFavPage == ASSUME Page, TablesTyped, NEW ch, SetFav(ch) PROVE Page'
<1>1. UNCHANGED <<loading, filters, picker, screens>> /\ RenderChannelList
  BY DEF SetFav
<1>2. list'.ids = list.ids
  BY DEF SetFav, TablesTyped
<1>3. ViewIsCurrent'
  BY <1>1, <1>2, DrawnKeeps, PickerKeeps DEF Page, picker
<1> QED BY <1>1, <1>2, <1>3, FiltersKeep, TypesKeep DEF Page, PageTyped, screens

\* So is one that was put back.
LEMMA FavAnsweredPage == ASSUME Page, TablesTyped, NEW r, FavAnswered(r) PROVE Page'
<1>1. UNCHANGED <<loading, filters, picker, screens>>
  BY DEF FavAnswered
<1>2. list'.ids = list.ids
  BY DEF FavAnswered, TablesTyped
<1>3. ViewIsCurrent'
  <2>1. target' # 0 => pickerView' = PickerChannels'
    BY <1>1, <1>2, PickerKeeps DEF Page, picker
  <2>2. CASE r.stage = "failed"
    BY <2>1, <2>2, DrawnKeeps DEF FavAnswered
  <2>3. CASE r.stage # "failed"
    <3>1. UNCHANGED <<list, drawn>>
      BY <2>3 DEF FavAnswered
    <3> QED BY <1>1, <2>1, <3>1, UndrawnKeeps, LitKeeps DEF Page, browsed, filters, drawn, screens
  <2> QED BY <2>2, <2>3
<1> QED BY <1>1, <1>2, <1>3, FiltersKeep, TypesKeep DEF Page, PageTyped, screens

\* A list that was loaded is drawn, and the countries offered are its own.
LEMMA LoadAnsweredPage == ASSUME Page, NEW r, LoadAnswered(r) PROVE Page'
<1>1. /\ UNCHANGED <<search, box, timer, selected, offered, tab, cut,
                     target, pickerSearch, pickerBox, pickerTimer, screens>>
      /\ loading' = FALSE /\ RenderChannelList
  BY DEF LoadAnswered
<1>2. CASE r.stage = "ok"
  <2>1. /\ list'.ids = r.ids /\ PopulateCountryFilter(r.ids)
        /\ target # 0 => RenderPicker
    BY <1>2 DEF LoadAnswered
  <2>2. ViewIsCurrent'
    BY <1>1, <2>1, DrawnKeeps DEF RenderPicker
  <2>3. country' \in countries' \union {None} /\ countries' = Countries(list'.ids)
    BY <2>1 DEF PopulateCountryFilter, Page, FiltersShown
  <2>4. FiltersShown'
    BY <1>1, <2>3 DEF Page, FiltersShown
  <2> QED BY <1>1, <2>2, <2>4 DEF Page, PageTyped, screens
<1>3. CASE r.stage # "ok"
  <2>1. UNCHANGED <<list, country, countries, pickerView>>
    BY <1>3 DEF LoadAnswered
  <2>2. ViewIsCurrent'
    BY <1>1, <2>1, DrawnKeeps, PickerKeeps DEF Page
  <2> QED BY <1>1, <2>1, <2>2, FiltersKeep, TypesKeep DEF Page, filters, picker, screens
<1> QED BY <1>2, <1>3

\* A sequence of the elements of a set starts with one of them.
LEMMA SeqOfSet ==
  ASSUME NEW S, IsFiniteSet(S), SetToSeq(S) # <<>>
  PROVE  SetToSeq(S)[1] \in ToSet(SetToSeq(S))
<1> DEFINE n == Cardinality(S)
           s == SetToSeq(S)
<1>1. n \in Nat /\ ExistsBijection(1 .. n, S)
  BY FS_CardinalityType
<1>2. \E f \in [1 .. n -> S] : IsInjective(f)
  BY <1>1 DEF ExistsBijection, Bijection, Injection
<1>3. s \in [1 .. n -> S]
  BY <1>2 DEF SetToSeq
<1> HIDE DEF s, n
<1>4. s # <<>> => n # 0
  BY <1>1, <1>3
<1>5. 1 \in DOMAIN s
  BY <1>1, <1>3, <1>4 DEF s
<1> QED BY <1>5 DEF s, ToSet

\* The playlists offered (initPlaylistFilter): the first is selected.
LEMMA PlaylistsAnsweredPage ==
  ASSUME Page, playlists \subseteq Playlist, PlaylistsAnswered PROVE Page'
<1>1. /\ UNCHANGED <<list, loading, search, box, timer, tab, cut, country, countries, picker,
                     screens>>
      /\ RenderChannelList
  BY DEF PlaylistsAnswered
<1>2. ViewIsCurrent'
  BY <1>1, DrawnKeeps, PickerKeeps DEF Page, picker
<1>3. IF offered' = <<>> THEN selected' = None ELSE selected' \in ToSet(offered')
  <2>1. IsFiniteSet(playlists)
    BY LibraryAssumption, FS_Subset
  <2>2. offered' # <<>> => offered'[1] \in ToSet(offered')
    BY <2>1, SeqOfSet DEF PlaylistsAnswered
  <2> QED BY <2>2 DEF PlaylistsAnswered
<1>4. FiltersShown'
  BY <1>1, <1>3 DEF Page, FiltersShown, picker
<1> QED BY <1>1, <1>2, <1>4 DEF Page, PageTyped, picker, screens

\* What every filter leaves alone.
LEMMA FilteredFacts ==
  ASSUME Page, Filtered
  PROVE  /\ UNCHANGED <<list, loading, countries, offered, picker, screens>>
         /\ target' # 0 => pickerView' = PickerChannels'
  BY PickerKeeps DEF Page, Filtered, picker

\* Typing into the search box starts its timer; closing the drawer stops it.
LEMMA TypedPage ==
  ASSUME Page,
         (\E q \in Search : TypeSearch(q)) \/ CloseDrawers
  PROVE  Page'
<1>1. /\ UNCHANGED <<list, loading, countries, offered, picker, screens>>
      /\ target' # 0 => pickerView' = PickerChannels'
      /\ UNCHANGED <<search, country, selected, tab, drawn>>
  BY FilteredFacts DEF TypeSearch, CloseDrawers
<1>2. /\ timer' \in BOOLEAN /\ cut' \in BOOLEAN /\ box' \in Search
      /\ box' # search => timer' \/ cut'
  BY DEF TypeSearch, CloseDrawers, Page, PageTyped, FiltersShown
<1>3. ViewIsCurrent'
  BY <1>1, UndrawnKeeps, LitKeeps DEF Page, browsed, drawn, screens
<1>4. FiltersShown'
  BY <1>1, <1>2 DEF Page, FiltersShown, picker
<1> QED BY <1>1, <1>2, <1>3, <1>4 DEF Page, PageTyped, picker, screens

\* A search that is made is what the box says.
LEMMA SearchPage ==
  ASSUME Page, NEW q \in Search, SetSearch(q), timer' \in BOOLEAN PROVE Page'
<1>1. /\ UNCHANGED <<list, loading, countries, offered, picker, screens>>
      /\ target' # 0 => pickerView' = PickerChannels'
      /\ UNCHANGED <<country, selected, tab>> /\ RenderChannelList
      /\ search' = q /\ box' = q /\ cut' = FALSE
  BY FilteredFacts DEF SetSearch
<1>2. ViewIsCurrent'
  BY <1>1, DrawnKeeps
<1>3. FiltersShown'
  BY <1>1 DEF Page, FiltersShown, picker
<1> QED BY <1>1, <1>2, <1>3 DEF Page, PageTyped, picker, screens

\* A country, a playlist or a tab that is chosen is one of those offered.
LEMMA ChosenPage ==
  ASSUME Page,
         \/ \E c \in countries \union {None} : ChooseCountry(c)
         \/ \E p \in Playlist : ChoosePlaylist(p)
         \/ \E t \in {"channels", "movies"} : ChooseTab(t)
  PROVE  Page'
<1>1. Filtered /\ RenderChannelList /\ UNCHANGED <<search, box, timer, cut>>
  BY DEF ChooseCountry, ChoosePlaylist, ChooseTab
<1>2. /\ UNCHANGED <<list, loading, countries, offered, picker, screens>>
      /\ target' # 0 => pickerView' = PickerChannels'
  BY <1>1, FilteredFacts
<1>3. /\ country' \in countries \union {None}
      /\ IF offered = <<>> THEN selected' = None ELSE selected' \in ToSet(offered)
  <2>1. offered = <<>> => ToSet(offered) = {}
    BY DEF ToSet
  <2> QED BY <2>1 DEF ChooseCountry, ChoosePlaylist, ChooseTab, Page, FiltersShown
<1>4. ViewIsCurrent'
  BY <1>1, <1>2, DrawnKeeps
<1>5. FiltersShown'
  BY <1>1, <1>2, <1>3 DEF Page, FiltersShown, picker
<1> QED BY <1>1, <1>2, <1>4, <1>5 DEF Page, PageTyped, picker, screens

\* The picker, as long as it leaves the screens alone.
LEMMA PickerPage ==
  ASSUME Page, Picking, UNCHANGED <<cells, lit>>,
         target' \in Cell \union {0}, pickerSearch' \in Search, pickerBox' \in Search,
         pickerTimer' \in BOOLEAN, target' # 0 => pickerView' = PickerChannels',
         IF target' = 0 THEN pickerSearch' = "" /\ pickerBox' = ""
         ELSE pickerBox' # pickerSearch' => pickerTimer'
  PROVE  Page'
<1>1. UNCHANGED <<list, loading, filters, view, deadShown, marks>>
  BY DEF Picking
<1>2. ViewIsCurrent'
  BY <1>1, UndrawnKeeps, LitKeeps DEF Page, browsed, filters
<1>3. FiltersShown'
  BY <1>1 DEF Page, FiltersShown, filters
<1> QED BY <1>1, <1>2, <1>3 DEF Page, PageTyped, filters

\* Opening the picker, searching in it and closing it.
LEMMA OpenPickerPage ==
  ASSUME Page, NEW i \in Cell, OpenPicker(i) PROVE Page'
<1>1. i # 0
  BY LibraryAssumption
<1>2. /\ target' = i /\ UNCHANGED <<pickerSearch, pickerBox, pickerTimer>>
      /\ pickerView' = PickerChannels'
  BY DEF OpenPicker, RenderPicker
<1>3. pickerBox # pickerSearch => pickerTimer
  BY DEF Page, FiltersShown
<1> QED BY <1>1, <1>2, <1>3, PickerPage DEF OpenPicker, Page, PageTyped

LEMMA TypePickerPage ==
  ASSUME Page, NEW q \in Search, TypePicker(q) PROVE Page'
<1>1. /\ target # 0 /\ target' = target /\ UNCHANGED <<pickerSearch, pickerView, list>>
      /\ pickerBox' = q /\ pickerTimer' = TRUE
  BY DEF TypePicker, Picking
<1>2. target' # 0 => pickerView' = PickerChannels'
  BY <1>1, PickerKeeps DEF Page
<1> QED BY <1>1, <1>2, PickerPage DEF TypePicker, Page, PageTyped

LEMMA PickerSearchPage ==
  ASSUME Page, NEW q \in Search, target = 0 => q = "", PickerSearch(q), pickerTimer' \in BOOLEAN
  PROVE  Page'
<1>1. /\ target' = target /\ pickerSearch' = q /\ pickerBox' = q
      /\ pickerView' = PickerChannels'
  BY DEF PickerSearch, RenderPicker
<1> QED BY <1>1, PickerPage DEF PickerSearch, Page, PageTyped

LEMMA ClosePickerPage == ASSUME Page, ClosePicker PROVE Page'
<1>1. "" \in Search
  BY LibraryAssumption
<1> QED BY <1>1, PickerPage DEF ClosePicker, EmptyPicker

\* A channel put on a screen is highlighted.
LEMMA AssignPage ==
  ASSUME Page, Picking, NEW i, NEW ch \in Channel, Assign(i, ch),
         \/ EmptyPicker
         \/ UNCHANGED <<target, pickerSearch, pickerBox, pickerTimer, pickerView>>
  PROVE  Page'
<1>1. /\ UNCHANGED <<list, loading, filters, view, deadShown, marks>> /\ lit' = Active'
      /\ cells' = [cells EXCEPT ![i] = ch]
  BY DEF Picking, Assign
<1>2. cells' \in [Cell -> Channel \union {None}]
  BY <1>1 DEF Page, PageTyped
<1>3. target' # 0 => pickerView' = PickerChannels'
  BY <1>1, PickerKeeps DEF EmptyPicker, Page
<1>4. ViewIsCurrent'
  BY <1>1, <1>3, UndrawnKeeps DEF Page, browsed, filters
<1>5. PageTyped' /\ FiltersShown'
  <2>1. "" \in Search
    BY LibraryAssumption
  <2> QED BY <1>1, <1>2, <2>1 DEF EmptyPicker, Page, PageTyped, FiltersShown, filters
<1> QED BY <1>4, <1>5 DEF Page

\* A mark of a dead channel is drawn, or shown late only for a namesake.
LEMMA SetDeadPage ==
  ASSUME Page, NEW ch \in Channel, NEW dead \in BOOLEAN, SetDead(ch, dead) PROVE Page'
<1>1. /\ UNCHANGED <<list, loading, filters, view, lit, picker, cells>>
      /\ marks' = IF dead THEN marks \union {NameOf[ch]} ELSE marks \ {NameOf[ch]}
      /\ deadShown' = IF ~dead THEN deadShown \ {ch} ELSE deadShown \union ({ch} \intersect Shown)
  BY DEF SetDead
<1>2. Shown' = Shown /\ Browse' = Browse /\ Active' = Active
  BY <1>1 DEF Shown, Browse, Drawing, OnTab, FavSection, OfPlaylist, WorkingSet, Active, filters
<1>3. ASSUME NEW c \in Shown, Twins(c) = {c} PROVE c \in deadShown' <=> NameOf[c] \in marks'
  <2>1. c \in deadShown <=> NameOf[c] \in marks
    BY <1>3 DEF Page, ViewIsCurrent
  <2>2. c # ch => NameOf[c] # NameOf[ch]
    BY <1>3 DEF Twins
  <2> QED BY <1>1, <1>3, <2>1, <2>2
<1>4. target' # 0 => pickerView' = PickerChannels'
  BY <1>1, PickerKeeps DEF Page, picker
<1>5. ViewIsCurrent'
  BY <1>1, <1>2, <1>3, <1>4 DEF Page, ViewIsCurrent
<1> QED BY <1>1, <1>5, FiltersKeep, TypesKeep DEF Page, PageTyped

-----------------------------------------------------------------------------
(* The invariant. *)

\* A load that is being sent.
LEMMA LoadCall ==
  ASSUME TablesTyped, NEW no \in Nat, NEW on \in BOOLEAN
  PROVE  LET r == Call(no, "load", None, on)
         IN  IsCall(r) /\ r.kind = "load" /\ r.alone /\ r.stage = "sent"
<1> DEFINE r == Call(no, "load", None, on)
<1>1. IsCall(r) /\ r.kind = "load" /\ r.alone /\ r.stage = "sent"
  BY DEF IsCall, Call, TablesTyped
<1> HIDE DEF r
<1> QED BY <1>1 DEF r

LEMMA OneElement == ASSUME NEW x PROVE <<x>> # <<>> /\ x \in ToSet(<<x>>)
<1>1. <<x>>[1] = x /\ DOMAIN <<x>> = {1}
  OBVIOUS
<1> QED BY <1>1 DEF ToSet

LEMMA InitInv == Init => LibraryInv
<1> SUFFICES ASSUME Init PROVE LibraryInv
  OBVIOUS
<1> USE DEF Init
<1>1. list.ids = {} /\ list.fav = {} /\ list.loads = 0
  OBVIOUS
<1>2. calls = {Call(0, "load", None, FALSE)}
  OBVIOUS
<1>3. TablesTyped
  BY LibraryAssumption DEF TablesTyped
<1>4. /\ IsCall(Call(0, "load", None, FALSE)) /\ Call(0, "load", None, FALSE).kind = "load"
      /\ Call(0, "load", None, FALSE).alone /\ Call(0, "load", None, FALSE).stage = "sent"
  <2>1. 0 \in Nat /\ FALSE \in BOOLEAN
    OBVIOUS
  <2> QED BY <1>3, <2>1, LoadCall
<1>5. CallsTyped /\ AloneApart /\ AloneLoadFresh /\ NoneClashed /\ Settled
  BY <1>2, <1>4 DEF CallsTyped, AloneApart, AloneLoadFresh, NoneClashed, Settled
<1>6. PageTyped
  BY LibraryAssumption DEF PageTyped
<1>7. ViewIsCurrent
  <2>1. view = Browse /\ Shown = {}
    BY DEF Shown, Browse, Drawing, OnTab, FavSection
  <2>2. lit = Active
    BY DEF Active
  <2> QED BY <2>1, <2>2 DEF ViewIsCurrent
<1>8. FiltersShown
  <2>1. Countries(list.ids) = {}
    BY <1>1 DEF Countries
  <2>2. offered # <<>> /\ None \in ToSet(offered)
    <3>1. offered = <<None>>
      OBVIOUS
    <3> HIDE DEF Init
    <3> QED BY <3>1, OneElement
  <2> QED BY <2>1, <2>2 DEF FiltersShown
<1>9. acts \in 0 .. MaxActions
  <2>1. MaxActions \in Nat
    BY LibraryAssumption
  <2>2. acts = 0
    OBVIOUS
  <2> HIDE DEF Init
  <2> QED BY <2>1, <2>2
<1> QED BY <1>3, <1>5, <1>6, <1>7, <1>8, <1>9 DEF LibraryInv, Requests

\* Every channel that can be starred is listed.
LEMMA StarsListed ==
  ASSUME LibraryInv, NEW ch \in Stars PROVE ch \in list.ids
<1>1. view.favs \subseteq list.ids /\ view.matches \subseteq list.ids
  BY DEF LibraryInv, ViewIsCurrent, Browse, Drawing, OnTab, FavSection, WorkingSet, Requests, TablesTyped
<1>2. target # 0 => pickerView \subseteq list.ids
  BY DEF LibraryInv, ViewIsCurrent, PickerChannels
<1> QED BY <1>1, <1>2 DEF Stars, Shown

\* Each action of the user keeps the invariant.
LEMMA UserInv == ASSUME LibraryInv, User PROVE LibraryInv'
<1>1. Page /\ Requests /\ acts \in Nat /\ acts' \in 0 .. MaxActions
  <2>1. Page /\ Requests /\ acts \in 0 .. MaxActions
    BY DEF LibraryInv, Page
  <2>2. acts < MaxActions /\ acts' = acts + 1
    BY DEF User
  <2>3. MaxActions \in Nat
    BY LibraryAssumption
  <2>4. acts \in Nat /\ acts' \in 0 .. MaxActions
    BY <2>1, <2>2, <2>3
  <2> QED BY <2>1, <2>4
<1> SUFFICES Requests' /\ Page'
  BY <1>1 DEF LibraryInv, Page
<1>2. ASSUME NEW ch \in Channel, SetFav(ch) PROVE Requests' /\ Page'
  <2>1. ch \in list.ids
    BY <1>2, StarsListed DEF SetFav
  <2>2. Requests'
    BY <1>1, <1>2, <2>1, SetFavKeeps
  <2>3. Page'
    BY <1>1, <1>2, SetFavPage DEF Requests
  <2> QED BY <2>2, <2>3
<1>3. CASE Edit
  <2>1. Requests'
    BY <1>1, <1>3, EditKeeps
  <2>2. Page'
    BY <1>1, <1>3, EditPage
  <2> QED BY <2>1, <2>2
<1>4. UNCHANGED tables => Requests'
  BY <1>1, RequestsIdle
<1>5. ASSUME NEW q \in Search, TypeSearch(q) \/ TypePicker(q) PROVE Requests' /\ Page'
  <2>1. UNCHANGED tables
    BY <1>5 DEF TypeSearch, TypePicker, Filtered, Picking, server, tables
  <2>2. Page'
    BY <1>1, <1>5, TypedPage, TypePickerPage
  <2> QED BY <1>4, <2>1, <2>2
<1>6. CASE UNCHANGED timer /\ SetSearch("")
  <2>1. UNCHANGED tables
    BY <1>6 DEF SetSearch, Filtered, server, tables
  <2>2. "" \in Search /\ timer' \in BOOLEAN
    BY <1>1, <1>6, LibraryAssumption DEF Page, PageTyped
  <2>3. Page'
    BY <1>1, <1>6, <2>2, SearchPage
  <2> QED BY <1>4, <2>1, <2>3
<1>7. CASE CloseDrawers
  <2>1. UNCHANGED tables
    BY <1>7 DEF CloseDrawers, Filtered, server, tables
  <2>2. Page'
    BY <1>1, <1>7, TypedPage
  <2> QED BY <1>4, <2>1, <2>2
<1>8. CASE \/ \E c \in countries \union {None} : ChooseCountry(c)
           \/ \E p \in Playlist : ChoosePlaylist(p)
           \/ \E t \in {"channels", "movies"} : ChooseTab(t)
  <2>1. UNCHANGED tables
    BY <1>8 DEF ChooseCountry, ChoosePlaylist, ChooseTab, Filtered, server, tables
  <2>2. Page'
    BY <1>1, <1>8, ChosenPage
  <2> QED BY <1>4, <2>1, <2>2
<1>9. ASSUME NEW i \in Cell, OpenPicker(i) PROVE Requests' /\ Page'
  <2>1. UNCHANGED tables
    BY <1>9 DEF OpenPicker, Picking, server, tables
  <2>2. Page'
    BY <1>1, <1>9, OpenPickerPage
  <2> QED BY <1>4, <2>1, <2>2
<1>10. CASE target # 0 /\ PickerSearch("") /\ UNCHANGED pickerTimer
  <2>1. UNCHANGED tables
    BY <1>10 DEF PickerSearch, Picking, server, tables
  <2>2. "" \in Search /\ pickerTimer' \in BOOLEAN
    BY <1>1, <1>10, LibraryAssumption DEF Page, PageTyped
  <2>3. Page'
    BY <1>1, <1>10, <2>2, PickerSearchPage
  <2> QED BY <1>4, <2>1, <2>3
<1>11. CASE ClosePicker
  <2>1. UNCHANGED tables
    BY <1>11 DEF ClosePicker, Picking, server, tables
  <2>2. Page'
    BY <1>1, <1>11, ClosePickerPage
  <2> QED BY <1>4, <2>1, <2>2
<1>12. ASSUME NEW ch \in Channel, Pick(ch) \/ BrowseSelect(ch) PROVE Requests' /\ Page'
  <2>1. UNCHANGED tables
    BY <1>12 DEF Pick, BrowseSelect, Picking, server, tables
  <2>2. /\ Picking /\ \E i : Assign(i, ch)
        /\ \/ EmptyPicker
           \/ UNCHANGED <<target, pickerSearch, pickerBox, pickerTimer, pickerView>>
    BY <1>12 DEF Pick, BrowseSelect
  <2>3. Page'
    BY <1>1, <2>2, AssignPage
  <2> QED BY <1>4, <2>1, <2>3
<1>13. ASSUME NEW ch \in Active, NEW dead \in BOOLEAN, SetDead(ch, dead)
       PROVE  Requests' /\ Page'
  <2>1. UNCHANGED tables
    BY <1>13 DEF SetDead, server, tables
  <2>2. ch \in Channel
    BY <1>1 DEF Active, Page, PageTyped
  <2>3. Page'
    BY <1>1, <1>13, <2>2, SetDeadPage
  <2> QED BY <1>4, <2>1, <2>3
<1>14. \/ \E ch \in Channel : SetFav(ch) \/ BrowseSelect(ch) \/ Pick(ch)
       \/ Edit
       \/ \E q \in Search : TypeSearch(q) \/ TypePicker(q)
       \/ UNCHANGED timer /\ SetSearch("")
       \/ CloseDrawers
       \/ \/ \E c \in countries \union {None} : ChooseCountry(c)
          \/ \E p \in Playlist : ChoosePlaylist(p)
          \/ \E t \in {"channels", "movies"} : ChooseTab(t)
       \/ \E i \in Cell : OpenPicker(i)
       \/ target # 0 /\ PickerSearch("") /\ UNCHANGED pickerTimer
       \/ ClosePicker
       \/ \E ch \in Active, dead \in BOOLEAN : SetDead(ch, dead)
  BY DEF User
<1> QED BY <1>2, <1>3, <1>5, <1>6, <1>7, <1>8, <1>9, <1>10, <1>11, <1>12, <1>13, <1>14

\* So do the timers.
LEMMA TimersInv == ASSUME LibraryInv, SearchFires \/ PickerFires PROVE LibraryInv'
<1>1. Page /\ UNCHANGED tables /\ UNCHANGED acts
  BY DEF LibraryInv, Page, SearchFires, PickerFires, SetSearch, PickerSearch, Filtered, Picking,
         server, tables
<1>2. CASE SearchFires
  <2>1. box \in Search /\ SetSearch(box) /\ timer' \in BOOLEAN
    BY <1>1, <1>2 DEF SearchFires, Page, PageTyped
  <2> QED BY <1>1, <2>1, SearchPage, RequestsIdle DEF LibraryInv, Page
<1>3. CASE PickerFires
  <2>1. /\ pickerBox \in Search /\ PickerSearch(pickerBox) /\ pickerTimer' \in BOOLEAN
        /\ target = 0 => pickerBox = ""
    BY <1>1, <1>3 DEF PickerFires, Page, PageTyped, FiltersShown
  <2> QED BY <1>1, <2>1, PickerSearchPage, RequestsIdle DEF LibraryInv, Page
<1> QED BY <1>2, <1>3

\* And what the server does and answers.
LEMMA ServerInv ==
  ASSUME LibraryInv,
         \/ PlaylistsAnswered
         \/ \E r \in calls : Serve(r) \/ LoadAnswered(r) \/ FavAnswered(r)
  PROVE  LibraryInv'
<1>1. Page /\ Requests /\ TablesTyped
  BY DEF LibraryInv, Page, Requests
<1>2. UNCHANGED acts
  BY DEF PlaylistsAnswered, Serve, LoadAnswered, FavAnswered
<1>3. CASE PlaylistsAnswered
  <2>1. UNCHANGED tables
    BY <1>3 DEF PlaylistsAnswered, server, tables
  <2> QED BY <1>1, <1>2, <1>3, <2>1, RequestsIdle, PlaylistsAnsweredPage
             DEF LibraryInv, Page, TablesTyped
<1>4. ASSUME NEW r \in calls, Serve(r) PROVE LibraryInv'
  BY <1>1, <1>2, <1>4, ServeKeeps, ServePage DEF LibraryInv, Page
<1>5. ASSUME NEW r \in calls, LoadAnswered(r) PROVE LibraryInv'
  BY <1>1, <1>2, <1>5, LoadAnsweredKeeps, LoadAnsweredPage DEF LibraryInv, Page
<1>6. ASSUME NEW r \in calls, FavAnswered(r) PROVE LibraryInv'
  BY <1>1, <1>2, <1>6, FavAnsweredKeeps, FavAnsweredPage DEF LibraryInv, Page
<1> QED BY <1>3, <1>4, <1>5, <1>6

LEMMA InvHolds == Spec => []LibraryInv
<1>1. LibraryInv /\ [Next]_vars => LibraryInv'
  <2> SUFFICES ASSUME LibraryInv, [Next]_vars PROVE LibraryInv'
    OBVIOUS
  <2>1. CASE Next
    BY <2>1, UserInv, TimersInv, ServerInv DEF Next
  <2>2. CASE UNCHANGED vars
    <3> USE <2>2 DEF vars, server, filters, drawn, picker, screens
    <3>1. Requests' /\ acts' \in 0 .. MaxActions
      BY RequestsIdle DEF LibraryInv, tables
    <3>2. ViewIsCurrent'
      BY UndrawnKeeps, LitKeeps, PickerKeeps DEF LibraryInv, browsed
    <3>3. PageTyped' /\ FiltersShown'
      BY FiltersKeep, TypesKeep DEF LibraryInv, PageTyped
    <3> QED BY <3>1, <3>2, <3>3 DEF LibraryInv
  <2> QED BY <2>1, <2>2
<1> QED BY InitInv, <1>1, PTL DEF Spec

-----------------------------------------------------------------------------
(* Sections. *)

\* A finite set with a strict total order can be written in that order: the
\* place of an element is the number of elements up to it.
LEMMA TotalOrderSorts ==
  ASSUME NEW S, IsFiniteSet(S), NEW T,
         \A x \in S : <<x, x>> \notin T,
         \A x, y \in S : x # y => <<x, y>> \in T \/ <<y, x>> \in T,
         \A x, y, z \in S : <<x, y>> \in T /\ <<y, z>> \in T => <<x, z>> \in T
  PROVE  \E s \in [1 .. Cardinality(S) -> S] :
           \A i, j \in 1 .. Cardinality(S) : i < j => <<s[i], s[j]>> \in T
<1> DEFINE N == Cardinality(S)
           upto(x) == {y \in S : y = x \/ <<y, x>> \in T}
           place == [x \in S |-> Cardinality(upto(x))]
<1>1. N \in Nat /\ IsFiniteSet(1 .. N) /\ Cardinality(1 .. N) = N
  BY FS_CardinalityType, FS_Interval
<1>2. ASSUME NEW x \in S
      PROVE  IsFiniteSet(upto(x)) /\ Cardinality(upto(x)) \in 1 .. N
  <2>1. IsFiniteSet(upto(x)) /\ Cardinality(upto(x)) <= N /\ Cardinality(upto(x)) \in Nat
    BY FS_Subset, FS_CardinalityType
  <2>2. Cardinality(upto(x)) # 0
    <3>1. x \in upto(x)
      OBVIOUS
    <3> HIDE DEF upto
    <3> QED BY <2>1, <3>1, FS_EmptySet
  <2> QED BY <1>1, <2>1, <2>2
<1>3. ASSUME NEW x \in S, NEW y \in S, <<x, y>> \in T PROVE place[x] < place[y]
  <2>1. upto(x) \subseteq upto(y)
    BY <1>3
  <2>2. y \in upto(y) /\ y \notin upto(x)
    BY <1>3
  <2>3. Cardinality(upto(x)) <= Cardinality(upto(y)) /\ Cardinality(upto(x)) # Cardinality(upto(y))
    BY <1>2, <2>1, <2>2, FS_Subset
  <2> QED BY <1>2, <2>3
<1>4. place \in [S -> 1 .. N]
  BY <1>2
<1> HIDE DEF place, N, upto
<1>5. \A x, y \in S : place[x] = place[y] => x = y
  <2> SUFFICES ASSUME NEW x \in S, NEW y \in S, x # y PROVE place[x] # place[y]
    OBVIOUS
  <2>1. place[x] < place[y] \/ place[y] < place[x]
    BY <1>3
  <2>2. place[x] \in Nat /\ place[y] \in Nat
    BY <1>4
  <2> QED BY <2>1, <2>2
<1>6. place \in Surjection(S, 1 .. N)
  BY <1>1, <1>4, <1>5, Fun_IsInj, FS_Injection DEF N
<1>7. \A n \in 1 .. N : \E x \in S : place[x] = n
  BY <1>6, Fun_SurjectionProperties
<1> DEFINE s == [n \in 1 .. N |-> CHOOSE x \in S : place[x] = n]
<1>8. s \in [1 .. N -> S] /\ \A n \in 1 .. N : place[s[n]] = n
  BY <1>7
<1>9. ASSUME NEW i \in 1 .. N, NEW j \in 1 .. N, i < j PROVE <<s[i], s[j]>> \in T
  <2>1. s[i] \in S /\ s[j] \in S /\ place[s[i]] = i /\ place[s[j]] = j
    BY <1>8
  <2> HIDE DEF s
  <2>2. i \in Nat /\ j \in Nat /\ ~(j < i) /\ i # j
    BY <1>1, <1>9
  <2>3. s[i] # s[j]
    BY <2>1, <2>2
  <2>4. <<s[j], s[i]>> \notin T
    BY <1>3, <2>1, <2>2
  <2> QED BY <2>1, <2>3, <2>4
<1> HIDE DEF s
<1> QED BY <1>8, <1>9 DEF N

\* A comparator that is asymmetric, and that puts every third element after the
\* first or before the second of two it orders.
WeakOrder(S, before) ==
  /\ \A x, y \in S : <<x, y>> \in before => <<y, x>> \notin before
  /\ \A x, y, z \in S : <<x, z>> \in before => <<x, y>> \in before \/ <<y, z>> \in before

\* Its ties broken by numbers.
LEMMA TiesBroken ==
  ASSUME NEW S, NEW before, NEW b, NEW x \in S, NEW y \in S
  PROVE  LET T == {p \in S \X S : \/ p \in before
                                  \/ <<p[2], p[1]>> \notin before /\ b[p[1]] < b[p[2]]}
         IN  <<x, y>> \in T <=>
               <<x, y>> \in before \/ (<<y, x>> \notin before /\ b[x] < b[y])
OBVIOUS

\* It sorts every finite set.
LEMMA SortedFacts ==
  ASSUME NEW S, IsFiniteSet(S), NEW before,
         WeakOrder(S, before)
  PROVE  LET s == Sorted(S, before)
         IN  /\ s \in [1 .. Cardinality(S) -> S] /\ Cardinality(S) \in Nat
             /\ \A x \in S : \E i \in 1 .. Cardinality(S) : s[i] = x
             /\ \A i, j \in 1 .. Cardinality(S) :
                  i < j => s[i] # s[j] /\ <<s[j], s[i]>> \notin before
<1> DEFINE N == Cardinality(S)
<1>1. N \in Nat /\ IsFiniteSet(1 .. N) /\ Cardinality(1 .. N) = N
  BY FS_CardinalityType, FS_Interval
<1>2. PICK b \in Bijection(S, 1 .. N) : TRUE
  BY FS_CardinalityType, Fun_ExistsBijSymmetric, Fun_ExistsBij
<1> HIDE DEF N
<1>3. b \in [S -> 1 .. N] /\ \A x, y \in S : b[x] = b[y] => x = y
  BY <1>2, Fun_BijectionProperties
<1> DEFINE T == {p \in S \X S : \/ p \in before
                                \/ <<p[2], p[1]>> \notin before /\ b[p[1]] < b[p[2]]}
<1>4. \A x, y \in S :
        <<x, y>> \in T <=> <<x, y>> \in before \/ (<<y, x>> \notin before /\ b[x] < b[y])
  BY TiesBroken
<1> HIDE DEF T
<1>5. \A x \in S : b[x] \in Int
  BY <1>3
<1>6. \A x \in S : <<x, x>> \notin T
  <2>1. \A x \in S : <<x, x>> \notin before
    BY DEF WeakOrder
  <2>2. \A x \in S : ~(b[x] < b[x])
    BY <1>5
  <2> QED BY <1>4, <2>1, <2>2
<1>7. \A x, y \in S : x # y => <<x, y>> \in T \/ <<y, x>> \in T
  <2> SUFFICES ASSUME NEW x \in S, NEW y \in S, x # y PROVE <<x, y>> \in T \/ <<y, x>> \in T
    OBVIOUS
  <2>1. b[x] < b[y] \/ b[y] < b[x]
    BY <1>3, <1>5
  <2>2. <<x, y>> \in T <=> <<x, y>> \in before \/ (<<y, x>> \notin before /\ b[x] < b[y])
    BY <1>4
  <2>3. <<y, x>> \in T <=> <<y, x>> \in before \/ (<<x, y>> \notin before /\ b[y] < b[x])
    BY <1>4
  <2> QED BY <2>1, <2>2, <2>3
<1>8. \A x, y, z \in S : <<x, y>> \in T /\ <<y, z>> \in T => <<x, z>> \in T
  <2> SUFFICES ASSUME NEW x \in S, NEW y \in S, NEW z \in S, <<x, y>> \in T, <<y, z>> \in T
               PROVE  <<x, z>> \in T
    OBVIOUS
  <2>1. <<x, y>> \in before \/ (<<y, x>> \notin before /\ b[x] < b[y])
    BY <1>4
  <2>2. <<y, z>> \in before \/ (<<z, y>> \notin before /\ b[y] < b[z])
    BY <1>4
  <2>3. <<z, x>> \notin before
    <3>1. <<y, x>> \notin before /\ <<z, y>> \notin before
      <4>1. \A u, v \in S : <<u, v>> \in before => <<v, u>> \notin before
        BY DEF WeakOrder
      <4> QED BY <2>1, <2>2, <4>1
    <3> QED BY <3>1 DEF WeakOrder
  <2>4. CASE <<x, z>> \in before
    BY <1>4, <2>4
  <2>5. CASE <<x, z>> \notin before
    <3>1. <<x, y>> \notin before /\ <<y, z>> \notin before
      <4>1. <<x, y>> \in before => <<x, z>> \in before \/ <<z, y>> \in before
        BY DEF WeakOrder
      <4>2. <<y, z>> \in before => <<y, x>> \in before \/ <<x, z>> \in before
        BY DEF WeakOrder
      <4>3. \A u, v \in S : <<u, v>> \in before => <<v, u>> \notin before
        BY DEF WeakOrder
      <4> QED BY <2>1, <2>2, <2>5, <4>1, <4>2, <4>3
    <3>2. b[x] < b[z]
      BY <1>5, <2>1, <2>2, <3>1
    <3> QED BY <1>4, <2>3, <3>2
  <2> QED BY <2>4, <2>5
<1> DEFINE s == Sorted(S, before)
           sorts(t) == \A i, j \in DOMAIN t : i < j => t[i] # t[j] /\ <<t[j], t[i]>> \notin before
<1>9. \E t \in [1 .. N -> S] : sorts(t)
  <2>1. PICK t \in [1 .. N -> S] : \A i, j \in 1 .. N : i < j => <<t[i], t[j]>> \in T
    BY <1>6, <1>7, <1>8, TotalOrderSorts DEF N
  <2>2. ASSUME NEW i \in 1 .. N, NEW j \in 1 .. N, i < j
        PROVE  t[i] # t[j] /\ <<t[j], t[i]>> \notin before
    <3>1. t[i] \in S /\ t[j] \in S /\ <<t[i], t[j]>> \in T
      BY <2>1, <2>2
    <3>2. t[i] # t[j]
      BY <1>6, <3>1
    <3>3. <<t[i], t[j]>> \in before \/ <<t[j], t[i]>> \notin before
      BY <1>4, <3>1
    <3> QED BY <3>1, <3>2, <3>3 DEF WeakOrder
  <2> QED BY <2>1, <2>2
<1>10. s \in [1 .. N -> S] /\ sorts(s)
  <2>1. s = CHOOSE t \in [1 .. N -> S] : sorts(t)
    BY DEF Sorted, N
  <2> HIDE DEF s, sorts
  <2> QED BY <1>9, <2>1
<1> HIDE DEF s
<1>11. \A i, j \in 1 .. N : i < j => s[i] # s[j] /\ <<s[j], s[i]>> \notin before
  BY <1>10
<1>12. \A i, j \in 1 .. N : s[i] = s[j] => i = j
  <2> SUFFICES ASSUME NEW i \in 1 .. N, NEW j \in 1 .. N, i # j PROVE s[i] # s[j]
    OBVIOUS
  <2>1. i < j \/ j < i
    BY <1>1
  <2> QED BY <1>11, <2>1
<1>13. s \in Surjection(1 .. N, S)
  BY <1>1, <1>10, <1>12, Fun_IsInj, FS_Injection DEF N
<1>14. \A x \in S : \E i \in 1 .. N : s[i] = x
  <2> DEFINE I == 1 .. N
  <2>1. s \in Surjection(I, S)
    BY <1>13
  <2> HIDE DEF I
  <2>2. \A x \in S : \E i \in I : s[i] = x
    BY <2>1, Fun_SurjectionProperties
  <2> QED BY <2>2 DEF I
<1> QED BY <1>1, <1>10, <1>11, <1>14 DEF s, N

\* The index of a section is a number.
LEMMA GroupOrderType == ASSUME NEW t, NEW ms \in SUBSET Channel PROVE GroupOrder(t, ms) \in Nat
<1> DEFINE those == {c \in ms : TypeOf[c] = t}
           indices == {CatOrder[ch] : ch \in those} \ {0}
           R == {p \in Nat \X Nat : p[1] < p[2]}
<1>1. those \subseteq Channel
  OBVIOUS
<1> HIDE DEF those
<1>2. indices \subseteq Nat
  <2>1. CatOrder \in [Channel -> Nat]
    BY LibraryAssumption
  <2>2. ASSUME NEW ch \in those PROVE CatOrder[ch] \in Nat
    BY <1>1, <2>1
  <2> QED BY <2>2
<1>3. IsFiniteSet(indices)
  <2>1. IsFiniteSet(those)
    BY <1>1, LibraryAssumption, FS_Subset
  <2> DEFINE f == [ch \in those |-> CatOrder[ch]]
  <2>2. f \in Surjection(those, {CatOrder[ch] : ch \in those})
    BY Fun_IsSurj
  <2>3. IsFiniteSet({CatOrder[ch] : ch \in those})
    <3> HIDE DEF f
    <3> QED BY <2>1, <2>2, FS_Surjection
  <2> QED BY <2>3, FS_Subset
<1>4. CASE indices = {}
  BY <1>4 DEF GroupOrder, those
<1>5. CASE indices # {}
  <2> HIDE DEF indices
  <2>1. \A x, y \in indices : <<x, y>> \in R <=> x < y
    BY <1>2
  <2> HIDE DEF R
  <2>2. \A x, y \in indices : <<x, y>> \in R => <<y, x>> \notin R
    BY <1>2, <2>1
  <2>3. \A x, y, z \in indices : <<x, z>> \in R => <<x, y>> \in R \/ <<y, z>> \in R
    BY <1>2, <2>1
  <2> DEFINE s == Sorted(indices, R)
             N == Cardinality(indices)
  <2>4. /\ s \in [1 .. N -> indices] /\ N \in Nat
        /\ \A x \in indices : \E i \in 1 .. N : s[i] = x
        /\ \A i, j \in 1 .. N : i < j => <<s[j], s[i]>> \notin R
    BY <1>3, <2>2, <2>3, SortedFacts DEF WeakOrder
  <2> HIDE DEF s, N
  <2>5. 1 \in 1 .. N
    BY <1>5, <2>4
  <2>6. s[1] \in indices /\ \A x \in indices : s[1] <= x
    <3>1. ASSUME NEW x \in indices PROVE s[1] <= x
      <4>1. PICK i \in 1 .. N : s[i] = x
        BY <2>4
      <4>2. i = 1 \/ 1 < i
        BY <2>4
      <4>3. s[1] = x \/ <<x, s[1]>> \notin R
        BY <2>4, <2>5, <4>1, <4>2
      <4>4. s[1] \in indices /\ s[1] \in Nat /\ x \in Nat
        BY <1>2, <2>4, <2>5
      <4> QED BY <2>1, <4>3, <4>4
    <3> QED BY <2>4, <2>5, <3>1
  <2>7. Min(indices) \in indices
    <3>1. Min(indices) = CHOOSE x \in indices : \A y \in indices : x <= y
      BY DEF Min
    <3> QED BY <2>6, <3>1
  <2>8. GroupOrder(t, ms) = Min(indices)
    BY <1>5 DEF GroupOrder, indices, those
  <2> QED BY <1>2, <2>7, <2>8
<1> QED BY <1>4, <1>5

\* The types of a set of channels are finitely many, each with its rank.
LEMMA TypesFinite ==
  ASSUME NEW ms \in SUBSET Channel
  PROVE  IsFiniteSet(TypesIn(ms)) /\ \A t \in TypesIn(ms) : Rank[t] \in Nat
<1> DEFINE f == [ch \in ms |-> TypeOf[ch]]
<1>1. f \in Surjection(ms, TypesIn(ms))
  <2>1. f \in [ms -> TypesIn(ms)] /\ \A t \in TypesIn(ms) : \E ch \in ms : f[ch] = t
    BY DEF TypesIn
  <2> HIDE DEF f
  <2> QED BY <2>1, Fun_IsSurj
<1> HIDE DEF f
<1>2. IsFiniteSet(ms)
  BY LibraryAssumption, FS_Subset
<1>3. IsFiniteSet(TypesIn(ms))
  BY <1>1, <1>2, FS_Surjection
<1>4. \A ch \in Channel : Rank[TypeOf[ch]] \in Nat
  BY LibraryAssumption
<1> QED BY <1>3, <1>4 DEF TypesIn

\* The comparator of renderChannelList is one that sorts.
LEMMA ComparatorSorts ==
  ASSUME NEW ms \in SUBSET Channel, NEW types, types \subseteq TypesIn(ms)
  PROVE  WeakOrder(types, {p \in types \X types : Before(p[1], p[2], ms)})
<1> DEFINE before == {p \in types \X types : Before(p[1], p[2], ms)}
<1>1. \A a, b \in types : <<a, b>> \in before <=> Before(a, b, ms)
  OBVIOUS
<1> HIDE DEF before
<1>2. \A a \in types : GroupOrder(a, ms) \in Nat /\ Rank[a] \in Nat
  BY GroupOrderType, TypesFinite
<1>3. ASSUME NEW a \in types, NEW b \in types, Before(a, b, ms) PROVE ~Before(b, a, ms)
  <2> DEFINE x == GroupOrder(a, ms)
             y == GroupOrder(b, ms)
  <2>1. x \in Nat /\ y \in Nat /\ Rank[a] \in Nat /\ Rank[b] \in Nat
    BY <1>2
  <2>2. IF x # y THEN y = 0 \/ (x # 0 /\ x < y) ELSE Rank[a] < Rank[b]
    BY <1>3 DEF Before
  <2>3. Before(b, a, ms) <=> IF y # x THEN x = 0 \/ (y # 0 /\ y < x) ELSE Rank[b] < Rank[a]
    BY DEF Before
  <2> HIDE DEF x, y
  <2> QED BY <2>1, <2>2, <2>3
<1>4. ASSUME NEW a \in types, NEW b \in types, NEW c \in types, Before(a, c, ms)
      PROVE  Before(a, b, ms) \/ Before(b, c, ms)
  <2> DEFINE x == GroupOrder(a, ms)
             y == GroupOrder(b, ms)
             z == GroupOrder(c, ms)
  <2>1. /\ x \in Nat /\ y \in Nat /\ z \in Nat
        /\ Rank[a] \in Nat /\ Rank[b] \in Nat /\ Rank[c] \in Nat
    BY <1>2
  <2>2. IF x # z THEN z = 0 \/ (x # 0 /\ x < z) ELSE Rank[a] < Rank[c]
    BY <1>4 DEF Before
  <2>3. Before(a, b, ms) <=> IF x # y THEN y = 0 \/ (x # 0 /\ x < y) ELSE Rank[a] < Rank[b]
    BY DEF Before
  <2>4. Before(b, c, ms) <=> IF y # z THEN z = 0 \/ (y # 0 /\ y < z) ELSE Rank[b] < Rank[c]
    BY DEF Before
  <2> HIDE DEF x, y, z
  <2> QED BY <2>1, <2>2, <2>3, <2>4
<1>5. \A a, b \in types : <<a, b>> \in before => <<b, a>> \notin before
  BY <1>1, <1>3
<1>6. \A a, b, c \in types : <<a, c>> \in before => <<a, b>> \in before \/ <<b, c>> \in before
  BY <1>1, <1>4
<1>7. WeakOrder(types, before)
  BY <1>5, <1>6 DEF WeakOrder
<1> QED BY <1>7 DEF before

\* The sections of unknown categories.
LEMMA ExtraFacts ==
  ASSUME NEW ms \in SUBSET Channel
  PROVE  LET types == TypesIn(ms) \ ToSet(Categories)
             N     == Cardinality(types)
         IN  /\ N \in Nat /\ Extra(ms) \in [1 .. N -> types]
             /\ \A t \in types : \E i \in 1 .. N : Extra(ms)[i] = t
             /\ \A i, j \in 1 .. N : i < j =>
                  Extra(ms)[i] # Extra(ms)[j] /\ ~Before(Extra(ms)[j], Extra(ms)[i], ms)
<1> DEFINE types  == TypesIn(ms) \ ToSet(Categories)
           before == {p \in types \X types : Before(p[1], p[2], ms)}
           N      == Cardinality(types)
           e      == Extra(ms)
<1>1. e = Sorted(types, before)
  BY DEF Extra
<1>2. types \subseteq TypesIn(ms)
  OBVIOUS
<1> HIDE DEF types
<1>3. \A a, b \in types : <<a, b>> \in before <=> Before(a, b, ms)
  OBVIOUS
<1>4. WeakOrder(types, before)
  BY <1>2, ComparatorSorts
<1> HIDE DEF before, e
<1>5. IsFiniteSet(types)
  BY <1>2, TypesFinite, FS_Subset
<1>6. /\ e \in [1 .. N -> types] /\ N \in Nat
      /\ \A t \in types : \E i \in 1 .. N : e[i] = t
      /\ \A i, j \in 1 .. N : i < j => e[i] # e[j] /\ <<e[j], e[i]>> \notin before
  BY <1>1, <1>4, <1>5, SortedFacts
<1> HIDE DEF N
<1>7. ASSUME NEW i \in 1 .. N, NEW j \in 1 .. N, i < j
      PROVE  e[i] # e[j] /\ ~Before(e[j], e[i], ms)
  <2>1. e[i] \in types /\ e[j] \in types
    BY <1>6
  <2> QED BY <1>3, <1>6, <1>7, <2>1
<1> QED BY <1>6, <1>7 DEF types, N, e

\* The sections of known categories: their indices in CATEGORY_ORDER increase.
LEMMA KnownFacts ==
  ASSUME NEW ms \in SUBSET Channel
  PROVE  LET here == {i \in DOMAIN Categories : Categories[i] \in TypesIn(ms)}
         IN  \E M \in Nat : \E order \in [1 .. M -> here] :
               /\ Known(ms) = [n \in 1 .. M |-> Categories[order[n]]]
               /\ \A h \in here : \E n \in 1 .. M : order[n] = h
               /\ \A i, j \in 1 .. M : i < j => order[i] < order[j]
<1> DEFINE here   == {i \in DOMAIN Categories : Categories[i] \in TypesIn(ms)}
           before == {p \in here \X here : p[1] < p[2]}
           M      == Cardinality(here)
           order  == Sorted(here, before)
<1>1. Known(ms) = [n \in DOMAIN order |-> Categories[order[n]]]
  BY DEF Known
<1>2. IsFiniteSet(here) /\ here \subseteq Nat
  <2>1. Categories \in Seq(STRING)
    BY LibraryAssumption
  <2>2. DOMAIN Categories = 1 .. Len(Categories) /\ Len(Categories) \in Nat
    BY <2>1
  <2>3. IsFiniteSet(DOMAIN Categories)
    BY <2>2, FS_Interval
  <2> QED BY <2>2, <2>3, FS_Subset
<1> HIDE DEF here
<1>3. \A a, b \in here : <<a, b>> \in before <=> a < b
  OBVIOUS
<1> HIDE DEF before, order
<1>4. WeakOrder(here, before)
  <2>1. \A a, b \in here : <<a, b>> \in before => <<b, a>> \notin before
    BY <1>2, <1>3
  <2>2. \A a, b, c \in here : <<a, c>> \in before => <<a, b>> \in before \/ <<b, c>> \in before
    BY <1>2, <1>3
  <2> QED BY <2>1, <2>2 DEF WeakOrder
<1>5. /\ order \in [1 .. M -> here] /\ M \in Nat
      /\ \A h \in here : \E n \in 1 .. M : order[n] = h
      /\ \A i, j \in 1 .. M : i < j => order[i] # order[j] /\ <<order[j], order[i]>> \notin before
  BY <1>2, <1>4, SortedFacts DEF order
<1> HIDE DEF M
<1>6. ASSUME NEW i \in 1 .. M, NEW j \in 1 .. M, i < j PROVE order[i] < order[j]
  <2>1. order[i] \in here /\ order[j] \in here /\ order[i] # order[j]
    BY <1>5, <1>6
  <2>2. ~(order[j] < order[i])
    BY <1>3, <1>5, <1>6, <2>1
  <2>3. order[i] \in Nat /\ order[j] \in Nat
    BY <1>2, <2>1
  <2> QED BY <2>1, <2>2, <2>3
<1>7. Known(ms) = [n \in 1 .. M |-> Categories[order[n]]]
  BY <1>1, <1>5
<1> QED BY <1>5, <1>6, <1>7 DEF here

\* A known category has one place.
LEMMA KnownPlace ==
  ASSUME NEW ms, NEW h \in DOMAIN Categories
  PROVE  Categories[h] \in ToSet(Categories) /\ Place(Categories[h], ms) = <<0, h>>
<1>1. Categories[h] \in ToSet(Categories)
  BY DEF ToSet
<1>2. \A i \in DOMAIN Categories : Categories[i] = Categories[h] => i = h
  <2>1. IsInjective(Categories)
    BY LibraryAssumption
  <2> QED BY <2>1 DEF IsInjective
<1>3. (CHOOSE i \in DOMAIN Categories : Categories[i] = Categories[h]) = h
  BY <1>2
<1> QED BY <1>1, <1>3 DEF Place

\* Of two unknown categories the one the comparator does not put second has no
\* later place.
LEMMA ExtraPlace ==
  ASSUME NEW ms \in SUBSET Channel,
         NEW a \in TypesIn(ms) \ ToSet(Categories), NEW b \in TypesIn(ms) \ ToSet(Categories),
         ~Before(b, a, ms)
  PROVE  LET p == Place(a, ms) q == Place(b, ms)
         IN  p[1] < q[1] \/ (p[1] = q[1] /\ p[2] <= q[2])
<1> DEFINE x == GroupOrder(a, ms)
           y == GroupOrder(b, ms)
<1>1. x \in Nat /\ y \in Nat /\ Rank[a] \in Nat /\ Rank[b] \in Nat
  BY GroupOrderType, TypesFinite
<1>2. ~(IF y # x THEN x = 0 \/ (y # 0 /\ y < x) ELSE Rank[b] < Rank[a])
  BY DEF Before
<1>3. Place(a, ms) = (IF x > 0 THEN <<1, x>> ELSE <<2, Rank[a]>>)
  BY DEF Place
<1>4. Place(b, ms) = (IF y > 0 THEN <<1, y>> ELSE <<2, Rank[b]>>)
  BY DEF Place
<1> HIDE DEF x, y
<1>5. CASE y = 0 /\ x > 0
  BY <1>1, <1>3, <1>4, <1>5
<1>6. CASE y > 0 /\ x > 0
  BY <1>1, <1>2, <1>3, <1>4, <1>6
<1>7. CASE x = 0
  BY <1>1, <1>2, <1>3, <1>4, <1>7
<1> QED BY <1>1, <1>5, <1>6, <1>7

\* An unknown category comes after every known one.
LEMMA ExtraLast ==
  ASSUME NEW ms, NEW t, t \notin ToSet(Categories) PROVE Place(t, ms)[1] > 0
BY DEF Place

\* The sections made of a set of channels.
LEMMA SectionsOf ==
  ASSUME NEW ms \in SUBSET Channel
  PROVE  /\ ToSet(Sections(ms)) = TypesIn(ms)
         /\ \A i, j \in DOMAIN Sections(ms) : i < j =>
              LET p == Place(Sections(ms)[i], ms)
                  q == Place(Sections(ms)[j], ms)
              IN p[1] < q[1] \/ (p[1] = q[1] /\ p[2] <= q[2] /\ Sections(ms)[i] # Sections(ms)[j])
<1> DEFINE here  == {i \in DOMAIN Categories : Categories[i] \in TypesIn(ms)}
           types == TypesIn(ms) \ ToSet(Categories)
           N     == Cardinality(types)
           k == Known(ms)
           e == Extra(ms)
           s == Sections(ms)
<1>1. PICK M \in Nat : \E order \in [1 .. M -> here] :
        /\ k = [n \in 1 .. M |-> Categories[order[n]]]
        /\ \A h \in here : \E n \in 1 .. M : order[n] = h
        /\ \A i, j \in 1 .. M : i < j => order[i] < order[j]
  BY KnownFacts
<1>2. PICK order \in [1 .. M -> here] :
        /\ k = [n \in 1 .. M |-> Categories[order[n]]]
        /\ \A h \in here : \E n \in 1 .. M : order[n] = h
        /\ \A i, j \in 1 .. M : i < j => order[i] < order[j]
  BY <1>1
<1>3. /\ N \in Nat /\ e \in [1 .. N -> types]
      /\ \A t \in types : \E i \in 1 .. N : e[i] = t
      /\ \A i, j \in 1 .. N : i < j => e[i] # e[j] /\ ~Before(e[j], e[i], ms)
  BY ExtraFacts
<1>4. s = k \o e
  BY DEF Sections
<1> HIDE DEF k, e, s, N
<1>5. \A n \in 1 .. M : order[n] \in DOMAIN Categories /\ Categories[order[n]] \in TypesIn(ms)
  BY <1>2
<1>6. Len(k) = M /\ Len(e) = N /\ k \in Seq(TypesIn(ms)) /\ e \in Seq(TypesIn(ms))
  <2>1. k \in Seq(TypesIn(ms)) /\ e \in Seq(TypesIn(ms))
    BY <1>1, <1>2, <1>3, <1>5
  <2> QED BY <1>2, <1>3, <2>1
<1>7. DOMAIN s = 1 .. M + N
  <2>1. s \in Seq(TypesIn(ms)) /\ Len(s) = Len(k) + Len(e)
    BY <1>4, <1>6, ConcatProperties
  <2> QED BY <1>6, <2>1
<1>8. /\ \A i \in 1 .. M : s[i] = Categories[order[i]]
      /\ \A i \in M + 1 .. M + N : s[i] = e[i - M]
  BY <1>1, <1>2, <1>3, <1>4, <1>6
<1>9. ASSUME NEW i \in DOMAIN s PROVE i \in 1 .. M \/ (i \in M + 1 .. M + N /\ i - M \in 1 .. N)
  BY <1>1, <1>3, <1>7
<1>10. ToSet(s) = TypesIn(ms)
  <2>1. ASSUME NEW i \in DOMAIN s PROVE s[i] \in TypesIn(ms)
    BY <1>3, <1>5, <1>8, <1>9
  <2>2. ASSUME NEW t \in TypesIn(ms) PROVE \E i \in DOMAIN s : s[i] = t
    <3>1. CASE t \in ToSet(Categories)
      <4>1. PICK h \in DOMAIN Categories : Categories[h] = t
        BY <3>1 DEF ToSet
      <4>2. PICK n \in 1 .. M : order[n] = h
        BY <1>2, <4>1
      <4>3. n \in DOMAIN s
        BY <1>1, <1>3, <1>7
      <4> QED BY <1>8, <4>1, <4>2, <4>3
    <3>2. CASE t \notin ToSet(Categories)
      <4>1. PICK n \in 1 .. N : e[n] = t
        BY <1>3, <3>2
      <4>2. M + n \in M + 1 .. M + N /\ M + n \in DOMAIN s /\ (M + n) - M = n
        BY <1>1, <1>3, <1>7
      <4> QED BY <1>8, <4>1, <4>2
    <3> QED BY <3>1, <3>2
  <2> QED BY <2>1, <2>2 DEF ToSet
<1>11. ASSUME NEW i \in DOMAIN s, NEW j \in DOMAIN s, i < j
       PROVE  LET p == Place(s[i], ms) q == Place(s[j], ms)
              IN p[1] < q[1] \/ (p[1] = q[1] /\ p[2] <= q[2] /\ s[i] # s[j])
  <2>1. CASE i \in 1 .. M /\ j \in 1 .. M
    <3>1. Place(s[i], ms) = <<0, order[i]>> /\ Place(s[j], ms) = <<0, order[j]>>
      BY <1>5, <1>8, <2>1, KnownPlace
    <3>2. order[i] < order[j] /\ order[i] \in Nat /\ order[j] \in Nat
      <4>1. order[i] < order[j]
        BY <1>2, <1>11, <2>1
      <4>2. DOMAIN Categories \subseteq Nat
        <5>1. Categories \in Seq(STRING)
          BY LibraryAssumption
        <5> QED BY <5>1
      <4> QED BY <1>5, <2>1, <4>1, <4>2
    <3>3. s[i] # s[j]
      BY <3>1, <3>2
    <3> QED BY <3>1, <3>2, <3>3
  <2>2. CASE i \in 1 .. M /\ j \in M + 1 .. M + N /\ j - M \in 1 .. N
    <3>1. Place(s[i], ms)[1] = 0
      BY <1>5, <1>8, <2>2, KnownPlace
    <3>2. s[j] \notin ToSet(Categories)
      BY <1>3, <1>8, <2>2
    <3> QED BY <3>1, <3>2, ExtraLast
  <2>3. CASE /\ i \in M + 1 .. M + N /\ i - M \in 1 .. N
             /\ j \in M + 1 .. M + N /\ j - M \in 1 .. N
    <3>1. i - M < j - M
      BY <1>1, <1>11, <2>3
    <3>2. s[i] = e[i - M] /\ s[j] = e[j - M]
      BY <1>8, <2>3
    <3>3. /\ s[i] \in types /\ s[j] \in types
          /\ s[i] # s[j] /\ ~Before(s[j], s[i], ms)
      BY <1>3, <2>3, <3>1, <3>2
    <3> QED BY <3>3, ExtraPlace
  <2>4. ~(i \in M + 1 .. M + N /\ j \in 1 .. M)
    BY <1>1, <1>3, <1>11
  <2> QED BY <1>9, <2>1, <2>2, <2>3, <2>4
<1> QED BY <1>10, <1>11 DEF s

-----------------------------------------------------------------------------
(* With nothing under way and nothing to leave it behind, the list and its *)
(* stars are the server's (loadChannels, setFav).                          *)
THEOREM ListAgreesAtRest == Spec => []AgreesAtRest
<1>1. LibraryInv => AgreesAtRest
  <2> SUFFICES ASSUME LibraryInv, calls = {}, ~behind
               PROVE  list.ids = catalog /\ list.fav = faved
    BY DEF AgreesAtRest
  <2>1. list.ids = catalog /\ \A ch \in Channel : ch \in list.fav <=> ch \in faved
    BY DEF LibraryInv, Requests, Settled
  <2>2. list.fav \subseteq Channel /\ faved \subseteq Channel
    BY DEF LibraryInv, Requests, TablesTyped
  <2> QED BY <2>1, <2>2
<1> QED BY <1>1, InvHolds, PTL

(* Types; what was drawn last shows the page's present state, whichever    *)
(* callback changed it; and no filter works unseen.                        *)
THEOREM ViewSound == Spec => []ViewOK
<1>1. LibraryInv => TypeOK
  BY DEF LibraryInv, Requests, TablesTyped, CallsTyped, IsCall, PageTyped, TypeOK
<1>2. LibraryInv => ViewOK
  BY <1>1 DEF LibraryInv, ViewOK
<1> QED BY <1>2, InvHolds, PTL

(* Every match is in one section, the known categories first, then the     *)
(* panel's by index, then the others by name, with as many categories as   *)
(* there may be and ties wherever the ranks leave them (renderChannelList).*)
THEOREM SectionsSorted == Spec => []SectionsInOrder
<1>1. LibraryInv => SectionsInOrder
  <2> SUFFICES ASSUME LibraryInv PROVE SectionsInOrder
    OBVIOUS
  <2>1. view = Drawing(OnTab, FavSection, WorkingSet) /\ WorkingSet \in SUBSET Channel
    BY DEF LibraryInv, ViewIsCurrent, Browse, WorkingSet, Requests, TablesTyped
  <2>2. CASE OnTab
    <3>1. view.matches = WorkingSet /\ view.sections = Sections(WorkingSet)
      BY <2>1, <2>2 DEF Drawing
    <3> QED BY <2>1, <3>1, SectionsOf DEF SectionsInOrder
  <2>3. CASE ~OnTab
    <3>1. view.matches = {} /\ view.sections = <<>>
      BY <2>1, <2>3 DEF Drawing
    <3>2. TypesIn({}) = {} /\ ToSet(<<>>) = {} /\ DOMAIN <<>> = {}
      BY DEF TypesIn, ToSet
    <3> QED BY <3>1, <3>2 DEF SectionsInOrder
  <2> QED BY <2>2, <2>3
<1> QED BY <1>1, InvHolds, PTL
=============================================================================
