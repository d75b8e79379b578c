--------------------------- MODULE ManualChannels ---------------------------
(***************************************************************************)
(* The handlers of main.go that change single channels or import a batch,  *)
(* each as the sequence of store statements it runs, followed by the       *)
(* rebuild of ChannelCache:                                                *)
(*   fav      POST   /api/favourite                 one UPDATE             *)
(*   add      POST   /api/channels/add              upsert, read back      *)
(*   addres   POST   /api/channels/add-resolvable   upsert, read back      *)
(*   update   POST   /api/channels/update           check, UPDATE, read    *)
(*   delete   DELETE /api/channels/add              check, DELETE          *)
(*   resolve  GET    /api/resolve                   read, network, UPDATE  *)
(*   import   POST   /api/import/save               index, transaction     *)
(* Any two of them interleave between statements.  The merge of ClearKeys  *)
(* some of them perform touches only the keystore, which is another        *)
(* component.                                                              *)
(***************************************************************************)
EXTENDS ChannelCache

CONSTANTS
  Ops,         \* the handlers in use
  Batches,     \* the entry sequences POST /api/import/save may carry
  Feed,        \* the catalog the server starts with
  MaxRequests  \* bound on the number of requests

AllOps == {"fav", "add", "addres", "update", "delete", "resolve", "import"}

ASSUME OpsAreHandlers == Ops \subseteq AllOps
ASSUME FeedIsCatalog  == IsCatalog(Feed)
ASSUME RequestBound   == MaxRequests \in Nat
ASSUME BatchesAreEntries ==
  Batches \subseteq Seq([name : NameOrBlank, url : Urls])

VARIABLES
  req,     \* req[c]: the request handler c serves
  read,    \* read[c]: links it read or resolved, and the epoch of its last statement
  answer,  \* answer[c]: the status of its last answer
  left     \* requests still to come

handlerVars == <<req, read, answer, left>>
vars == <<db, pc, epoch, cacheVars, handlerVars>>

Hint == Hints \union {NoHint}

Requests ==
  {r \in [op : {"fav"}, id : Ids, on : BOOLEAN]
         \union [op : {"add"}, name : NameOrBlank, url : Urls, hint : Hint]
         \union [op : {"addres"}, name : NameOrBlank, recipe : Recipes, hint : Hint]
         \union [op : {"update"}, id : Ids, name : NameOrBlank, url : Urls, hint : Hint]
         \union [op : {"delete", "resolve"}, id : Ids]
         \union [op : {"import"}, entries : Batches] : r.op \in Ops}

Idle == [op |-> "none"]

Answers == {"none", "200", "400", "404", "409", "500", "502"}

Init ==
  /\ CacheInit(Feed)
  /\ req = [c \in Handlers |-> Idle]
  /\ read = [c \in Handlers |-> [urls |-> {}, at |-> 0]]
  /\ answer = [c \in Handlers |-> "none"]
  /\ left = MaxRequests

-----------------------------------------------------------------------------
(* Steps shared by the handlers. *)

Answer(c, code) == answer' = [answer EXCEPT ![c] = code]

\* An early return: nothing was changed by this step and no rebuild follows.
Return(c, code) ==
  /\ Answer(c, code)
  /\ Goto(c, "idle")
  /\ UNCHANGED <<db, epoch, cacheVars, req, read, left>>

At(c, op, step) == pc[c] = step /\ req[c].op = op

\* A statement of c that changes the table to t.
Write(c, t, next) ==
  /\ Commit(t)
  /\ Goto(c, next)
  /\ read' = [read EXCEPT ![c].at = epoch + 1]
  /\ UNCHANGED <<cacheVars, req, answer, left>>

\* A request arrives; one that fails validation is refused at once.
Arrive(c, r) ==
  /\ c # Sweeper /\ pc[c] = "idle" /\ left > 0
  /\ left' = left - 1
  /\ IF r.op \in {"add", "addres", "update"} /\ r.name = Blank
     THEN Answer(c, "400") /\ UNCHANGED <<pc, req>>
     ELSE /\ Answer(c, "none")
          /\ req' = [req EXCEPT ![c] = r]
          /\ Goto(c, IF r.op \in {"fav", "add", "addres"} THEN "write" ELSE "read")
  /\ UNCHANGED <<db, epoch, cacheVars, read>>

-----------------------------------------------------------------------------
(* First statements. *)

\* UpdateManual and DeleteManual: SELECT is_manual.
CheckManual(c) ==
  /\ At(c, "update", "read") \/ At(c, "delete", "read")
  /\ LET id == req[c].id IN
     \/ id \notin DOMAIN db /\ Return(c, "404")
     \/ id \in DOMAIN db /\ ~db[id].manual /\ Return(c, "409")
     \/ /\ id \in DOMAIN db /\ db[id].manual
        /\ Goto(c, "write")
        /\ UNCHANGED <<db, epoch, cacheVars, handlerVars>>

\* GET /api/resolve: the row, for its recipe.
ReadRecipe(c) ==
  /\ At(c, "resolve", "read")
  /\ LET id == req[c].id IN
     \/ id \notin DOMAIN db /\ Return(c, "404")
     \/ id \in DOMAIN db /\ db[id].resolver = NoRecipe /\ Return(c, "400")
     \/ /\ id \in DOMAIN db /\ db[id].resolver # NoRecipe
        /\ Goto(c, "network")
        /\ UNCHANGED <<db, epoch, cacheVars, handlerVars>>

\* The provider answers with some link, or fails.
Resolve(c) ==
  /\ At(c, "resolve", "network")
  /\ \/ Return(c, "502")
     \/ \E u \in Urls :
          /\ read' = [read EXCEPT ![c].urls = {u}]
          /\ Goto(c, "write")
          /\ UNCHANGED <<db, epoch, cacheVars, req, answer, left>>

\* ImportManual: URLIndex, before the transaction opens.
ReadIndex(c) ==
  /\ At(c, "import", "read")
  /\ read' = [read EXCEPT ![c] = [urls |-> URLIndex(db), at |-> epoch]]
  /\ Goto(c, "write")
  /\ UNCHANGED <<db, epoch, cacheVars, req, answer, left>>

-----------------------------------------------------------------------------
(* Statements that change the table. *)

WriteFavourite(c) ==
  /\ At(c, "fav", "write")
  /\ \/ req[c].id \notin DOMAIN db /\ Return(c, "404")
     \/ /\ req[c].id \in DOMAIN db
        /\ Write(c, SetFavourite(db, req[c].id, req[c].on), "list")

WriteAdd(c) ==
  /\ At(c, "add", "write")
  /\ Write(c, AddManual(db, req[c].name, req[c].url, req[c].hint), "reread")

WriteResolvable(c) ==
  /\ At(c, "addres", "write")
  /\ Write(c, AddResolvable(db, req[c].name, req[c].recipe, req[c].hint), "reread")

\* Wrong on purpose: the edit is an upsert.
WriteUpdateOrInsert(c) ==
  /\ At(c, "update", "write")
  /\ Write(c, Put(db, req[c].id,
                  NewManualRow(req[c].name, {req[c].url}, req[c].hint, NoRecipe,
                               req[c].id \in DOMAIN db /\ db[req[c].id].fav)),
           "reread")

\* An UPDATE that matches no row is no error: the read that follows tells.
WriteUpdate(c) ==
  /\ At(c, "update", "write")
  /\ \/ /\ req[c].id \notin DOMAIN db
        /\ Goto(c, "reread")
        /\ UNCHANGED <<db, epoch, cacheVars, handlerVars>>
     \/ /\ req[c].id \in DOMAIN db
        /\ Write(c, UpdateManual(db, req[c].id, req[c].name, req[c].url, req[c].hint),
                 "reread")

\* A DELETE that matches no row is no error either: the rebuild follows.
WriteDelete(c) ==
  /\ At(c, "delete", "write")
  /\ \/ /\ req[c].id \notin DOMAIN db
        /\ Goto(c, "list")
        /\ UNCHANGED <<db, epoch, cacheVars, handlerVars>>
     \/ req[c].id \in DOMAIN db /\ Write(c, Drop(db, {req[c].id}), "list")

\* The resolved link is answered even when the row is gone: only the rebuild
\* is skipped.
WriteResolved(c) ==
  /\ At(c, "resolve", "write")
  /\ \/ req[c].id \notin DOMAIN db /\ Return(c, "200")
     \/ /\ req[c].id \in DOMAIN db
        /\ \E u \in read[c].urls : Write(c, SetResolvedURL(db, req[c].id, u), "list")

WriteImport(c) ==
  /\ At(c, "import", "write")
  /\ Write(c, ImportManual(db, req[c].entries, read[c].urls), "list")

\* getChannel at the end of AddManual, AddResolvable and UpdateManual: the row
\* may be gone again, which the handler reports as an internal error, without
\* a rebuild.
TargetId(c) ==
  CASE req[c].op = "add"    -> ManualId(req[c].name, req[c].url)
    [] req[c].op = "addres" -> ManualId(req[c].name, req[c].recipe)
    [] OTHER                -> req[c].id

\* Wrong on purpose: the handler answers with the row and forgets the rebuild.
RereadAnswers(c) ==
  /\ pc[c] = "reread"
  /\ Return(c, IF TargetId(c) \in DOMAIN db THEN "200" ELSE "500")

Reread(c) ==
  /\ pc[c] = "reread"
  /\ \/ TargetId(c) \notin DOMAIN db /\ Return(c, "500")
     \/ /\ TargetId(c) \in DOMAIN db
        /\ Goto(c, "list")
        /\ UNCHANGED <<db, epoch, cacheVars, handlerVars>>

\* The last step of rebuild, after which the handler answers.
Finish(c) == RebuildHook(c) /\ Answer(c, "200") /\ UNCHANGED <<req, read, left>>

Rebuild(c) ==
  \/ RebuildList(c) /\ UNCHANGED handlerVars
  \/ RebuildSwap(c) /\ UNCHANGED handlerVars
  \/ Finish(c)

-----------------------------------------------------------------------------
Next ==
  \E c \in Handlers :
    \/ \E r \in Requests : Arrive(c, r)
    \/ CheckManual(c)
    \/ ReadRecipe(c)
    \/ Resolve(c)
    \/ ReadIndex(c)
    \/ WriteFavourite(c)
    \/ WriteAdd(c)
    \/ WriteResolvable(c)
    \/ WriteUpdate(c)
    \/ WriteDelete(c)
    \/ WriteResolved(c)
    \/ WriteImport(c)
    \/ Reread(c)
    \/ Rebuild(c)

Spec == Init /\ [][Next]_vars

-----------------------------------------------------------------------------
(* Properties. *)

TypeOK ==
  /\ IsCatalog(db)
  /\ epoch \in Nat
  /\ cached.at \in Nat /\ headers.at \in Nat
  /\ \A c \in Handlers : listed[c].at \in Nat
  /\ pc \in [Handlers -> {"idle", "read", "network", "write", "reread",
                           "list", "swap", "hook"}]
  /\ \A c \in Handlers : pc[c] # "idle" => req[c] \in Requests
  /\ req \in [Handlers -> Requests \union {Idle}]
  /\ read \in [Handlers -> [urls : SUBSET Links, at : Nat]]
  /\ answer \in [Handlers -> Answers]
  /\ left \in Nat
  /\ reordered \in BOOLEAN

\* Types, and that no early return of a handler skips a rebuild: a list at rest is
\* the catalog unless rebuilds overtook each other.
CatalogOK == TypeOK /\ CurrentUnlessReordered

\* A channel keeps its favourite flag through every edit, re-add, resolve and
\* import, however they interleave: only a favourite request changes it, and
\* to the value the request carried (store.go: is_favourite is absent from
\* every ON CONFLICT list).
FavouriteOnlyByRequest ==
  [][\A i \in DOMAIN db \intersect DOMAIN db' :
       db'[i].fav # db[i].fav =>
         \E c \in Handlers : /\ pc[c] = "write" /\ pc'[c] # "write"
                             /\ req[c] = [op |-> "fav", id |-> i, on |-> db'[i].fav]]_vars

\* Nothing that was already running when a channel was deleted brings it back
\* by editing it: an edit, a favourite toggle or a resolve of a row that is gone
\* leaves it gone; only adding or importing it creates it again.
NoResurrection ==
  [][\A i \in DOMAIN db' \ DOMAIN db :
       \E c \in Handlers : /\ pc[c] = "write" /\ pc'[c] # "write"
                           /\ req[c].op \in {"add", "addres", "import"}]_vars

\* A client that is answered 200 sees its change: the payload and the header
\* overrides in force are at least as new as the statement of its request,
\* unless some rebuild was overtaken.  The browser reloads the list, and a player
\* fetches the link it just resolved, as soon as the answer is there.
ReadYourWrites ==
  [][\A c \in Handlers :
       pc[c] = "hook" /\ answer'[c] = "200" /\ ~reordered'
       => cached.at >= read[c].at /\ headers'.at >= read[c].at]_vars

Owners(t, u) == {i \in DOMAIN t : u \in t[i].servers}

\* An import whose index is still accurate when its transaction runs gives no
\* link a second owner, whether the duplicate is in the library or in the batch
\* (ImportManual: "a link already present in the library is not added again").
ImportKeepsLinksUnique ==
  [][\A c \in Handlers :
       At(c, "import", "write") /\ epoch' = epoch + 1 /\ pc'[c] = "list"
         /\ read[c].at = epoch
       => \A u \in Urls : \/ Cardinality(Owners(db', u)) <= 1
                          \/ Owners(db', u) \subseteq Owners(db, u)]_vars
=============================================================================
