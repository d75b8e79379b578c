--------------------------- MODULE CatalogPromise ---------------------------
(***************************************************************************)
(* ManualChannels implements ServedCatalog, also where rebuilds overtake   *)
(* each other.  The two views are the payload of GET /api/channels and the *)
(* proxy's header overrides, which rebuild swaps one after the other       *)
(* outside any common lock.  Two history variables carry what the abstract *)
(* specification remembers and the server does not.                        *)
(***************************************************************************)
EXTENDS ManualChannels

VARIABLES
  best,  \* history: best[w]: the newest version view w has shown
  due    \* history: due[c]: the version the running request of c made, 0 for none

promiseVars == <<vars, best, due>>

Views == {"payload", "headers"}

AsOf == [w \in Views |-> IF w = "payload" THEN cached.at ELSE headers.at]

\* The history of a step: what is on show, who changed the table, and when that
\* request was answered; a goroutine at its start has changed nothing.
Record ==
  /\ best' = [w \in Views |-> IF AsOf'[w] > best[w] THEN AsOf'[w] ELSE best[w]]
  /\ due' = [c \in Handlers |-> IF pc'[c] \in {"idle", "start"} THEN 0
                                ELSE IF epoch' # epoch /\ pc'[c] # pc[c] THEN epoch'
                                ELSE due[c]]

PromiseInit ==
  /\ Init
  /\ best = [w \in Views |-> 0]
  /\ due = [c \in Handlers |-> 0]

PromiseSpec == PromiseInit /\ [][Next /\ Record]_promiseVars

Public == INSTANCE ServedCatalog
            WITH Clients <- Handlers, version <- epoch, shown <- AsOf

\* Every behaviour of the handlers is one of ServedCatalog: a statement that
\* changes the table is a Change, the swap and the hook of a rebuild put its list
\* on show, and a request that changed something is answered after its rebuild
\* or, when its row is gone before it is read back, because whoever removed the
\* row still has to rebuild.
KeepsCatalogPromise == Public!Spec
=============================================================================
