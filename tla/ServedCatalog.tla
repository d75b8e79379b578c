--------------------------- MODULE ServedCatalog ---------------------------
(***************************************************************************)
(* What the server promises to the clients that change its catalog,        *)
(* however their requests interleave.  The catalog has versions, and       *)
(* several views of it are on show (the list that is served, the headers   *)
(* the proxy sends).  A view may lag and may even go back, but who has     *)
(* changed the catalog never puts on show what is older than that change,  *)
(* and is answered only when the change has been on show in every view, or *)
(* when somebody who changed it later is still to be answered.  A server   *)
(* that is started again forgets whom it owed and shows the catalog as it  *)
(* is.                                                                     *)
(***************************************************************************)
EXTENDS Naturals

CONSTANTS Clients, Views

VARIABLES
  version,  \* the number of changes of the catalog
  shown,    \* shown[w]: the version view w shows
  best,     \* best[w]: the newest version w has shown
  due       \* due[c]: the last version client c made and has no answer to, 0 for none

vars == <<version, shown, best, due>>

Init ==
  /\ version = 0
  /\ shown = [w \in Views |-> 0]
  /\ best = [w \in Views |-> 0]
  /\ due = [c \in Clients |-> 0]

Change(c) ==
  /\ version' = version + 1
  /\ due' = [due EXCEPT ![c] = version']
  /\ UNCHANGED <<shown, best>>

\* Client c puts a version on show, none from before its change.
Show(c, w) ==
  /\ \E v \in due[c] .. version :
       /\ shown' = [shown EXCEPT ![w] = v]
       /\ best' = [best EXCEPT ![w] = IF v > @ THEN v ELSE @]
  /\ UNCHANGED version

Idle == UNCHANGED <<version, shown, best>>

\* Everybody has been able to see the change of c, or the change of somebody
\* whom the server still owes as much has overtaken it.
Honoured(c) ==
  \/ \A w \in Views : best'[w] >= due[c]
  \/ \E d \in Clients : due[d] > due[c]

Answer(c) ==
  /\ Idle \/ \E w \in Views : Show(c, w)
  /\ Honoured(c)
  /\ due' = [due EXCEPT ![c] = 0]

Restart ==
  /\ shown' = [w \in Views |-> version]
  /\ best' = [w \in Views |-> version]
  /\ due' = [c \in Clients |-> 0]
  /\ UNCHANGED version

Next ==
  \/ \E c \in Clients :
       \/ Change(c)
       \/ \E w \in Views : Show(c, w) /\ UNCHANGED due
       \/ Answer(c)
  \/ Restart

Spec == Init /\ [][Next]_vars

-----------------------------------------------------------------------------
\* What follows from the promise: when every change has been answered, each
\* view has shown the catalog as it is now.
SettledAtRest ==
  (\A c \in Clients : due[c] = 0) => \A w \in Views : best[w] = version
=============================================================================
