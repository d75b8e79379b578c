---------------------------- MODULE LivePlaylist ----------------------------
(***************************************************************************)
(* What the proxy promises to the players that reload one live playlist,   *)
(* whatever it caches and shares: an answer is never older than any answer *)
(* any player had been given when the request began.  The upstream hands   *)
(* out a new version at each tick.                                         *)
(***************************************************************************)
EXTENDS Integers

CONSTANTS Clients

VARIABLES
  now,     \* the version the upstream hands out
  open,    \* clients with a request that is not answered yet
  floor,   \* floor[c]: the newest answer given when the request of c began
  last,    \* last[c]: the version c was answered with last, -1 for none
  served   \* the newest version any client was answered with

vars == <<now, open, floor, last, served>>

Init ==
  /\ now = 0
  /\ open = {}
  /\ floor = [c \in Clients |-> -1]
  /\ last = [c \in Clients |-> -1]
  /\ served = -1

Advance ==
  /\ now' = now + 1
  /\ UNCHANGED <<open, floor, last, served>>

Ask(c) ==
  /\ c \notin open
  /\ open' = open \union {c}
  /\ floor' = [floor EXCEPT ![c] = served]
  /\ UNCHANGED <<now, last, served>>

Answer(c, v) ==
  /\ last' = [last EXCEPT ![c] = v]
  /\ served' = IF v > served THEN v ELSE served
  /\ UNCHANGED now

\* At once: the answer is as new as any before.
AnswerAtOnce(c) ==
  /\ c \notin open
  /\ \E v \in 0 .. now : v >= served /\ Answer(c, v)
  /\ UNCHANGED <<open, floor>>

\* Later: other clients may have been given newer ones meanwhile.
AnswerLater(c) ==
  /\ c \in open
  /\ \E v \in 0 .. now : v >= floor[c] /\ Answer(c, v)
  /\ open' = open \ {c}
  /\ floor' = [floor EXCEPT ![c] = -1]

Refuse(c) ==
  /\ c \in open
  /\ open' = open \ {c}
  /\ floor' = [floor EXCEPT ![c] = -1]
  /\ UNCHANGED <<now, last, served>>

Next ==
  \/ Advance
  \/ \E c \in Clients : Ask(c) \/ AnswerAtOnce(c) \/ AnswerLater(c) \/ Refuse(c)

Spec == Init /\ [][Next]_vars
=============================================================================
