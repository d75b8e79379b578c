-------------------------- MODULE MCManualChannels --------------------------
(* Values for the constants of ManualChannels: a name, two links on one
   host, a catalog that starts with one feed row. *)
EXTENDS CatalogPromise, TLC

CONSTANTS u1, u2, h1, k1, r1, f1, c1, c2, c3

MCHostOf == [l \in Links |-> h1]

MCFeed == f1 :> [name |-> 1, servers |-> {u1}, hint |-> NoHint, resolver |-> NoRecipe,
                 fav |-> FALSE, manual |-> FALSE, playlist |-> NoPlaylist]

E(n, u) == [name |-> n, url |-> u]

\* An invalid entry before a known and a new link; a link twice.
MCBatches == {<<E(Blank, u1), E(1, u1), E(1, u2)>>, <<E(1, u2), E(1, u2)>>}

Symmetry == Permutations(Handlers)
=============================================================================
