----------------------------- MODULE MCLibrary -----------------------------
(* A channel added by hand, two of a playlist in sections of the panel's order,
   one of a feed that shares its name with one of these; two screens. *)
EXTENDS Library, TLC

CONSTANTS m, x1, x2, f, pl

MCPlaylistOf == (m :> None) @@ (x1 :> pl) @@ (x2 :> pl) @@ (f :> None)
MCGroup      == (m :> "BD") @@ (x1 :> "IN") @@ (x2 :> None) @@ (f :> "BD")
MCTypeOf     == (m :> "News") @@ (x1 :> "Cricket") @@ (x2 :> "Tamil") @@ (f :> "Arts")
MCCatOrder   == (m :> 0) @@ (x1 :> 2) @@ (x2 :> 1) @@ (f :> 0)
MCRank       == "Arts" :> 1 @@ "Cricket" :> 2 @@ "News" :> 3 @@ "Tamil" :> 4
MCNameOf     == (m :> "m") @@ (x1 :> "x") @@ (x2 :> "y") @@ (f :> "x")
MCHits       == "" :> Channel @@ "q" :> {m, x1}
MCCategories == <<"News", "Sports">>
=============================================================================
