----------------------------- MODULE MCGameLibrary -----------------------------
(* A small library: an online profile and a local one, a game that can be   *)
(* imported and fetched, one that ended in the month after the one it is    *)
(* listed under, and a position.  The list of openings has room for one     *)
(* family of the two.                                                       *)
EXTENDS LibraryStatistics, TLC

CONSTANTS local, online, g1, g2, g3, pgn, reply, bare, me, they, early, late, m1, m2, k1, k2, other

MCGames == {g1, g2, g3}
MCRemotes == {early, late}
MCContent == (early :> pgn) @@ (late :> reply)
MCAccount == [r \in MCRemotes |-> online]
MCArchive == [r \in MCRemotes |-> m1]
MCEnded == (early :> m1) @@ (late :> m2)
MCPlayer == [p \in {local, online} |-> IF p = online THEN me ELSE local]
MCFacts ==
    (pgn :> [white |-> me, black |-> they, result |-> "black", reason |-> "abandoned",
             mate |-> FALSE, control |-> "blitz", opening |-> "italian", ply |-> 3]) @@
    (reply :> [white |-> they, black |-> me, result |-> "white", reason |-> "none",
               mate |-> TRUE, control |-> "rapid", opening |-> "sicilian", ply |-> 1]) @@
    (bare :> [white |-> they, black |-> they, result |-> "none", reason |-> "none",
              mate |-> FALSE, control |-> "unknown", opening |-> None, ply |-> -1])
MCNameOrder == ("italian" :> 1) @@ ("sicilian" :> 2)
MCOutcome == (early :> "loss") @@ (late :> "unknown")
Interchangeable == Permutations(MCGames) \cup Permutations({k1, k2})
================================================================================
