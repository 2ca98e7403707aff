---------------------------- MODULE MCVariationJobs ----------------------------
(* Three positions in a row, the last one a mate; one line or two asked     *)
(* for, with a time limit or without, and with early stops or not.          *)
EXTENDS VariationJobs

CONSTANTS root, reply, mate

MCPositions == {root, reply, mate}
MCLegalMoves == [p \in MCPositions |-> CASE p = root -> 3 [] p = reply -> 2 [] OTHER -> 0]
MCMoves == [p \in MCPositions |-> CASE p = root -> {reply} [] p = reply -> {mate} [] OTHER -> {}]
MCSettings ==
    {[depth |-> 1, multiPv |-> 1, time |-> 1, adaptive |-> FALSE],
     [depth |-> 1, multiPv |-> 2, time |-> 1, adaptive |-> TRUE],
     [depth |-> 1, multiPv |-> 2, time |-> 0, adaptive |-> FALSE]}
================================================================================
