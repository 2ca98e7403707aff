--------------------------- MODULE LibraryStatistics ---------------------------
(***************************************************************************)
(* The statistics of the active profile, computed from its games           *)
(* (native/src/services/statistics_service.cpp, services/termination.h).   *)
(* What a game says of itself is Facts of its content; a provider's        *)
(* outcome comes with the remote game.  Rates are left out, and so are the *)
(* variations of an opening's family; sort orders matter where a list is   *)
(* cut.                                                                    *)
(***************************************************************************)
EXTENDS GameLibrary, FiniteSets, Functions

CONSTANTS
    Player,       \* Player[p]: the name the games of p know its owner by
    Facts,        \* Facts[c]: [white, black, result, reason, mate, control, opening, ply],
                  \* "opening" the family of it
    Outcome,      \* Outcome[r]: what the provider says of r
    NameOrder,    \* NameOrder[f]: the place of family f in the order of names
    MaxFamilies,  \* 60 in the code: kMaxFamilies
    OpeningMax,   \* 12 in the code: the last move of the opening
    MiddleMax     \* 30 in the code: the last move of the middlegame

ASSUME StatisticsAssumption ==
    /\ DOMAIN Player = Profiles
    /\ DOMAIN Facts = Contents
    /\ \A c \in Contents : Facts[c].ply \in Int /\ (Facts[c].ply < 0 <=> c \in Fens)
    /\ \A c, d \in Contents :
          LET a == Facts[c].opening b == Facts[d].opening IN
          a # None /\ b # None =>
              /\ NameOrder[a] \in Int
              /\ NameOrder[a] = NameOrder[b] => a = b
    /\ MaxFamilies \in Nat
    /\ Outcome \in [Remotes -> {"win", "loss", "draw", "unknown"}]
    /\ OpeningMax \in Nat /\ MiddleMax \in Nat /\ OpeningMax <= MiddleMax
    /\ IsFiniteSet(Games)     \* ids have 64 bits

Decided == {"win", "loss", "draw"}

Fact(g) == Facts[db.games[g].content]

Color(p, g) ==
    IF Fact(g).white = Player[p] THEN "white"
    ELSE IF Fact(g).black = Player[p] THEN "black" ELSE "unknown"

ProviderOutcome(g) ==
    IF db.games[g].remote = None THEN "unknown" ELSE Outcome[db.games[g].remote]

(* effective_outcome: the provider's word, else the result for the colour.  *)
EffectiveOutcome(p, g) ==
    LET said == ProviderOutcome(g)
        color == Color(p, g)
        result == Fact(g).result
    IN  IF said \in Decided THEN said
        ELSE IF color = "unknown" \/ result = "none" THEN "unknown"
        ELSE IF result = "draw" THEN "draw"
        ELSE IF result = color THEN "win" ELSE "loss"

Tally(p, those) ==
    LET with(outcome) == Cardinality({g \in those : EffectiveOutcome(p, g) = outcome})
    IN  [games |-> Cardinality(those), wins |-> with("win"), draws |-> with("draw"),
         losses |-> with("loss")]

(* An abandoned game counted under a name of its own.                       *)
Bucket_Abandoned(g) ==
    LET f == Fact(g) IN
    IF f.reason # "none" THEN f.reason
    ELSE IF f.result = "draw" THEN "draw" ELSE IF f.mate THEN "checkmate" ELSE "other"

(* termination_bucket: the reason the PGN names, if it names a known one,   *)
(* else the result, else a mating move.                                     *)
Bucket(g) ==
    LET f == Fact(g) IN
    CASE f.reason \in {"draw", "checkmate", "resignation", "timeout"} -> f.reason
      [] f.reason = "abandoned" -> "other"
      [] f.reason = "none" /\ f.result = "draw" -> "draw"
      [] f.reason = "none" /\ f.result # "draw" /\ f.mate -> "checkmate"
      [] OTHER -> "other"

Buckets == {"checkmate", "resignation", "timeout", "draw", "other"}

(* A game of no stored move, such as a FEN import, has no phase.            *)
HasMoves(g) == Fact(g).ply >= 0
LastMove(g) == (Fact(g).ply \div 2) + 1
Phase(g) == CASE LastMove(g) <= OpeningMax -> "opening"
              [] LastMove(g) > OpeningMax /\ LastMove(g) <= MiddleMax -> "middlegame"
              [] OTHER -> "endgame"

(* The name of an opening is in the row once it has been looked up.         *)
OpeningOf(g) == IF g \in db.named THEN Fact(g).opening ELSE None

Overview(p) ==
    LET mine == OwnGames(db, p)
        controls == {Fact(g).control : g \in mine}
    IN  [overall |-> Tally(p, mine),
         byColor |-> [c \in {"white", "black"} |->
                        Tally(p, {g \in mine : Color(p, g) = c})],
         byTimeControl |-> [c \in controls |->
                             Tally(p, {g \in mine : Fact(g).control = c})]]

(* An opening's family, played with one colour.                             *)
Family(p, g) == <<OpeningOf(g), Color(p, g)>>

OfFamily(p, those, k) == {g \in those : Family(p, g) = k}

ColorOrder == [c \in {"black", "unknown", "white"} |->
                CASE c = "black" -> 1 [] c = "unknown" -> 2 [] c = "white" -> 3]

(* The order in which families are listed that have so many games each.     *)
ListedBefore(games, k, l) ==
    \/ games[k] > games[l]
    \/ games[k] = games[l] /\ NameOrder[k[1]] < NameOrder[l[1]]
    \/ games[k] = games[l] /\ k[1] = l[1] /\ ColorOrder[k[2]] < ColorOrder[l[2]]

(* The families that are in the list: the first ones.                       *)
Listed(games) ==
    LET all == DOMAIN games
    IN  {k \in all : Cardinality({l \in all : ListedBefore(games, l, k)}) < MaxFamilies}

Openings(p, control) ==
    LET mine == {g \in OwnGames(db, p) : control \in {"all", Fact(g).control}}
        named == {g \in mine : OpeningOf(g) # None}
        games == [k \in {Family(p, g) : g \in named} |-> Cardinality(OfFamily(p, named, k))]
    IN  [gamesWithOpening |-> Cardinality(named),
         gamesWithoutOpening |-> Cardinality(mine \ named),
         families |-> [k \in Listed(games) |-> Tally(p, OfFamily(p, named, k))]]

Terminations(p) ==
    LET mine == OwnGames(db, p)
    IN  [totalGames |-> Cardinality(mine),
         terminations |-> [b \in Buckets |-> Tally(p, {g \in mine : Bucket(g) = b})]]

Phases(p) ==
    LET mine == OwnGames(db, p)
        classified == {g \in mine : HasMoves(g)}
    IN  [totalGames |-> Cardinality(mine),
         classified |-> Cardinality(classified),
         phases |-> [x \in {"opening", "middlegame", "endgame"} |->
                        Tally(p, {g \in classified : Phase(g) = x})]]

------------------------------------------------------------------------------
Plus(a, b) == [games |-> a.games + b.games, wins |-> a.wins + b.wins,
               draws |-> a.draws + b.draws, losses |-> a.losses + b.losses]

AddUp(tallies, total) == FoldFunction(Plus, Tally(None, {}), tallies) = total

(* The cards of the statistics tab, each computed by a query of its own,    *)
(* speak of the same games: the shares of time controls, terminations and   *)
(* phases add up to the overview, in games and in each outcome, and those   *)
(* of the listed openings to the games that have one of these, whatever     *)
(* imports, merges and synchronisations filled the profile with.  A family  *)
(* is missing from the list only when that is full, and only if none in the *)
(* list has fewer games.                                                    *)
StatisticsAgree ==
    LET p == Active(db) IN
    merge = NoMerge /\ p # None =>
        LET o == Overview(p) t == Terminations(p) f == Phases(p)
            openings == Openings(p, "all")
            named == {g \in OwnGames(db, p) : OpeningOf(g) # None}
            listed == DOMAIN openings.families
            rest == {g \in named : Family(p, g) \notin listed}
        IN  /\ AddUp(o.byTimeControl, o.overall)
            /\ AddUp(t.terminations, o.overall)
            /\ o.byColor["white"].games + o.byColor["black"].games <= o.overall.games
            /\ openings.gamesWithOpening + openings.gamesWithoutOpening = t.totalGames
            /\ AddUp(openings.families, Tally(p, named \ rest))
            /\ Cardinality(listed) <= MaxFamilies
            /\ rest # {} => Cardinality(listed) = MaxFamilies
            /\ \A g \in rest, k \in listed :
                Cardinality(OfFamily(p, rest, Family(p, g))) <= openings.families[k].games
            /\ AddUp(f.phases, Tally(p, {g \in OwnGames(db, p) : HasMoves(g)}))
            /\ f.totalGames - f.classified =
                Cardinality({g \in OwnGames(db, p) : Fact(g).ply < 0})
================================================================================
