-------------------------- MODULE GameLibrary_proofs --------------------------
(***************************************************************************)
(* The library for any profiles, games, collections and months: what every *)
(* call and every step of the two long transactions keeps, whichever       *)
(* thread takes it and whatever is rolled back in between.                 *)
(*                                                                         *)
(* A database is good when favourites, collections, synced games and       *)
(* cached months are in order.  A rollback brings back the database at the *)
(* transaction's BEGIN, so that one must be good as well.                  *)
(***************************************************************************)
EXTENDS GameLibrary, TLAPS

FavoritesOK(d) ==
    \A f \in d.favorites :
        /\ f.game \in Stored(d)
        /\ f.profile = Owner(d, f.game)
        /\ \A other \in d.favorites : other.game = f.game => other = f

CollectionsOK(d) ==
    /\ \A f \in d.favorites :
            f.collection # None => d.collections[f.collection] # None
    /\ \A c, k \in Collections :
            d.collections[c] # None /\ d.collections[c] = d.collections[k] => c = k

\* Only online profiles have synced games.
SyncedOnline(d) ==
    \A g \in Stored(d) : d.games[g].remote # None => Owner(d, g) \in OnlineProfiles

MonthsOK(d) ==
    \A r \in Remotes :
        <<Account[r], Archive[r]>> \in d.months /\ Ended[r] = Archive[r]
        => Holds(d, Account[r], r)

Core(d) == d \in Library /\ FavoritesOK(d) /\ CollectionsOK(d) /\ SyncedOnline(d)
Good(d) == Core(d) /\ MonthsOK(d)

\* What one step may do to the synced games that are worth keeping, and to
\* those the months stand for.
KeptStay(d, e) ==
    \A g \in Stored(d) :
        /\ d.games[g].remote # None
        /\ IsFavorite(d, g) \/ Analysed(d, g)
        => g \in Stored(e) \/ Owner(d, g) \notin e.profiles

SyncedStay(d, e) ==
    \A p \in Profiles, r \in Remotes : Holds(d, p, r) => Holds(e, p, r)

------------------------------------------------------------------------------
(* Operators on a database.                                                 *)

\* None stands for absence, and is no profile, game, content or name.
LEMMA NoneIsNew ==
    None \notin Profiles /\ None \notin Games /\ None \notin Contents
    /\ None \notin Remotes /\ None \notin Collections /\ None \notin Names
BY LibraryAssumption

\* A game that is stored is a record of a game.
LEMMA StoredGame ==
    ASSUME NEW d \in Library, NEW g \in Stored(d)
    PROVE  g \in Games /\ d.games[g] \in Game /\ Owner(d, g) \in Profiles
BY DEF Library, Stored, Owner, Game

\* A record of a game is not the mark of an empty place.
LEMMA GameIsSome ==
    ASSUME NEW game \in Game
    PROVE  game # None
BY LibraryAssumption

\* Where the games are the same, all that is read of them is.
LEMMA SameGames ==
    ASSUME NEW d, NEW e, e.games = d.games
    PROVE  /\ Stored(e) = Stored(d)
           /\ \A g : Owner(e, g) = Owner(d, g)
           /\ \A p : OwnGames(e, p) = OwnGames(d, p)
           /\ \A p, r : Holds(e, p, r) = Holds(d, p, r)
<1>1. Stored(e) = Stored(d) /\ \A g : Owner(e, g) = Owner(d, g)
  BY DEF Stored, Owner
<1>2. \A p : OwnGames(e, p) = OwnGames(d, p)
  BY <1>1 DEF OwnGames
<1> QED
  BY <1>1, <1>2 DEF Holds

\* A game without analyses has the type of the ranks.
LEMMA NoRunType == NoRun \in [Versions -> RunRank]
BY LibraryAssumption DEF NoRun, RunRank

\* The cascade from games: what is left is as it was.
LEMMA GamesGone ==
    ASSUME NEW d, Core(d), NEW those \in SUBSET Games
    PROVE  LET e == WithoutGames(d, those) IN
           /\ Core(e)
           /\ e.profiles = d.profiles /\ e.months = d.months /\ e.active = d.active
           /\ Stored(e) = Stored(d) \ those
           /\ \A g \in Stored(e) : e.games[g] = d.games[g]
           /\ \A g \in Games \ those : e.runs[g] = d.runs[g]
           /\ e.favorites = {f \in d.favorites : f.game \notin those}
<1> DEFINE e == WithoutGames(d, those)
<1>0. d \in Library
  BY DEF Core
<1>1. e \in Library
  <2>1. [g \in Games |-> IF g \in those THEN None ELSE d.games[g]] \in [Games -> Game \cup {None}]
    BY <1>0 DEF Library
  <2>2. [g \in Games |-> IF g \in those THEN NoRun ELSE d.runs[g]]
            \in [Games -> [Versions -> RunRank]]
    BY <1>0, NoRunType DEF Library
  <2> QED
    BY <1>0, <2>1, <2>2 DEF WithoutGames, Library
<1>2. /\ e.games = [g \in Games |-> IF g \in those THEN None ELSE d.games[g]]
      /\ e.favorites = {f \in d.favorites : f.game \notin those}
      /\ e.runs = [g \in Games |-> IF g \in those THEN NoRun ELSE d.runs[g]]
      /\ e.collections = d.collections
      /\ e.profiles = d.profiles /\ e.months = d.months /\ e.active = d.active
  BY <1>0 DEF WithoutGames, Library
<1>3. Stored(e) = Stored(d) \ those /\ \A g \in Stored(e) : e.games[g] = d.games[g]
  BY <1>2 DEF Stored
<1>4. FavoritesOK(e)
  BY <1>2, <1>3 DEF FavoritesOK, Core, Owner
<1>5. CollectionsOK(e)
  BY <1>2 DEF CollectionsOK, Core
<1>6. SyncedOnline(e)
  BY <1>3 DEF SyncedOnline, Core, Owner
<1> QED
  BY <1>1, <1>2, <1>3, <1>4, <1>5, <1>6 DEF Core, WithoutGames

\* A profile that goes takes its games along.
LEMMA ProfileGone ==
    ASSUME NEW d, Core(d), NEW p \in Profiles, NEW next \in Profiles \cup {None}
    PROVE  LET e == [WithoutProfile(d, p) EXCEPT !.active = next] IN
           /\ Core(e)
           /\ e.profiles = d.profiles \ {p}
           /\ e.months = {m \in d.months : m[1] # p}
           /\ Stored(e) = Stored(d) \ OwnGames(d, p)
           /\ \A g \in Stored(e) : e.games[g] = d.games[g]
           /\ \A g \in Stored(e) : e.runs[g] = d.runs[g]
           /\ e.favorites = {f \in d.favorites : f.profile # p}
<1> DEFINE those == OwnGames(d, p)
           m == WithoutGames(d, those)
           e == [WithoutProfile(d, p) EXCEPT !.active = next]
<1>0. those \in SUBSET Games
  BY DEF OwnGames, Stored
<1>1. /\ Core(m)
      /\ m.profiles = d.profiles /\ m.months = d.months
      /\ Stored(m) = Stored(d) \ those
      /\ \A g \in Stored(m) : m.games[g] = d.games[g]
      /\ \A g \in Games \ those : m.runs[g] = d.runs[g]
      /\ m.favorites = {f \in d.favorites : f.game \notin those}
  BY <1>0, GamesGone
<1>2. m \in Library
  BY <1>1 DEF Core
<1>3. /\ e.games = m.games /\ e.runs = m.runs /\ e.collections = m.collections
      /\ e.profiles = d.profiles \ {p}
      /\ e.months = {x \in d.months : x[1] # p}
      /\ e.favorites = {f \in m.favorites : f.profile # p}
      /\ e \in Library
  BY <1>1, <1>2 DEF WithoutProfile, Library
<1>4. Stored(e) = Stored(m) /\ \A g : Owner(e, g) = Owner(m, g)
  BY <1>3, SameGames
<1>5. FavoritesOK(e)
  BY <1>1, <1>3, <1>4 DEF FavoritesOK, Core
<1>6. CollectionsOK(e)
  BY <1>1, <1>3 DEF CollectionsOK, Core
<1>7. SyncedOnline(e)
  BY <1>1, <1>3, <1>4 DEF SyncedOnline, Core
<1>8. e.favorites = {f \in d.favorites : f.profile # p}
  BY <1>1, <1>3 DEF Core, FavoritesOK, OwnGames
<1>9. \A g \in Stored(e) : e.games[g] = d.games[g] /\ e.runs[g] = d.runs[g]
  BY <1>1, <1>3, <1>4 DEF Stored
<1> QED
  BY <1>1, <1>3, <1>4, <1>5, <1>6, <1>7, <1>8, <1>9 DEF Core

------------------------------------------------------------------------------
(* Favourites.                                                              *)

\* Where only the favourites change, they alone have to be in order.
LEMMA NewFavorites ==
    ASSUME NEW d, Core(d), NEW favorites \in SUBSET Favorite,
           \A f \in favorites :
              /\ f.game \in Stored(d)
              /\ f.profile = Owner(d, f.game)
              /\ f.collection # None => d.collections[f.collection] # None
              /\ \A other \in favorites : other.game = f.game => other = f
    PROVE  LET e == [d EXCEPT !.favorites = favorites] IN
           /\ Core(e)
           /\ e.favorites = favorites /\ e.games = d.games /\ e.runs = d.runs
           /\ e.profiles = d.profiles /\ e.months = d.months /\ e.active = d.active
           /\ e.collections = d.collections
<1> DEFINE e == [d EXCEPT !.favorites = favorites]
<1>1. /\ e \in Library
      /\ e.favorites = favorites /\ e.games = d.games /\ e.runs = d.runs
      /\ e.profiles = d.profiles /\ e.months = d.months /\ e.active = d.active
      /\ e.collections = d.collections
  BY DEF Core, Library
<1>2. Stored(e) = Stored(d) /\ \A g : Owner(e, g) = Owner(d, g)
  BY <1>1, SameGames
<1>3. FavoritesOK(e)
  BY <1>1, <1>2 DEF FavoritesOK
<1>4. CollectionsOK(e)
  BY <1>1 DEF CollectionsOK, Core
<1>5. SyncedOnline(e)
  BY <1>1, <1>2 DEF SyncedOnline, Core
<1> QED
  BY <1>1, <1>3, <1>4, <1>5 DEF Core

\* A step that keeps the games, the profiles and the months keeps what is
\* said of them.
LEMMA GamesStay ==
    ASSUME NEW d, NEW e, Good(d), Core(e),
           e.games = d.games, e.months \subseteq d.months
    PROVE  Good(e) /\ KeptStay(d, e) /\ SyncedStay(d, e)
<1>1. Stored(e) = Stored(d) /\ \A p, r : Holds(e, p, r) = Holds(d, p, r)
  BY SameGames
<1>2. KeptStay(d, e) /\ SyncedStay(d, e)
  BY <1>1 DEF KeptStay, SyncedStay
<1> QED
  BY <1>1, <1>2 DEF Good, MonthsOK

\* A game of profile p, marked in collection c.
LEMMA FavoriteAdded ==
    ASSUME NEW d, Core(d), NEW g \in Stored(d), NEW c \in Collections \cup {None},
           c # None => d.collections[c] # None
    PROVE  LET e == WithFavorite(d, Owner(d, g), g, c) IN
           /\ Core(e)
           /\ e.games = d.games /\ e.months = d.months /\ e.collections = d.collections
<1> DEFINE row == [profile |-> Owner(d, g), game |-> g, collection |-> c]
<1>0. d \in Library /\ g \in Games /\ Owner(d, g) \in Profiles
  BY StoredGame DEF Core
<1>1. CASE \E f \in d.favorites : f.profile = Owner(d, g) /\ f.game = g
  BY <1>1 DEF WithFavorite
<1>2. CASE ~\E f \in d.favorites : f.profile = Owner(d, g) /\ f.game = g
  <2>1. \A f \in d.favorites : f.game # g
    BY <1>2 DEF Core, FavoritesOK
  <2>2. d.favorites \cup {row} \in SUBSET Favorite
    BY <1>0 DEF Library, Favorite
  <2>3. \A f \in d.favorites \cup {row} :
            /\ f.game \in Stored(d)
            /\ f.profile = Owner(d, f.game)
            /\ f.collection # None => d.collections[f.collection] # None
            /\ \A other \in d.favorites \cup {row} : other.game = f.game => other = f
    BY <2>1 DEF Core, FavoritesOK, CollectionsOK
  <2>4. WithFavorite(d, Owner(d, g), g, c) = [d EXCEPT !.favorites = d.favorites \cup {row}]
    BY <1>2 DEF WithFavorite
  <2> HIDE DEF row
  <2> QED
    BY <2>2, <2>3, <2>4, NewFavorites
<1> QED
  BY <1>1, <1>2

\* Favourites moved to collection c: they stay whose and of what they were.
Regroup(d, those, c) ==
    {IF f \in those THEN [f EXCEPT !.collection = c] ELSE f : f \in d.favorites}

\* Favourites put into collection c are still rows of stored games and their
\* owners, and those of a collection are in one that exists.
LEMMA Regrouped ==
    ASSUME NEW d, Core(d), NEW those, NEW c \in Collections \cup {None},
           c # None => d.collections[c] # None
    PROVE  /\ Regroup(d, those, c) \in SUBSET Favorite
           /\ \A f \in Regroup(d, those, c) :
                /\ f.game \in Stored(d)
                /\ f.profile = Owner(d, f.game)
                /\ f.collection # None => d.collections[f.collection] # None
                /\ f \in d.favorites \ those \/ f.collection = c
                /\ \A other \in Regroup(d, those, c) : other.game = f.game => other = f
<1> DEFINE moved(f) == IF f \in those THEN [f EXCEPT !.collection = c] ELSE f
           favorites == {moved(f) : f \in d.favorites}
<1>0. d.favorites \in SUBSET Favorite
  BY DEF Core, Library
<1>1. \A f \in d.favorites :
        /\ moved(f) \in Favorite
        /\ moved(f).game = f.game /\ moved(f).profile = f.profile
        /\ moved(f).collection \in {f.collection, c}
        /\ moved(f) \in d.favorites \ those \/ moved(f).collection = c
  BY <1>0 DEF Favorite
<1>2. favorites \in SUBSET Favorite
  BY <1>1
<1>3. ASSUME NEW f \in favorites
      PROVE  /\ f.game \in Stored(d)
             /\ f.profile = Owner(d, f.game)
             /\ f.collection # None => d.collections[f.collection] # None
             /\ f \in d.favorites \ those \/ f.collection = c
             /\ \A other \in favorites : other.game = f.game => other = f
  <2>1. PICK old \in d.favorites : f = moved(old)
    BY <1>3
  <2>2. /\ f.game \in Stored(d) /\ f.profile = Owner(d, f.game)
        /\ f.collection # None => d.collections[f.collection] # None
        /\ f \in d.favorites \ those \/ f.collection = c
    BY <1>1, <2>1 DEF Core, FavoritesOK, CollectionsOK
  <2>3. ASSUME NEW other \in favorites, other.game = f.game
        PROVE  other = f
    <3>1. PICK old2 \in d.favorites : other = moved(old2)
      BY <2>3
    <3>2. old2.game = old.game
      BY <1>1, <2>1, <2>3, <3>1
    <3> QED
      BY <2>1, <3>1, <3>2 DEF Core, FavoritesOK
  <2> QED
    BY <2>2, <2>3
<1>4. Regroup(d, those, c) = favorites
  BY DEF Regroup
<1> HIDE DEF favorites
<1> QED
  BY <1>2, <1>3, <1>4

\* Putting favourites into another collection leaves the library in order ...
LEMMA RegroupedGood ==
    ASSUME NEW d, Core(d), NEW those, NEW c \in Collections \cup {None},
           c # None => d.collections[c] # None
    PROVE  LET e == [d EXCEPT !.favorites = Regroup(d, those, c)] IN
           Core(e) /\ e.games = d.games /\ e.months = d.months
BY Regrouped, NewFavorites

\* ... and so does marking one game and putting it there.
LEMMA InCollectionGood ==
    ASSUME NEW d, Core(d), NEW g, NEW c \in Collections \cup {None},
           c # None => d.collections[c] # None
    PROVE  LET e == InCollection(d, g, c) IN
           Core(e) /\ e.games = d.games /\ e.months = d.months
<1>1. InCollection(d, g, c) =
        [d EXCEPT !.favorites = Regroup(d, {f \in d.favorites : f.game = g}, c)]
  BY DEF InCollection, Regroup
<1> QED
  BY <1>1, RegroupedGood

------------------------------------------------------------------------------
(* Profiles and games.                                                      *)

\* The active profile is one that exists, or none.
LEMMA ActiveType ==
    ASSUME NEW d \in Library
    PROVE  Active(d) \in d.profiles \cup {None} /\ d.profiles \subseteq Profiles
           /\ d.active \in Profiles \cup {None}
BY DEF Active, Library

\* What is neither game nor favourite nor collection does not matter.
LEMMA OtherFields ==
    ASSUME NEW d, Core(d), NEW e \in Library, e.games = d.games,
           e.favorites = d.favorites, e.collections = d.collections
    PROVE  Core(e)
<1>1. Stored(e) = Stored(d) /\ \A g : Owner(e, g) = Owner(d, g)
  BY SameGames
<1>2. FavoritesOK(e)
  BY <1>1 DEF Core, FavoritesOK
<1>3. CollectionsOK(e)
  BY DEF Core, CollectionsOK
<1>4. SyncedOnline(e)
  BY <1>1 DEF Core, SyncedOnline
<1> QED
  BY <1>2, <1>3, <1>4 DEF Core

\* A profile that goes takes its months along with the games.
LEMMA ProfileGoneGood ==
    ASSUME NEW d, Good(d), NEW p \in Profiles, NEW next \in Profiles \cup {None}
    PROVE  LET e == [WithoutProfile(d, p) EXCEPT !.active = next]
           IN  Good(e) /\ KeptStay(d, e)
<1> DEFINE e == [WithoutProfile(d, p) EXCEPT !.active = next]
<1>1. /\ Core(e)
      /\ e.profiles = d.profiles \ {p}
      /\ e.months = {m \in d.months : m[1] # p}
      /\ Stored(e) = Stored(d) \ OwnGames(d, p)
      /\ \A g \in Stored(e) : e.games[g] = d.games[g]
  BY ProfileGone DEF Good
<1> HIDE DEF e
<1>2. KeptStay(d, e)
  BY <1>1 DEF KeptStay, OwnGames
<1>3. MonthsOK(e)
  <2> SUFFICES ASSUME NEW r \in Remotes, <<Account[r], Archive[r]>> \in e.months,
                      Ended[r] = Archive[r]
               PROVE  Holds(e, Account[r], r)
    BY DEF MonthsOK
  <2>1. <<Account[r], Archive[r]>> \in d.months /\ Account[r] # p
    BY <1>1
  <2>2. PICK g \in OwnGames(d, Account[r]) : d.games[g].remote = r
    BY <2>1 DEF Good, MonthsOK, Holds
  <2>3. g \in Stored(e) /\ e.games[g] = d.games[g]
    BY <1>1, <2>1, <2>2 DEF OwnGames
  <2> QED
    BY <2>2, <2>3 DEF Holds, OwnGames, Owner
<1> QED
  BY <1>1, <1>2, <1>3 DEF Good, e

\* A game written to an empty place, or over one of the same profile and the
\* same synced game.
LEMMA GameWritten ==
    ASSUME NEW d, Good(d), NEW g \in Games, NEW game \in Game,
           game.remote # None => game.owner \in OnlineProfiles,
           \/ g \notin Stored(d)
           \/ g \in Stored(d) /\ Owner(d, g) = game.owner /\ d.games[g].remote = game.remote
    PROVE  LET e == WithGame(d, g, game) IN
           /\ Good(e) /\ KeptStay(d, e) /\ SyncedStay(d, e)
           /\ game.remote \in Remotes => Holds(e, game.owner, game.remote)
<1> DEFINE e == WithGame(d, g, game)
<1>1. /\ e \in Library
      /\ e.games = [d.games EXCEPT ![g] = game]
      /\ e.favorites = d.favorites /\ e.collections = d.collections
      /\ e.profiles = d.profiles /\ e.months = d.months
  BY DEF Good, Core, WithGame, Library
<1>2. d.games \in [Games -> Game \cup {None}]
  BY DEF Good, Core, Library
<1> HIDE DEF e
<1>3. /\ e.games[g] = game
      /\ \A h \in Games \ {g} : e.games[h] = d.games[h]
      /\ Stored(e) = Stored(d) \cup {g}
  BY <1>1, <1>2, GameIsSome DEF Stored
<1>4. \A h \in Stored(d) :
          Owner(e, h) = Owner(d, h) /\ e.games[h].remote = d.games[h].remote
  BY <1>3 DEF Owner, Stored
<1>5. FavoritesOK(e)
  BY <1>1, <1>3, <1>4 DEF Good, Core, FavoritesOK
<1>6. CollectionsOK(e)
  BY <1>1 DEF Good, Core, CollectionsOK
<1>7. SyncedOnline(e)
  BY <1>3, <1>4 DEF Good, Core, SyncedOnline, Owner
<1>8. KeptStay(d, e)
  BY <1>3 DEF KeptStay
<1>9. SyncedStay(d, e)
  BY <1>3, <1>4 DEF SyncedStay, Holds, OwnGames
<1>10. \A r \in Remotes : Account[r] \in Profiles
  BY LibraryAssumption DEF Profiles
<1>11. MonthsOK(e)
  BY <1>1, <1>9, <1>10 DEF Good, MonthsOK, SyncedStay
<1>12. game.remote \in Remotes => Holds(e, game.owner, game.remote)
  BY <1>3 DEF Holds, OwnGames, Owner
<1> QED
  BY <1>1, <1>5, <1>6, <1>7, <1>8, <1>9, <1>11, <1>12 DEF Good, Core, e

------------------------------------------------------------------------------
(* The calls, one by one.                                                   *)

StepOK == Good(db') /\ KeptStay(db, db') /\ (tx # NoTransaction => SyncedStay(db, db'))

\* A call that leaves games and months alone is a good step if favourites and
\* collections stay in order.
LEMMA GamesStayStep ==
    ASSUME Good(db), Core(db'), db'.games = db.games, db'.months = db.months
    PROVE  StepOK
BY GamesStay DEF StepOK

\* create_profile.
LEMMA CreateProfileOK ==
    ASSUME Good(db), NEW p \in Profiles, CreateProfile(p)
    PROVE  StepOK
<1>1. /\ db' \in Library /\ db'.games = db.games /\ db'.favorites = db.favorites
      /\ db'.collections = db.collections /\ db'.months = db.months
  BY DEF Good, Core, CreateProfile, Library
<1> QED
  BY <1>1, OtherFields, GamesStayStep DEF Good

\* select_profile.
LEMMA SelectProfileOK ==
    ASSUME Good(db), NEW p \in Profiles, SelectProfile(p)
    PROVE  StepOK
<1>1. /\ db' \in Library /\ db'.games = db.games /\ db'.favorites = db.favorites
      /\ db'.collections = db.collections /\ db'.months = db.months
  BY DEF Good, Core, SelectProfile, Library
<1> QED
  BY <1>1, OtherFields, GamesStayStep DEF Good

\* delete_profile takes the games, favourites and months of the profile along.
LEMMA DeleteProfileOK ==
    ASSUME Good(db), NEW p \in Profiles, DeleteProfile(p)
    PROVE  StepOK
<1>1. PICK next \in (IF db.active # p THEN {db.active}
                     ELSE IF db.profiles \ {p} = {} THEN {None} ELSE db.profiles \ {p}) :
          db' = [WithoutProfile(db, p) EXCEPT !.active = next]
  BY DEF DeleteProfile
<1>2. next \in Profiles \cup {None}
  BY <1>1, ActiveType DEF Good, Core
<1> QED
  BY <1>1, <1>2, ProfileGoneGood DEF StepOK, DeleteProfile, CanBegin

\* The local profile of an import may be new.
LEMMA WithHomeGood ==
    ASSUME NEW d, Good(d), NEW p \in Profiles
    PROVE  LET e == WithHome(d, p) IN
           /\ Good(e) /\ KeptStay(d, e) /\ SyncedStay(d, e)
           /\ e.games = d.games /\ e.runs = d.runs /\ e.favorites = d.favorites
           /\ d.profiles \subseteq e.profiles
<1> DEFINE e == WithHome(d, p)
<1>1. /\ e \in Library /\ e.games = d.games /\ e.favorites = d.favorites /\ e.runs = d.runs
      /\ e.collections = d.collections /\ e.months = d.months
      /\ d.profiles \subseteq e.profiles
  BY DEF Good, Core, WithHome, Library
<1> QED
  BY <1>1, OtherFields, GamesStay DEF Good

\* A PGN import fills a free place with a local game.
LEMMA ImportOK ==
    ASSUME Good(db), NEW c \in Files \cup {None}, Import(c)
    PROVE  StepOK
<1>1. PICK p \in LocalHome(db) :
        \/ c = None /\ db' = WithHome(db, p)
        \/ /\ c # None
           /\ \E g \in Games \ Stored(db) :
                db' = WithGame(WithHome(db, p), g,
                               [owner |-> p, content |-> c, remote |-> None])
  BY DEF Import
<1>2. p \in Profiles
  BY <1>1 DEF LocalHome, Profiles
<1> DEFINE h == WithHome(db, p)
<1>3. /\ Good(h) /\ KeptStay(db, h) /\ SyncedStay(db, h)
      /\ h.games = db.games /\ h.runs = db.runs /\ h.favorites = db.favorites
      /\ db.profiles \subseteq h.profiles
  BY <1>2, WithHomeGood
<1>4. CASE c = None
  BY <1>1, <1>3, <1>4 DEF StepOK
<1>5. CASE c # None
  <2> DEFINE game == [owner |-> p, content |-> c, remote |-> None]
  <2>1. PICK g \in Games \ Stored(db) : db' = WithGame(h, g, game)
    BY <1>1, <1>5
  <2>2. game \in Game /\ game.remote = None
    BY <1>2, <1>5, LibraryAssumption DEF Game
  <2>3. g \notin Stored(h)
    BY <1>3, SameGames
  <2> HIDE DEF game, h
  <2>4. Good(db') /\ KeptStay(h, db') /\ SyncedStay(h, db')
    BY <1>3, <2>1, <2>2, <2>3, GameWritten
  <2>5. KeptStay(db, db')
    BY <1>3, <2>4 DEF KeptStay, IsFavorite, Analysed, Stored, Owner
  <2>6. SyncedStay(db, db')
    BY <1>3, <2>4 DEF SyncedStay
  <2> QED
    BY <2>4, <2>5, <2>6 DEF StepOK
<1> QED
  BY <1>4, <1>5

\* Marking a favourite, or taking the mark away.
LEMMA SetFavoriteOK ==
    ASSUME Good(db), NEW g \in Games, NEW value \in BOOLEAN, SetFavorite(g, value)
    PROVE  StepOK
<1>0. Core(db) /\ g \in Stored(db) /\ db \in Library
  BY DEF Good, Core, SetFavorite
<1>1. CASE value
  <2>1. db' = WithFavorite(db, Owner(db, g), g, None)
    BY <1>1 DEF SetFavorite
  <2> QED
    BY <1>0, <2>1, FavoriteAdded, GamesStayStep
<1>2. CASE ~value
  <2> DEFINE favorites == {f \in db.favorites : f.game # g}
  <2>1. db' = [db EXCEPT !.favorites = favorites]
    BY <1>2 DEF SetFavorite
  <2>2. favorites \in SUBSET Favorite
    BY <1>0 DEF Library
  <2>3. \A f \in favorites :
            /\ f.game \in Stored(db)
            /\ f.profile = Owner(db, f.game)
            /\ f.collection # None => db.collections[f.collection] # None
            /\ \A other \in favorites : other.game = f.game => other = f
    BY <1>0 DEF Core, FavoritesOK, CollectionsOK
  <2> HIDE DEF favorites
  <2> QED
    BY <1>0, <2>1, <2>2, <2>3, NewFavorites, GamesStayStep
<1> QED
  BY <1>1, <1>2

\* A collection that gets a name no other has.
LEMMA Named ==
    ASSUME NEW d, Core(d), NEW c \in Collections, NEW name \in Names,
           \A other \in Collections \ {c} : d.collections[other] # name
    PROVE  LET e == [d EXCEPT !.collections[c] = name] IN
           /\ Core(e)
           /\ e.games = d.games /\ e.months = d.months /\ e.favorites = d.favorites
           /\ e.collections[c] # None
<1> DEFINE e == [d EXCEPT !.collections[c] = name]
<1>1. /\ e \in Library
      /\ e.collections = [d.collections EXCEPT ![c] = name]
      /\ e.games = d.games /\ e.months = d.months /\ e.favorites = d.favorites
  BY DEF Core, Library
<1>2. Stored(e) = Stored(d) /\ \A g : Owner(e, g) = Owner(d, g)
  BY <1>1, SameGames
<1>3. d.collections \in [Collections -> Names \cup {None}]
      /\ \A f \in d.favorites : f.collection \in Collections \cup {None}
  BY DEF Core, Library, Favorite
<1> HIDE DEF e
<1>4. FavoritesOK(e) /\ SyncedOnline(e)
  BY <1>1, <1>2 DEF Core, FavoritesOK, SyncedOnline
<1>5. /\ e.collections[c] = name /\ name # None
      /\ \A other \in Collections \ {c} : e.collections[other] = d.collections[other]
  BY <1>1, <1>3, NoneIsNew
<1>6. CollectionsOK(e)
  <2>1. \A f \in e.favorites : f.collection # None => e.collections[f.collection] # None
    BY <1>1, <1>3, <1>5 DEF Core, CollectionsOK
  <2>2. \A x, y \in Collections :
          e.collections[x] # None /\ e.collections[x] = e.collections[y] => x = y
    BY <1>5 DEF Core, CollectionsOK
  <2> QED
    BY <2>1, <2>2 DEF CollectionsOK
<1> QED
  BY <1>1, <1>4, <1>5, <1>6 DEF Core, e

\* A collection gets a name that is free.
LEMMA CreateCollectionOK ==
    ASSUME Good(db), NEW name \in Names, CreateCollection(name)
    PROVE  StepOK
<1>1. PICK c \in Collections : db' = [db EXCEPT !.collections[c] = name]
  BY DEF CreateCollection
<1>2. \A other \in Collections \ {c} : db.collections[other] # name
  BY DEF CreateCollection
<1> QED
  BY <1>1, <1>2, Named, GamesStayStep DEF Good

\* So does one that is renamed.
LEMMA RenameCollectionOK ==
    ASSUME Good(db), NEW c \in Collections, NEW name \in Names, RenameCollection(c, name)
    PROVE  StepOK
BY Named, GamesStayStep DEF Good, RenameCollection

\* Members of a deleted collection stay favourites without one.
LEMMA DeleteCollectionOK ==
    ASSUME Good(db), NEW c \in Collections, DeleteCollection(c)
    PROVE  StepOK
<1> DEFINE those == {f \in db.favorites : f.collection = c}
           favorites == Regroup(db, those, None)
           d == [db EXCEPT !.favorites = favorites]
<1>0. db \in Library /\ Core(db)
  BY DEF Good, Core
<1>1. favorites \in SUBSET Favorite /\ \A f \in favorites : f.collection # c
  BY <1>0, Regrouped, NoneIsNew
<1>4. db' = [db EXCEPT !.collections[c] = None, !.favorites = favorites]
  BY DEF DeleteCollection, Regroup
<1> HIDE DEF favorites
<1>5. /\ Core(d)
      /\ d.favorites = favorites /\ d.games = db.games /\ d.months = db.months
      /\ d.collections = db.collections
  BY <1>0, Regrouped, NewFavorites DEF favorites
<1>6. /\ db' \in Library
      /\ db'.collections = [db.collections EXCEPT ![c] = None]
      /\ db'.games = db.games /\ db'.months = db.months /\ db'.favorites = favorites
  BY <1>0, <1>1, <1>4 DEF Library
<1> HIDE DEF d
<1>7. Stored(db') = Stored(d) /\ \A g : Owner(db', g) = Owner(d, g)
  BY <1>5, <1>6, SameGames
<1>8. FavoritesOK(db') /\ SyncedOnline(db')
  BY <1>5, <1>6, <1>7 DEF Core, FavoritesOK, SyncedOnline
<1>9. db.collections \in [Collections -> Names \cup {None}]
  BY <1>0 DEF Library
<1>12. \A f \in favorites : f.collection \in Collections \cup {None}
  BY <1>1 DEF Favorite
<1>10. /\ db'.collections[c] = None
       /\ \A other \in Collections \ {c} : db'.collections[other] = db.collections[other]
  BY <1>6, <1>9
<1>11. CollectionsOK(db')
  <2>1. \A f \in db'.favorites : f.collection # None => db'.collections[f.collection] # None
    BY <1>1, <1>5, <1>6, <1>12, <1>10 DEF Core, CollectionsOK
  <2>2. \A x, y \in Collections :
          db'.collections[x] # None /\ db'.collections[x] = db'.collections[y] => x = y
    BY <1>0, <1>10 DEF Core, CollectionsOK
  <2> QED
    BY <2>1, <2>2 DEF CollectionsOK
<1> QED
  BY <1>6, <1>8, <1>11, GamesStayStep DEF Core

\* A game put into a collection becomes a favourite if it was none.
LEMMA SetFavoriteCollectionOK ==
    ASSUME Good(db), NEW g \in Games, NEW c \in Collections \cup {None},
           SetFavoriteCollection(g, c)
    PROVE  StepOK
<1>0. Core(db) /\ g \in Stored(db)
  BY DEF Good, Core, SetFavoriteCollection
<1>1. CASE c = None
  <2>1. db' = InCollection(db, g, None)
    BY <1>1 DEF SetFavoriteCollection
  <2> QED
    BY <1>0, <2>1, InCollectionGood, GamesStayStep
<1>2. CASE c # None
  <2> DEFINE d == WithFavorite(db, Owner(db, g), g, c)
  <2>1. db' = InCollection(d, g, c) /\ db.collections[c] # None
    BY <1>2 DEF SetFavoriteCollection
  <2>2. /\ Core(d)
        /\ d.games = db.games /\ d.months = db.months /\ d.collections = db.collections
    BY <1>0, <2>1, FavoriteAdded
  <2> HIDE DEF d
  <2>3. Core(db') /\ db'.games = d.games /\ db'.months = d.months
    BY <2>1, <2>2, InCollectionGood
  <2> QED
    BY <2>2, <2>3, GamesStayStep
<1> QED
  BY <1>1, <1>2

\* A download is a favourite in a collection that is created when it is missing.
LEMMA SetDownloadedOK ==
    ASSUME Good(db), NEW g \in Games, NEW value \in BOOLEAN, SetDownloaded(g, value)
    PROVE  StepOK
<1> DEFINE existing == {c \in Collections : db.collections[c] = Downloads}
           fresh == {c \in Collections : db.collections[c] = None}
<1>0. Core(db) /\ g \in Stored(db) /\ Owner(db, g) = Active(db)
  BY DEF Good, SetDownloaded, OwnGames
<1>1. CASE value
  <2>1. PICK c \in (IF existing # {} THEN existing ELSE fresh) :
            db' = InCollection(WithFavorite([db EXCEPT !.collections[c] = Downloads],
                                            Active(db), g, c), g, c)
    BY <1>1 DEF SetDownloaded
  <2> DEFINE n == [db EXCEPT !.collections[c] = Downloads]
             d == WithFavorite(n, Active(db), g, c)
  <2>2. c \in Collections /\ \A other \in Collections \ {c} : db.collections[other] # Downloads
    BY <1>0, <2>1, LibraryAssumption, NoneIsNew DEF Core, CollectionsOK
  <2>3. /\ Core(n)
        /\ n.games = db.games /\ n.months = db.months /\ n.collections[c] # None
    BY <1>0, <2>2, LibraryAssumption, Named
  <2> HIDE DEF n
  <2>4. g \in Stored(n) /\ Owner(n, g) = Active(db)
    BY <1>0, <2>3, SameGames
  <2>5. /\ Core(d)
        /\ d.games = n.games /\ d.months = n.months /\ d.collections = n.collections
    BY <2>2, <2>3, <2>4, FavoriteAdded
  <2>6. db' = InCollection(d, g, c)
    BY <2>1 DEF n
  <2> HIDE DEF d
  <2>7. Core(db') /\ db'.games = d.games /\ db'.months = d.months
    BY <2>2, <2>3, <2>5, <2>6, InCollectionGood
  <2> QED
    BY <2>3, <2>5, <2>7, GamesStayStep
<1>2. CASE ~value
  <2> DEFINE those == {f \in db.favorites : f.game = g /\ f.collection \in existing}
  <2>1. db' = [db EXCEPT !.favorites = Regroup(db, those, None)]
    BY <1>2 DEF SetDownloaded, Regroup
  <2> HIDE DEF those
  <2> QED
    BY <1>0, <2>1, RegroupedGood, GamesStayStep
<1> QED
  BY <1>1, <1>2

\* Games that go with no month standing for them.
LEMMA GamesGoneGood ==
    ASSUME NEW d, Good(d), NEW those \in SUBSET Games,
           \A g \in Stored(d) \cap those :
              d.games[g].remote # None => ~IsFavorite(d, g) /\ ~Analysed(d, g),
           \A g \in those, r \in Remotes :
              g \in OwnGames(d, Account[r]) /\ d.games[g].remote = r
              => ~(<<Account[r], Archive[r]>> \in d.months /\ Ended[r] = Archive[r])
    PROVE  LET e == WithoutGames(d, those) IN Good(e) /\ KeptStay(d, e)
<1> DEFINE e == WithoutGames(d, those)
<1>1. /\ Core(e)
      /\ e.profiles = d.profiles /\ e.months = d.months
      /\ Stored(e) = Stored(d) \ those
      /\ \A g \in Stored(e) : e.games[g] = d.games[g]
  BY GamesGone DEF Good
<1> HIDE DEF e
<1>2. KeptStay(d, e)
  BY <1>1 DEF KeptStay
<1>3. MonthsOK(e)
  <2> SUFFICES ASSUME NEW r \in Remotes, <<Account[r], Archive[r]>> \in e.months,
                      Ended[r] = Archive[r]
               PROVE  Holds(e, Account[r], r)
    BY DEF MonthsOK
  <2>1. PICK g \in OwnGames(d, Account[r]) : d.games[g].remote = r
    BY <1>1 DEF Good, MonthsOK, Holds
  <2>2. g \in Stored(e) /\ e.games[g] = d.games[g]
    BY <1>1, <2>1 DEF OwnGames
  <2> QED
    BY <2>1, <2>2 DEF Holds, OwnGames, Owner
<1> QED
  BY <1>1, <1>2, <1>3 DEF Good, e

\* delete_local_game takes the favourite of the game along.
LEMMA DeleteLocalGameOK ==
    ASSUME Good(db), NEW g \in Games, DeleteLocalGame(g)
    PROVE  StepOK
<1>1. db' = WithoutGames(db, {g}) /\ g \in Stored(db) /\ db.games[g].remote = None
  BY DEF DeleteLocalGame, OwnGames
<1>2. \A r \in Remotes : r # None
  BY NoneIsNew
<1>3. Good(db') /\ KeptStay(db, db')
  BY <1>1, <1>2, GamesGoneGood
<1>4. Stored(db') = Stored(db) \ {g} /\ \A h \in Stored(db') : db'.games[h] = db.games[h]
  BY <1>1, GamesGone DEF Good
<1>5. SyncedStay(db, db')
  BY <1>1, <1>2, <1>4 DEF SyncedStay, Holds, OwnGames, Owner
<1> QED
  BY <1>3, <1>5 DEF StepOK

\* Clearing a month takes its mark, and no game that is worth keeping.
LEMMA ClearCachedMonthOK ==
    ASSUME Good(db), NEW m \in Months, ClearCachedMonth(m)
    PROVE  StepOK
<1> DEFINE p == Active(db)
           d == [db EXCEPT !.months = @ \ {<<p, m>>}]
           those == Disposable(db, p, m)
<1>1. db' = WithoutGames(d, those) /\ tx = NoTransaction
  BY DEF ClearCachedMonth, CanBegin
<1>2. those \in SUBSET Games
  BY DEF Disposable, OwnGames, Stored
<1>3. /\ d \in Library /\ d.games = db.games /\ d.favorites = db.favorites
      /\ d.collections = db.collections /\ d.runs = db.runs /\ d.profiles = db.profiles
      /\ d.months = db.months \ {<<p, m>>}
  BY DEF Good, Core, Library
<1> HIDE DEF d
<1>4. Core(d)
  BY <1>3, OtherFields DEF Good
<1>5. Good(d)
  BY <1>3, <1>4, GamesStay DEF Good
<1>6. /\ Stored(d) = Stored(db)
      /\ \A q : OwnGames(d, q) = OwnGames(db, q)
      /\ \A g : Owner(d, g) = Owner(db, g)
  BY <1>3, SameGames
<1>7. \A g \in Stored(d) \cap those :
          d.games[g].remote # None => ~IsFavorite(d, g) /\ ~Analysed(d, g)
  BY <1>3, <1>6 DEF Disposable, OwnGames, Good, Core, FavoritesOK, IsFavorite, Analysed
<1>8. ASSUME NEW g \in those, NEW r \in Remotes,
             g \in OwnGames(d, Account[r]), d.games[g].remote = r,
             <<Account[r], Archive[r]>> \in d.months, Ended[r] = Archive[r]
      PROVE  FALSE
  <2>1. Account[r] = p /\ Ended[r] = m
    BY <1>3, <1>6, <1>8 DEF Disposable, OwnGames
  <2> QED
    BY <1>3, <1>8, <2>1
<1> HIDE DEF those
<1>9. Good(db') /\ KeptStay(d, db')
  BY <1>1, <1>2, <1>5, <1>7, <1>8, GamesGoneGood
<1>10. KeptStay(db, db')
  BY <1>3, <1>6, <1>9 DEF KeptStay, IsFavorite, Analysed
<1> QED
  BY <1>1, <1>9, <1>10 DEF StepOK

\* Listing games names openings and changes nothing else.
LEMMA ListGamesOK ==
    ASSUME Good(db), ListGames
    PROVE  StepOK
<1>1. /\ db' \in Library /\ db'.games = db.games /\ db'.favorites = db.favorites
      /\ db'.collections = db.collections /\ db'.months = db.months
  BY DEF Good, Core, ListGames, Library, Stored
<1> QED
  BY <1>1, OtherFields, GamesStayStep DEF Good

\* A run that is persisted only goes up.
LEMMA AnalyseOK ==
    ASSUME Good(db), NEW g \in Games, NEW v \in Versions, Analyse(g, v)
    PROVE  StepOK
<1>0. db.runs \in [Games -> [Versions -> RunRank]] /\ db.runs[g][v] + 1 \in RunRank
  BY LibraryAssumption DEF Good, Core, Library, Analyse, RunRank
<1>1. [db.runs EXCEPT ![g][v] = @ + 1] \in [Games -> [Versions -> RunRank]]
  BY <1>0
<1>2. /\ db' \in Library /\ db'.games = db.games /\ db'.favorites = db.favorites
      /\ db'.collections = db.collections /\ db'.months = db.months
  BY <1>1 DEF Good, Core, Analyse, Library
<1> QED
  BY <1>2, OtherFields, GamesStayStep DEF Good

------------------------------------------------------------------------------
(* A merge, game by game.                                                   *)

\* A game's only favourite.
LEMMA FavoriteOfGame ==
    ASSUME NEW d, Core(d), NEW g, IsFavorite(d, g)
    PROVE  /\ FavoriteOf(d, g) \in d.favorites
           /\ FavoriteOf(d, g).game = g
           /\ \A f \in d.favorites : f.game = g => f = FavoriteOf(d, g)
<1>1. PICK f \in d.favorites : f.game = g
  BY DEF IsFavorite
<1>2. FavoriteOf(d, g) \in d.favorites /\ FavoriteOf(d, g).game = g
  BY <1>1 DEF FavoriteOf
<1> QED
  BY <1>2 DEF Core, FavoritesOK

\* A game carries itself ...
LEMMA CarriesItself ==
    ASSUME NEW d, Core(d), NEW g \in Games
    PROVE  Carries(d, g, d, g)
<1>1. \A v \in Versions : d.runs[g][v] \in Nat
  BY LibraryAssumption DEF Core, Library, RunRank
<1>2. \A v \in Versions : d.runs[g][v] >= d.runs[g][v]
  BY <1>1
<1> QED
  BY <1>2, FavoriteOfGame DEF Carries

\* ... and what is carried twice is carried.
LEMMA CarriesOn ==
    ASSUME NEW a, Core(a), NEW b, Core(b), NEW c, Core(c),
           NEW g \in Games, NEW h \in Games, NEW k \in Games,
           Carries(a, g, b, h), Carries(b, h, c, k)
    PROVE  Carries(a, g, c, k)
<1>1. \A v \in Versions :
        a.runs[g][v] \in Int /\ b.runs[h][v] \in Int /\ c.runs[k][v] \in Int
  BY LibraryAssumption DEF Core, Library, RunRank
<1>2. \A v \in Versions : c.runs[k][v] >= a.runs[g][v]
  BY <1>1 DEF Carries
<1>3. ASSUME IsFavorite(a, g)
      PROVE  \E f \in c.favorites :
                /\ f.game = k
                /\ FavoriteOf(a, g).collection # None => f.collection # None
  <2>1. PICK f \in b.favorites :
            /\ f.game = h
            /\ FavoriteOf(a, g).collection # None => f.collection # None
    BY <1>3 DEF Carries
  <2>2. IsFavorite(b, h) /\ FavoriteOf(b, h) = f
    BY <2>1, FavoriteOfGame DEF IsFavorite
  <2> QED
    BY <2>1, <2>2 DEF Carries
<1> QED
  BY <1>2, <1>3 DEF Carries

\* What a step of a merge may do to the games of the two profiles.
Merged(d, e, s, t) ==
    \A x \in OwnGames(d, s) \cup OwnGames(d, t) :
        \E y \in OwnGames(e, s) \cup OwnGames(e, t) : Carries(d, x, e, y)

\* A game that no duplicate waits for changes hands.
LEMMA MovedOK ==
    ASSUME Good(db), NEW s \in LocalProfiles, NEW t \in OnlineProfiles,
           merge.source = s, merge.target = t, NEW g \in OwnGames(db, s),
           db' = Moved(g)
    PROVE  /\ Good(db') /\ KeptStay(db, db')
           /\ OwnGames(db', s) = OwnGames(db, s) \ {g}
           /\ Merged(db, db', s, t)
<1> DEFINE given(f) == IF f.game = g /\ f.profile = s THEN [f EXCEPT !.profile = t] ELSE f
           favorites == {given(f) : f \in db.favorites}
<1>0. /\ Core(db) /\ db \in Library /\ g \in Games /\ s \in Profiles /\ t \in Profiles /\ s # t
      /\ db.games \in [Games -> Game \cup {None}] /\ db.games[g] \in Game
      /\ db.favorites \in SUBSET Favorite
  BY LibraryAssumption, StoredGame DEF Good, Core, Library, OwnGames, Profiles
<1>1. \A f \in db.favorites :
        /\ given(f) \in Favorite
        /\ given(f).game = f.game /\ given(f).collection = f.collection
        /\ given(f).profile = IF f.game = g THEN t ELSE f.profile
  BY <1>0 DEF Favorite, Core, FavoritesOK, OwnGames
<1>2. [db.games EXCEPT ![g].owner = t] \in [Games -> Game \cup {None}]
  <2>1. [db.games[g] EXCEPT !.owner = t] \in Game
    BY <1>0 DEF Game
  <2> QED
    BY <1>0, <2>1
<1>3. /\ db' \in Library
      /\ db'.games = [db.games EXCEPT ![g].owner = t]
      /\ db'.favorites = favorites /\ db'.collections = db.collections
      /\ db'.profiles = db.profiles /\ db'.months = db.months /\ db'.runs = db.runs
  <2>1. db' = [db EXCEPT !.games = [db.games EXCEPT ![g].owner = t], !.favorites = favorites]
    BY <1>0 DEF Moved, Library
  <2>2. favorites \in SUBSET Favorite
    BY <1>1
  <2> HIDE DEF favorites
  <2> QED
    BY <1>0, <1>2, <2>1, <2>2 DEF Library
<1> HIDE DEF favorites
<1>4. /\ \A x \in Games \ {g} : db'.games[x] = db.games[x]
      /\ db'.games[g].owner = t /\ db'.games[g].remote = db.games[g].remote
      /\ db'.games[g].content = db.games[g].content /\ db'.games[g] \in Game
  BY <1>0, <1>3 DEF Game
<1>5. Stored(db') = Stored(db)
  BY <1>0, <1>4, GameIsSome DEF Stored
<1>6. \A x \in Stored(db) : Owner(db', x) = IF x = g THEN t ELSE Owner(db, x)
  BY <1>4 DEF Owner, Stored
<1>7. /\ OwnGames(db', s) = OwnGames(db, s) \ {g}
      /\ OwnGames(db', t) = OwnGames(db, t) \cup {g}
  BY <1>0, <1>5, <1>6 DEF OwnGames
<1>8. FavoritesOK(db')
  <2> SUFFICES ASSUME NEW f \in db'.favorites
               PROVE  /\ f.game \in Stored(db') /\ f.profile = Owner(db', f.game)
                      /\ \A other \in db'.favorites : other.game = f.game => other = f
    BY DEF FavoritesOK
  <2>1. PICK old \in db.favorites : f = given(old)
    BY <1>3 DEF favorites
  <2>2. f.game \in Stored(db') /\ f.profile = Owner(db', f.game)
    BY <1>0, <1>1, <1>5, <1>6, <2>1 DEF Core, FavoritesOK
  <2>3. ASSUME NEW other \in db'.favorites, other.game = f.game
        PROVE  other = f
    <3>1. PICK old2 \in db.favorites : other = given(old2)
      BY <1>3, <2>3 DEF favorites
    <3>2. old2.game = old.game
      BY <1>1, <2>1, <2>3, <3>1
    <3> QED
      BY <1>0, <2>1, <3>1, <3>2 DEF Core, FavoritesOK
  <2> QED
    BY <2>2, <2>3
<1>9. CollectionsOK(db')
  <2>1. \A f \in db'.favorites : f.collection # None => db'.collections[f.collection] # None
    <3> TAKE f \in db'.favorites
    <3>1. PICK old \in db.favorites : f = given(old)
      BY <1>3 DEF favorites
    <3> QED
      BY <1>0, <1>1, <1>3, <3>1 DEF Core, CollectionsOK
  <2> QED
    BY <1>0, <1>3, <2>1 DEF Core, CollectionsOK
<1>10. db.games[g].remote = None
  BY <1>0, LibraryAssumption DEF Core, SyncedOnline, OwnGames
<1>11. SyncedOnline(db')
  BY <1>0, <1>4, <1>5, <1>6, <1>10 DEF Core, SyncedOnline, Stored
<1>12. SyncedStay(db, db')
  BY <1>0, <1>4, <1>5, <1>6, <1>10, NoneIsNew DEF SyncedStay, Holds, OwnGames, Stored
<1>13. \A r \in Remotes : Account[r] \in Profiles
  BY LibraryAssumption DEF Profiles
<1>14. MonthsOK(db')
  BY <1>3, <1>12, <1>13 DEF Good, MonthsOK, SyncedStay
<1>15. KeptStay(db, db')
  BY <1>5 DEF KeptStay
<1>16. ASSUME NEW x \in Stored(db)
       PROVE  Carries(db, x, db', x)
  <2>1. Carries(db, x, db, x) /\ x \in Games
    BY <1>0, CarriesItself DEF Stored
  <2>2. db'.games[x].content = db.games[x].content
    BY <1>4, <2>1
  <2>3. ASSUME IsFavorite(db, x)
        PROVE  \E f \in db'.favorites :
                  f.game = x /\ f.collection = FavoriteOf(db, x).collection
    <3>1. FavoriteOf(db, x) \in db.favorites /\ FavoriteOf(db, x).game = x
      BY <1>0, <2>3, FavoriteOfGame
    <3>2. given(FavoriteOf(db, x)) \in db'.favorites
      BY <1>3, <3>1 DEF favorites
    <3> QED
      BY <1>1, <3>1, <3>2
  <2> QED
    BY <1>3, <2>1, <2>2, <2>3 DEF Carries
<1>17. Merged(db, db', s, t)
  BY <1>7, <1>16 DEF Merged, OwnGames
<1> QED
  BY <1>3, <1>7, <1>8, <1>9, <1>11, <1>14, <1>15, <1>17 DEF Good, Core

\* The favourite of a game goes over to its duplicate.
LEMMA FavoriteGivenOn ==
    ASSUME NEW d, Core(d), NEW g \in Stored(d), NEW h \in Stored(d), g # h,
           Owner(d, h) = merge.target
    PROVE  LET e == WithFavoriteOf(d, g, h) IN
           /\ Core(e)
           /\ e.games = d.games /\ e.months = d.months /\ e.runs = d.runs
           /\ e.profiles = d.profiles
           /\ \A f \in d.favorites : f.game \notin {g, h} => f \in e.favorites
           /\ IsFavorite(d, g) => \E f \in e.favorites :
                /\ f.game = h
                /\ FavoriteOf(d, g).collection # None => f.collection # None
           /\ IsFavorite(d, h) => \E f \in e.favorites :
                /\ f.game = h
                /\ FavoriteOf(d, h).collection # None => f.collection # None
<1> DEFINE c == FavoriteOf(d, g).collection
           row == [profile |-> merge.target, game |-> h,
                   collection |-> IF c = None /\ IsFavorite(d, h)
                                  THEN FavoriteOf(d, h).collection ELSE c]
           favorites == {f \in d.favorites : f.game \notin {g, h}} \cup {row}
<1>0. /\ d \in Library /\ h \in Games /\ merge.target \in Profiles
      /\ d.favorites \in SUBSET Favorite
  BY StoredGame DEF Core, Library
<1>1. CASE ~IsFavorite(d, g)
  <2>1. WithFavoriteOf(d, g, h) = d
    BY <1>1 DEF WithFavoriteOf
  <2> QED
    BY <1>1, <2>1, FavoriteOfGame
<1>2. CASE IsFavorite(d, g)
  <2>1. FavoriteOf(d, g) \in d.favorites
    BY <1>2, FavoriteOfGame
  <2>2. IsFavorite(d, h) => FavoriteOf(d, h) \in d.favorites
    BY FavoriteOfGame
  <2>3. /\ row.game = h /\ row.profile = Owner(d, h)
        /\ row.collection \in Collections \cup {None}
        /\ row.collection # None => d.collections[row.collection] # None
        /\ c # None => row.collection # None
        /\ IsFavorite(d, h) /\ FavoriteOf(d, h).collection # None => row.collection # None
    BY <1>0, <2>1, <2>2 DEF Favorite, Core, CollectionsOK
  <2>4. row \in Favorite
    BY <1>0, <2>3 DEF Favorite
  <2> HIDE DEF row
  <2>5. favorites \in SUBSET Favorite
    BY <1>0, <2>4
  <2>6. \A f \in favorites :
            /\ f.game \in Stored(d)
            /\ f.profile = Owner(d, f.game)
            /\ f.collection # None => d.collections[f.collection] # None
            /\ \A other \in favorites : other.game = f.game => other = f
    BY <2>3 DEF Core, FavoritesOK, CollectionsOK
  <2>7. WithFavoriteOf(d, g, h) = [d EXCEPT !.favorites = favorites]
    BY <1>2 DEF WithFavoriteOf, row
  <2>8. row \in favorites /\ \A f \in d.favorites : f.game \notin {g, h} => f \in favorites
    OBVIOUS
  <2> HIDE DEF favorites
  <2> QED
    BY <2>3, <2>5, <2>6, <2>7, <2>8, NewFavorites DEF c
<1> QED
  BY <1>1, <1>2

\* Of two runs the better one stays.
LEMMA RunsGivenOn ==
    ASSUME NEW d, Core(d), NEW g \in Games, NEW h \in Games, g # h
    PROVE  LET e == WithRunsOf(d, g, h) IN
           /\ Core(e)
           /\ e.games = d.games /\ e.months = d.months /\ e.favorites = d.favorites
           /\ e.profiles = d.profiles
           /\ \A x \in Games \ {g}, v \in Versions : e.runs[x][v] >= d.runs[x][v]
           /\ \A v \in Versions : e.runs[h][v] >= d.runs[g][v]
<1> DEFINE e == WithRunsOf(d, g, h)
           best == [v \in Versions |-> Better(d.runs[g][v], d.runs[h][v])]
<1>0. d.runs \in [Games -> [Versions -> RunRank]] /\ d \in Library /\ RunRank \subseteq Nat
  BY LibraryAssumption DEF Core, Library, RunRank
<1>1. best \in [Versions -> RunRank]
  BY <1>0 DEF Better
<1>2. \A v \in Versions : best[v] >= d.runs[g][v] /\ best[v] >= d.runs[h][v]
  <2> TAKE v \in Versions
  <2>1. d.runs[g][v] \in Nat /\ d.runs[h][v] \in Nat
    BY <1>0
  <2> QED
    BY <2>1 DEF Better
<1> HIDE DEF best
<1>3. e = [d EXCEPT !.runs = [[d.runs EXCEPT ![h] = best] EXCEPT ![g] = NoRun]]
  <2>1. WithRunsOf(d, g, h) = [d EXCEPT !.runs[h] = best, !.runs[g] = NoRun]
    BY DEF WithRunsOf, best
  <2>2. [d EXCEPT !.runs[h] = best, !.runs[g] = NoRun] =
            [d EXCEPT !.runs = [[d.runs EXCEPT ![h] = best] EXCEPT ![g] = NoRun]]
    BY <1>0 DEF Library
  <2> QED
    BY <2>1, <2>2
<1>4. [[d.runs EXCEPT ![h] = best] EXCEPT ![g] = NoRun] \in [Games -> [Versions -> RunRank]]
  BY <1>0, <1>1, NoRunType
<1>5. /\ e \in Library
      /\ e.runs = [[d.runs EXCEPT ![h] = best] EXCEPT ![g] = NoRun]
      /\ e.games = d.games /\ e.months = d.months /\ e.favorites = d.favorites
      /\ e.collections = d.collections /\ e.profiles = d.profiles
  BY <1>0, <1>3, <1>4 DEF Library
<1> HIDE DEF e
<1>6. Core(e)
  BY <1>5, OtherFields
<1>7. e.runs[h] = best /\ \A x \in Games \ {g, h} : e.runs[x] = d.runs[x]
  BY <1>0, <1>5
<1>8. \A x \in Games, v \in Versions : d.runs[x][v] >= d.runs[x][v]
  <2> TAKE x \in Games, v \in Versions
  <2>1. d.runs[x][v] \in Nat
    BY <1>0
  <2> QED
    BY <2>1
<1>9. ASSUME NEW x \in Games \ {g}, NEW v \in Versions
      PROVE  e.runs[x][v] >= d.runs[x][v]
  BY <1>2, <1>7, <1>8
<1>10. \A v \in Versions : e.runs[h][v] >= d.runs[g][v]
  BY <1>2, <1>7
<1> QED
  BY <1>5, <1>6, <1>9, <1>10 DEF e

\* A game with a duplicate goes, and leaves it all it had.
LEMMA AbsorbedOK ==
    ASSUME Good(db), NEW s \in LocalProfiles, NEW t \in OnlineProfiles,
           merge.source = s, merge.target = t, NEW g \in OwnGames(db, s),
           NEW h \in Duplicates(g), db' = Absorbed(g, h)
    PROVE  /\ Good(db') /\ KeptStay(db, db')
           /\ OwnGames(db', s) = OwnGames(db, s) \ {g}
           /\ Merged(db, db', s, t)
<1> DEFINE d == WithFavoriteOf(db, g, h)
           e == WithRunsOf(d, g, h)
<1>0. /\ Core(db) /\ g \in Stored(db) /\ h \in Stored(db) /\ g \in Games /\ h \in Games
      /\ Owner(db, g) = s /\ Owner(db, h) = t /\ s # t
      /\ db.games[h].content = db.games[g].content
  BY LibraryAssumption DEF Good, OwnGames, Duplicates, Stored
<1>1. g # h
  BY <1>0
<1>2. /\ Core(d)
      /\ d.games = db.games /\ d.months = db.months /\ d.runs = db.runs
      /\ d.profiles = db.profiles
      /\ \A f \in db.favorites : f.game \notin {g, h} => f \in d.favorites
      /\ IsFavorite(db, g) => \E f \in d.favorites :
            f.game = h /\ (FavoriteOf(db, g).collection # None => f.collection # None)
      /\ IsFavorite(db, h) => \E f \in d.favorites :
            f.game = h /\ (FavoriteOf(db, h).collection # None => f.collection # None)
  BY <1>0, <1>1, FavoriteGivenOn
<1> HIDE DEF d
<1>3. /\ Core(e)
      /\ e.games = d.games /\ e.months = d.months /\ e.favorites = d.favorites
      /\ e.profiles = d.profiles
      /\ \A x \in Games \ {g}, v \in Versions : e.runs[x][v] >= d.runs[x][v]
      /\ \A v \in Versions : e.runs[h][v] >= d.runs[g][v]
  BY <1>0, <1>1, <1>2, RunsGivenOn
<1>4. db' = WithoutGames(e, {g})
  BY DEF Absorbed, d
<1> HIDE DEF e
<1>5. /\ Stored(e) = Stored(db) /\ \A x : Owner(e, x) = Owner(db, x)
      /\ \A p : OwnGames(e, p) = OwnGames(db, p)
      /\ \A p, r : Holds(e, p, r) = Holds(db, p, r)
  BY <1>2, <1>3, SameGames
<1>6. Good(e)
  BY <1>2, <1>3, <1>5 DEF Good, MonthsOK
<1>7. e.games[g].remote = None /\ db.games[g].remote = None
  BY <1>0, <1>2, <1>3, LibraryAssumption DEF Core, SyncedOnline
<1>8. \A r \in Remotes : r # None
  BY NoneIsNew
<1>9. Good(db')
  BY <1>0, <1>4, <1>6, <1>7, <1>8, GamesGoneGood
<1>10. /\ db'.profiles = db.profiles
       /\ Stored(db') = Stored(db) \ {g}
       /\ \A x \in Stored(db') : db'.games[x] = db.games[x]
       /\ \A x \in Games \ {g} : db'.runs[x] = e.runs[x]
       /\ db'.favorites = {f \in e.favorites : f.game # g}
  BY <1>0, <1>2, <1>3, <1>4, <1>5, <1>6, GamesGone DEF Good
<1>11. KeptStay(db, db')
  BY <1>7, <1>10 DEF KeptStay
<1>12. \A p : OwnGames(db', p) = OwnGames(db, p) \ {g}
  BY <1>10 DEF OwnGames, Owner
<1>13. Carries(db, g, db', h) /\ Carries(db, h, db', h)
  <2>1. db'.games[h].content = db.games[h].content
    BY <1>0, <1>1, <1>10
  <2>2. \A f \in d.favorites : f.game = h => f \in db'.favorites
    BY <1>1, <1>3, <1>10
  <2>3. \A v \in Versions : db'.runs[h][v] >= db.runs[g][v] /\ db'.runs[h][v] >= db.runs[h][v]
    BY <1>0, <1>1, <1>2, <1>3, <1>10
  <2> QED
    BY <1>0, <1>2, <2>1, <2>2, <2>3 DEF Carries
<1>14. ASSUME NEW x \in Stored(db) \ {g, h}
       PROVE  Carries(db, x, db', x)
  <2>1. db'.games[x].content = db.games[x].content /\ x \in Games
    BY <1>10 DEF Stored
  <2>2. IsFavorite(db, x) =>
            FavoriteOf(db, x) \in db'.favorites /\ FavoriteOf(db, x).game = x
    BY <1>0, <1>2, <1>3, <1>10, FavoriteOfGame
  <2>3. \A v \in Versions : db'.runs[x][v] >= db.runs[x][v]
    BY <1>2, <1>3, <1>10, <2>1
  <2> QED
    BY <2>1, <2>2, <2>3 DEF Carries
<1>15. h \in OwnGames(db', t)
  BY <1>0, <1>1, <1>12 DEF OwnGames
<1>16. Merged(db, db', s, t)
  <2> SUFFICES ASSUME NEW x \in OwnGames(db, s) \cup OwnGames(db, t)
               PROVE  \E y \in OwnGames(db', s) \cup OwnGames(db', t) : Carries(db, x, db', y)
    BY DEF Merged
  <2>1. CASE x \in {g, h}
    BY <1>13, <1>15, <2>1
  <2>2. CASE x \notin {g, h}
    BY <1>12, <1>14, <2>2 DEF OwnGames
  <2> QED
    BY <2>1, <2>2
<1> QED
  BY <1>9, <1>11, <1>12, <1>16

------------------------------------------------------------------------------
(* The invariant: what an open transaction would bring back is good too; a  *)
(* merge has the games of the source still to do, and what it has done lost *)
(* nothing; a month holds the games it has done.                            *)

TxOK == tx = NoTransaction \/
        (tx \in [thread : Threads, saved : Library] /\ Good(tx.saved))

MergeOK == merge = NoMerge \/
    /\ merge \in [source : LocalProfiles, target : OnlineProfiles, todo : SUBSET Games]
    /\ tx # NoTransaction
    /\ month = NoMonth
    /\ merge.todo = OwnGames(db, merge.source)
    /\ \A g \in OwnGames(tx.saved, merge.source) \cup OwnGames(tx.saved, merge.target) :
          \E h \in OwnGames(db, merge.source) \cup OwnGames(db, merge.target) :
              Carries(tx.saved, g, db, h)

MonthOK == month = NoMonth \/
    /\ month \in [profile : OnlineProfiles, month : Months, todo : SUBSET Remotes]
    /\ tx # NoTransaction
    /\ merge = NoMerge
    /\ \A r \in Remotes \ month.todo :
          Account[r] = month.profile /\ Archive[r] = month.month
          => Holds(db, month.profile, r)

IInv == Good(db) /\ TxOK /\ MergeOK /\ MonthOK /\ calls \in 0..MaxCalls

\* The invariant contains the types.
LEMMA InvIsTyped == IInv => TypeOK
BY DEF IInv, TypeOK, Good, Core, TxOK, MergeOK, MonthOK

\* An installation that has just been opened satisfies it.
LEMMA InitInv == Init => IInv
<1> SUFFICES ASSUME Init PROVE IInv
  OBVIOUS
<1>1. PICK first \in (IF FirstProfiles = {} THEN {None} ELSE FirstProfiles) :
        db = [profiles |-> FirstProfiles,
              active |-> first,
              games |-> [g \in Games |-> None],
              favorites |-> {},
              collections |-> [c \in Collections |-> None],
              runs |-> [g \in Games |-> NoRun],
              named |-> {},
              months |-> {}]
  BY DEF Init
<1>2. first \in Profiles \cup {None}
  BY <1>1, LibraryAssumption
<1>3. db \in Library
  BY <1>1, <1>2, NoRunType, LibraryAssumption DEF Library
<1>4. Stored(db) = {} /\ db.favorites = {} /\ db.months = {}
      /\ \A c \in Collections : db.collections[c] = None
  BY <1>1 DEF Stored
<1>5. Good(db)
  BY <1>3, <1>4 DEF Good, Core, FavoritesOK, CollectionsOK, SyncedOnline, MonthsOK
<1>6. calls \in 0..MaxCalls
  BY LibraryAssumption DEF Init
<1> QED
  BY <1>5, <1>6 DEF Init, IInv, TxOK, MergeOK, MonthOK

\* A step that opens and closes no transaction.
LEMMA PlainStepInv ==
    ASSUME IInv, StepOK, UNCHANGED <<tx, merge, month>>, merge = NoMerge,
           calls' \in 0..MaxCalls
    PROVE  IInv'
<1>1. TxOK'
  BY DEF IInv, TxOK
<1>2. MergeOK'
  BY DEF MergeOK
<1>3. MonthOK'
  BY LibraryAssumption DEF IInv, MonthOK, StepOK, SyncedStay, Profiles
<1> QED
  BY <1>1, <1>2, <1>3 DEF IInv, StepOK

\* A call is counted, and none is made during a merge.
LEMMA CallCounts ==
    ASSUME IInv, Call
    PROVE  calls' \in 0..MaxCalls /\ merge = NoMerge
BY LibraryAssumption DEF IInv, Call

\* Every call of the user is a good step, or begins a merge.
LEMMA UserCallStep ==
    ASSUME IInv, UserCall
    PROVE  \/ StepOK /\ Call /\ Others
           \/ \E s \in LocalProfiles, t \in OnlineProfiles : MergeBegin(s, t)
<1>0. Good(db)
  BY DEF IInv
<1>1. ASSUME NEW p \in Profiles, CreateProfile(p) \/ SelectProfile(p) \/ DeleteProfile(p)
      PROVE  StepOK /\ Call /\ Others
  BY <1>0, <1>1, CreateProfileOK, SelectProfileOK, DeleteProfileOK
     DEF CreateProfile, SelectProfile, DeleteProfile
<1>2. ASSUME NEW c \in Files \cup {None}, Import(c)
      PROVE  StepOK /\ Call /\ Others
  BY <1>0, <1>2, ImportOK DEF Import
<1>3. ASSUME NEW g \in Games, NEW value \in BOOLEAN, SetFavorite(g, value) \/ SetDownloaded(g, value)
      PROVE  StepOK /\ Call /\ Others
  BY <1>0, <1>3, SetFavoriteOK, SetDownloadedOK DEF SetFavorite, SetDownloaded
<1>4. ASSUME NEW g \in Games, NEW c \in Collections \cup {None}, SetFavoriteCollection(g, c)
      PROVE  StepOK /\ Call /\ Others
  BY <1>0, <1>4, SetFavoriteCollectionOK DEF SetFavoriteCollection
<1>5. ASSUME NEW g \in Games, DeleteLocalGame(g)
      PROVE  StepOK /\ Call /\ Others
  BY <1>0, <1>5, DeleteLocalGameOK DEF DeleteLocalGame
<1>6. ASSUME NEW name \in Names, CreateCollection(name)
      PROVE  StepOK /\ Call /\ Others
  BY <1>0, <1>6, CreateCollectionOK DEF CreateCollection
<1>7. ASSUME NEW c \in Collections, NEW name \in Names, RenameCollection(c, name)
      PROVE  StepOK /\ Call /\ Others
  BY <1>0, <1>7, RenameCollectionOK DEF RenameCollection
<1>8. ASSUME NEW c \in Collections, DeleteCollection(c)
      PROVE  StepOK /\ Call /\ Others
  BY <1>0, <1>8, DeleteCollectionOK DEF DeleteCollection
<1>9. ASSUME NEW m \in Months, ClearCachedMonth(m)
      PROVE  StepOK /\ Call /\ Others
  BY <1>0, <1>9, ClearCachedMonthOK DEF ClearCachedMonth
<1>10. ASSUME ListGames
       PROVE  StepOK /\ Call /\ Others
  BY <1>0, <1>10, ListGamesOK DEF ListGames
<1> QED
  BY <1>1, <1>2, <1>3, <1>4, <1>5, <1>6, <1>7, <1>8, <1>9, <1>10 DEF UserCall

\* An open transaction is not the absence of one.
LEMMA TransactionIsOpen ==
    ASSUME NEW thread, NEW saved
    PROVE  [thread |-> thread, saved |-> saved] # NoTransaction
<1>1. DOMAIN [thread |-> thread, saved |-> saved] = {"thread", "saved"}
      /\ DOMAIN NoTransaction = {"thread"}
  BY DEF NoTransaction
<1> QED
  BY <1>1

\* BEGIN of a merge: what the transaction would bring back is good, and every
\* game carries itself.
LEMMA MergeBeginInv ==
    ASSUME IInv, NEW s \in LocalProfiles, NEW t \in OnlineProfiles, MergeBegin(s, t)
    PROVE  IInv' /\ db' = db
<1>1. /\ db' = db /\ month' = month /\ tx' = [thread |-> "user", saved |-> db]
      /\ merge' = [source |-> s, target |-> t, todo |-> OwnGames(db, s)]
      /\ tx = NoTransaction
  BY DEF MergeBegin, CanBegin
<1>2. tx' # NoTransaction
  BY <1>1, TransactionIsOpen
<1>3. month' = NoMonth
  BY <1>1 DEF IInv, MonthOK
<1>4. TxOK'
  BY <1>1 DEF IInv, TxOK, Threads, Good, Core
<1>5. \A g \in OwnGames(db, s) \cup OwnGames(db, t) : g \in Games /\ Carries(db, g, db, g)
  BY CarriesItself DEF IInv, Good, OwnGames, Stored
<1>6. MergeOK'
  BY <1>1, <1>2, <1>3, <1>5 DEF MergeOK
<1>7. MonthOK'
  BY <1>3 DEF MonthOK
<1>8. calls' \in 0..MaxCalls
  BY CallCounts DEF MergeBegin
<1> QED
  BY <1>1, <1>4, <1>6, <1>7, <1>8 DEF IInv

\* What an open merge knows: its profiles, its transaction, and that each game
\* of the two is carried.
LEMMA OpenMerge ==
    ASSUME IInv, merge # NoMerge
    PROVE  /\ merge.source \in LocalProfiles /\ merge.target \in OnlineProfiles
           /\ tx \in [thread : Threads, saved : Library] /\ Good(tx.saved)
           /\ tx # NoTransaction /\ month = NoMonth
           /\ merge.todo = OwnGames(db, merge.source)
           /\ \A g \in OwnGames(tx.saved, merge.source) \cup OwnGames(tx.saved, merge.target) :
                \E h \in OwnGames(db, merge.source) \cup OwnGames(db, merge.target) :
                    Carries(tx.saved, g, db, h)
BY DEF IInv, MergeOK, TxOK

\* What was carried so far is carried on.
LEMMA CarriedOn ==
    ASSUME IInv, merge # NoMerge, Good(db'),
           Merged(db, db', merge.source, merge.target)
    PROVE  \A g \in OwnGames(tx.saved, merge.source) \cup OwnGames(tx.saved, merge.target) :
              \E h \in OwnGames(db', merge.source) \cup OwnGames(db', merge.target) :
                  Carries(tx.saved, g, db', h)
<1> SUFFICES ASSUME NEW g \in OwnGames(tx.saved, merge.source)
                            \cup OwnGames(tx.saved, merge.target)
             PROVE  \E h \in OwnGames(db', merge.source) \cup OwnGames(db', merge.target) :
                        Carries(tx.saved, g, db', h)
  OBVIOUS
<1>1. PICK h \in OwnGames(db, merge.source) \cup OwnGames(db, merge.target) :
          Carries(tx.saved, g, db, h)
  BY OpenMerge
<1>2. PICK k \in OwnGames(db', merge.source) \cup OwnGames(db', merge.target) :
          Carries(db, h, db', k)
  BY <1>1 DEF Merged
<1>3. g \in Games /\ h \in Games /\ k \in Games
  BY DEF OwnGames, Stored
<1>4. Core(tx.saved) /\ Core(db) /\ Core(db')
  BY OpenMerge DEF IInv, Good
<1>5. Carries(tx.saved, g, db', k)
  BY <1>1, <1>2, <1>3, <1>4, CarriesOn
<1> QED
  BY <1>5

\* A game of the merge is moved, or joined with its duplicate.
LEMMA MergeGameInv ==
    ASSUME IInv, NEW g \in Games, MergeGame(g)
    PROVE  IInv' /\ KeptStay(db, db')
<1> DEFINE s == merge.source
           t == merge.target
<1>1. /\ merge # NoMerge /\ g \in merge.todo
      /\ merge' = [merge EXCEPT !.todo = @ \ {g}]
      /\ tx' = tx /\ month' = month /\ calls' = calls
  BY DEF MergeGame
<1>2. s \in LocalProfiles /\ t \in OnlineProfiles /\ merge.todo = OwnGames(db, s)
      /\ g \in OwnGames(db, s)
      /\ merge \in [source : LocalProfiles, target : OnlineProfiles, todo : SUBSET Games]
  BY <1>1, OpenMerge DEF IInv, MergeOK
<1>3. Good(db)
  BY DEF IInv
<1>4. /\ Good(db') /\ KeptStay(db, db')
      /\ OwnGames(db', s) = OwnGames(db, s) \ {g}
      /\ Merged(db, db', s, t)
  <2>1. CASE db' = Moved(g)
    BY <1>2, <1>3, <2>1, MovedOK
  <2>2. CASE \E h \in Duplicates(g) : db' = Absorbed(g, h)
    BY <1>2, <1>3, <2>2, AbsorbedOK
  <2> QED
    BY <2>1, <2>2 DEF MergeGame
<1>5. \A x \in OwnGames(tx.saved, s) \cup OwnGames(tx.saved, t) :
          \E h \in OwnGames(db', s) \cup OwnGames(db', t) : Carries(tx.saved, x, db', h)
  BY <1>1, <1>4, CarriedOn
<1>6. merge' \in [source : LocalProfiles, target : OnlineProfiles, todo : SUBSET Games]
      /\ merge'.source = s /\ merge'.target = t /\ merge'.todo = OwnGames(db', s)
  BY <1>1, <1>2, <1>4
<1>7. MergeOK'
  BY <1>1, <1>5, <1>6, OpenMerge DEF MergeOK
<1>8. MonthOK'
  BY <1>1, OpenMerge DEF MonthOK
<1>9. TxOK' /\ calls' \in 0..MaxCalls
  BY <1>1 DEF IInv, TxOK
<1> QED
  BY <1>4, <1>7, <1>8, <1>9 DEF IInv

\* The source profile is empty when it goes.
LEMMA MergeCommitInv ==
    ASSUME IInv, MergeCommit
    PROVE  /\ IInv' /\ KeptStay(db, db')
           /\ \A g \in OwnGames(tx.saved, merge.source) \cup OwnGames(tx.saved, merge.target) :
                \E h \in OwnGames(db', merge.target) : Carries(tx.saved, g, db', h)
<1> DEFINE s == merge.source
           t == merge.target
<1>1. /\ merge # NoMerge /\ merge.todo = {}
      /\ db' = [WithoutProfile(db, s) EXCEPT !.active = t]
      /\ tx' = NoTransaction /\ merge' = NoMerge /\ month' = month /\ calls' = calls
  BY DEF MergeCommit
<1>2. /\ s \in LocalProfiles /\ t \in OnlineProfiles /\ OwnGames(db, s) = {}
      /\ s \in Profiles /\ t \in Profiles /\ s # t /\ month = NoMonth
      /\ Core(tx.saved)
  BY <1>1, OpenMerge, LibraryAssumption DEF Profiles, Good
<1>3. Good(db) /\ Core(db)
  BY DEF IInv, Good
<1>4. Good(db') /\ KeptStay(db, db')
  BY <1>1, <1>2, <1>3, ProfileGoneGood
<1>5. /\ \A g \in Stored(db) : g \in Stored(db')
      /\ \A g \in Stored(db) : db'.games[g] = db.games[g] /\ db'.runs[g] = db.runs[g]
      /\ \A f \in db.favorites : f.profile # s => f \in db'.favorites
  <2> HIDE DEF s, t
  <2>1. \A g \in Stored(db) : g \in Stored(db')
    BY <1>1, <1>2, <1>3, ProfileGone
  <2>2. \A g \in Stored(db') : db'.games[g] = db.games[g]
    BY <1>1, <1>2, <1>3, ProfileGone
  <2>3. \A g \in Stored(db') : db'.runs[g] = db.runs[g]
    BY <1>1, <1>2, <1>3, ProfileGone
  <2>4. \A f \in db.favorites : f.profile # s => f \in db'.favorites
    BY <1>1, <1>2, <1>3, ProfileGone
  <2> QED
    BY <2>1, <2>2, <2>3, <2>4
<1>6. IInv'
  BY <1>1, <1>2, <1>4 DEF IInv, TxOK, MergeOK, MonthOK
<1>7. ASSUME NEW g \in OwnGames(tx.saved, s) \cup OwnGames(tx.saved, t)
      PROVE  \E h \in OwnGames(db', t) : Carries(tx.saved, g, db', h)
  <2>1. PICK h \in OwnGames(db, t) : Carries(tx.saved, g, db, h)
    BY <1>1, <1>2, OpenMerge
  <2>2. h \in Stored(db) /\ Owner(db, h) = t
    BY DEF OwnGames
  <2>3. h \in OwnGames(db', t)
    BY <1>5, <2>2 DEF OwnGames, Owner
  <2>4. \A f \in db.favorites : f.game = h => f \in db'.favorites
    BY <1>2, <1>3, <1>5, <2>2 DEF Core, FavoritesOK
  <2>5. Carries(tx.saved, g, db', h)
    BY <1>5, <2>1, <2>2, <2>4 DEF Carries
  <2> QED
    BY <2>3, <2>5
<1> QED
  BY <1>4, <1>6, <1>7

\* A rollback brings back a good database.
LEMMA RollbackInv ==
    ASSUME IInv, MergeRollback \/ MonthRollback
    PROVE  IInv' /\ tx # NoTransaction /\ db' = tx.saved
<1>1. tx \in [thread : Threads, saved : Library] /\ Good(tx.saved) /\ tx # NoTransaction
  BY DEF IInv, MergeOK, MonthOK, TxOK, MergeRollback, MonthRollback
<1>2. db' = tx.saved /\ tx' = NoTransaction /\ merge' = NoMerge /\ month' = NoMonth
      /\ calls' = calls
  BY DEF IInv, MergeOK, MonthOK, MergeRollback, MonthRollback
<1> QED
  BY <1>1, <1>2 DEF IInv, TxOK, MergeOK, MonthOK

\* BEGIN of a month: all of its games are still to be stored.
LEMMA MonthBeginInv ==
    ASSUME IInv, NEW p \in OnlineProfiles, NEW m \in Months, MonthBegin(p, m)
    PROVE  IInv' /\ db' = db
<1>1. /\ db' = db /\ merge' = merge /\ tx' = [thread |-> "sync", saved |-> db]
      /\ month' = [profile |-> p, month |-> m,
                   todo |-> {r \in Remotes : Account[r] = p /\ Archive[r] = m}]
      /\ calls' = calls /\ tx = NoTransaction
  BY DEF MonthBegin, CanBegin
<1>2. tx' # NoTransaction
  BY <1>1, TransactionIsOpen
<1>3. merge' = NoMerge
  BY <1>1 DEF IInv, MergeOK
<1>4. TxOK'
  BY <1>1 DEF IInv, TxOK, Threads, Good, Core
<1>5. MonthOK'
  BY <1>1, <1>2, <1>3 DEF MonthOK
<1>6. MergeOK'
  BY <1>3 DEF MergeOK
<1> QED
  BY <1>1, <1>4, <1>5, <1>6 DEF IInv

\* A game of the month is inserted or brought up to date.
LEMMA MonthGameInv ==
    ASSUME IInv, NEW r \in Remotes, MonthGame(r)
    PROVE  IInv' /\ KeptStay(db, db')
<1> DEFINE p == month.profile
           game == [owner |-> p, content |-> Content[r], remote |-> r]
           existing == {g \in OwnGames(db, p) : db.games[g].remote = r}
<1>1. /\ month # NoMonth /\ r \in month.todo
      /\ month' = [month EXCEPT !.todo = @ \ {r}]
      /\ tx' = tx /\ merge' = merge /\ calls' = calls
  BY DEF MonthGame
<1>2. /\ month \in [profile : OnlineProfiles, month : Months, todo : SUBSET Remotes]
      /\ tx # NoTransaction /\ merge = NoMerge
      /\ \A x \in Remotes \ month.todo :
            Account[x] = p /\ Archive[x] = month.month => Holds(db, p, x)
  BY <1>1 DEF IInv, MonthOK
<1>3. p \in OnlineProfiles /\ p \in Profiles
  BY <1>2 DEF Profiles
<1>4. game \in Game /\ game.owner = p /\ game.remote = r
  BY <1>3, LibraryAssumption DEF Game
<1>5. PICK g \in (IF existing # {} THEN existing ELSE Games \ Stored(db)) :
          db' = WithGame(db, g, game)
  BY DEF MonthGame
<1>6. /\ g \in Games
      /\ \/ g \notin Stored(db)
         \/ g \in Stored(db) /\ Owner(db, g) = p /\ db.games[g].remote = r
  BY <1>5 DEF OwnGames, Stored
<1> HIDE DEF game
<1>7. /\ Good(db') /\ KeptStay(db, db') /\ SyncedStay(db, db')
      /\ Holds(db', p, r)
  BY <1>3, <1>4, <1>5, <1>6, GameWritten DEF IInv
<1>8. month' \in [profile : OnlineProfiles, month : Months, todo : SUBSET Remotes]
      /\ month'.profile = p /\ month'.month = month.month /\ month'.todo = month.todo \ {r}
  BY <1>1, <1>2
<1>9. MonthOK'
  BY <1>1, <1>2, <1>3, <1>7, <1>8 DEF MonthOK, SyncedStay
<1>10. TxOK' /\ MergeOK'
  BY <1>1, <1>2 DEF IInv, TxOK, MergeOK
<1> QED
  BY <1>1, <1>7, <1>9, <1>10 DEF IInv

\* COMMIT of a month: the games it is marked for are stored.
LEMMA MonthCommitInv ==
    ASSUME IInv, MonthCommit
    PROVE  IInv' /\ KeptStay(db, db')
<1> DEFINE p == month.profile
           m == month.month
<1>1. /\ month # NoMonth /\ month.todo = {}
      /\ db' = [db EXCEPT !.months = @ \cup {<<p, m>>}]
      /\ tx' = NoTransaction /\ month' = NoMonth /\ merge' = merge /\ calls' = calls
  BY DEF MonthCommit
<1>2. /\ p \in OnlineProfiles /\ m \in Months /\ merge = NoMerge
      /\ \A x \in Remotes : Account[x] = p /\ Archive[x] = m => Holds(db, p, x)
  BY <1>1 DEF IInv, MonthOK
<1>3. /\ db' \in Library /\ db'.games = db.games /\ db'.favorites = db.favorites
      /\ db'.collections = db.collections /\ db'.months = db.months \cup {<<p, m>>}
  BY <1>1, <1>2 DEF IInv, Good, Core, Library
<1>4. Core(db')
  BY <1>3, OtherFields DEF IInv, Good
<1>5. /\ Stored(db') = Stored(db)
      /\ \A q, r : Holds(db', q, r) = Holds(db, q, r)
  BY <1>3, SameGames
<1>6. MonthsOK(db')
  BY <1>2, <1>3, <1>5 DEF MonthsOK, IInv, Good
<1>7. KeptStay(db, db')
  BY <1>5 DEF KeptStay
<1> QED
  BY <1>1, <1>2, <1>4, <1>6, <1>7 DEF IInv, Good, TxOK, MergeOK, MonthOK

\* An analysis gets on, perhaps inside the transaction of another thread.
LEMMA AnalyseInv ==
    ASSUME IInv, NEW g \in Games, NEW v \in Versions, Analyse(g, v)
    PROVE  IInv' /\ KeptStay(db, db')
<1>1. Good(db') /\ KeptStay(db, db') /\ (tx # NoTransaction => SyncedStay(db, db'))
  BY AnalyseOK DEF IInv, StepOK
<1>2. tx' = tx /\ merge' = merge /\ month' = month /\ calls' = calls
  BY DEF Analyse
<1>3. TxOK'
  BY <1>2 DEF IInv, TxOK
<1>4. MonthOK'
  BY <1>1, <1>2, LibraryAssumption DEF IInv, MonthOK, SyncedStay, Profiles
<1>5. /\ db'.games = db.games /\ db'.favorites = db.favorites
      /\ db'.runs = [db.runs EXCEPT ![g][v] = @ + 1]
      /\ db.runs \in [Games -> [Versions -> RunRank]] /\ RunRank \subseteq Nat
  BY LibraryAssumption DEF Analyse, IInv, Good, Core, Library, RunRank
<1>6. \A p : OwnGames(db', p) = OwnGames(db, p)
  BY <1>5, SameGames
<1>7. ASSUME NEW x \in Games
      PROVE  Carries(db, x, db', x)
  <2>1. Carries(db, x, db, x)
    BY CarriesItself DEF IInv, Good
  <2>2. ASSUME NEW w \in Versions
        PROVE  db'.runs[x][w] >= db.runs[x][w]
    <3>1. db.runs[x][w] \in Nat
      BY <1>5
    <3>2. db'.runs[x][w] \in {db.runs[x][w], db.runs[x][w] + 1}
      BY <1>5
    <3> QED
      BY <3>1, <3>2
  <2> QED
    BY <1>5, <2>1, <2>2 DEF Carries
<1>8. MergeOK'
  <2>1. CASE merge = NoMerge
    BY <1>2, <2>1 DEF MergeOK
  <2>2. CASE merge # NoMerge
    <3>1. Merged(db, db', merge.source, merge.target)
      BY <1>6, <1>7 DEF Merged, OwnGames, Stored
    <3>2. \A x \in OwnGames(tx.saved, merge.source) \cup OwnGames(tx.saved, merge.target) :
            \E h \in OwnGames(db', merge.source) \cup OwnGames(db', merge.target) :
                Carries(tx.saved, x, db', h)
      BY <1>1, <2>2, <3>1, CarriedOn
    <3> QED
      BY <1>2, <1>6, <2>2, <3>2 DEF IInv, MergeOK
  <2> QED
    BY <2>1, <2>2
<1> QED
  BY <1>1, <1>2, <1>3, <1>4, <1>8 DEF IInv

------------------------------------------------------------------------------
(* All steps together.                                                      *)

\* What a step may take away.
Kept ==
    \A g \in Stored(db) :
        /\ db.games[g].remote # None
        /\ IsFavorite(db, g) \/ Analysed(db, g)
        => \/ g \in Stored(db')
           \/ Owner(db, g) \notin db'.profiles
           \/ tx # NoTransaction /\ g \notin Stored(tx.saved)

\* Every step keeps the invariant, and the games worth keeping.
LEMMA NextInv ==
    ASSUME IInv, [Next]_vars
    PROVE  IInv' /\ Kept
<1>0. ASSUME KeptStay(db, db')
      PROVE  Kept
  BY <1>0 DEF KeptStay, Kept
<1>1. ASSUME UserCall
      PROVE  IInv' /\ Kept
  <2>1. CASE StepOK /\ Call /\ Others
    <3>1. calls' \in 0..MaxCalls /\ merge = NoMerge
      BY <2>1, CallCounts
    <3> QED
      BY <1>0, <2>1, <3>1, PlainStepInv DEF Others, StepOK
  <2>2. CASE \E s \in LocalProfiles, t \in OnlineProfiles : MergeBegin(s, t)
    BY <2>2, MergeBeginInv DEF Kept
  <2> QED
    BY <1>1, <2>1, <2>2, UserCallStep
<1>2. ASSUME \E g \in Games : MergeGame(g)
      PROVE  IInv' /\ Kept
  BY <1>0, <1>2, MergeGameInv
<1>3. ASSUME MergeCommit
      PROVE  IInv' /\ Kept
  BY <1>0, <1>3, MergeCommitInv
<1>4. ASSUME MergeRollback \/ MonthRollback
      PROVE  IInv' /\ Kept
  BY <1>4, RollbackInv DEF Kept
<1>5. ASSUME \E p \in OnlineProfiles, m \in Months : MonthBegin(p, m)
      PROVE  IInv' /\ Kept
  BY <1>5, MonthBeginInv DEF Kept
<1>6. ASSUME \E r \in Remotes : MonthGame(r)
      PROVE  IInv' /\ Kept
  BY <1>0, <1>6, MonthGameInv
<1>7. ASSUME MonthCommit
      PROVE  IInv' /\ Kept
  BY <1>0, <1>7, MonthCommitInv
<1>8. ASSUME \E g \in Games, v \in Versions : Analyse(g, v)
      PROVE  IInv' /\ Kept
  BY <1>0, <1>8, AnalyseInv
<1>9. ASSUME UNCHANGED vars
      PROVE  IInv' /\ Kept
  <2>1. db' = db /\ tx' = tx /\ merge' = merge /\ month' = month /\ calls' = calls
    BY <1>9 DEF vars
  <2>2. TxOK' /\ MergeOK' /\ MonthOK'
    BY <2>1 DEF IInv, TxOK, MergeOK, MonthOK
  <2> QED
    BY <2>1, <2>2 DEF IInv, Kept
<1> QED
  BY <1>1, <1>2, <1>3, <1>4, <1>5, <1>6, <1>7, <1>8, <1>9 DEF Next

\* The invariant holds of every reachable state, and so do the types: the
\* library stays one whatever transactions are rolled back.
THEOREM LibraryIsSound == Spec => []IInv
<1>1. IInv /\ [Next]_vars => IInv'
  BY NextInv
<1> QED
  BY <1>1, InitInv, PTL DEF Spec

\* The types of the library, for any profiles, games and months.
THEOREM LibraryTyped == Spec => []TypeOK
BY LibraryIsSound, InvIsTyped, PTL

\* A favourite is its game's owner's, whatever merges move.
THEOREM FavoritesStayWithOwner == Spec => []FavoritesFollowOwner
<1>1. IInv => FavoritesFollowOwner
  BY DEF IInv, Good, Core, FavoritesOK, FavoritesFollowOwner
<1> QED
  BY <1>1, LibraryIsSound, PTL

\* No favourite is in a collection that is gone, no two share a name.
THEOREM CollectionsStaySound == Spec => []CollectionsSound
<1>1. IInv => CollectionsSound
  BY DEF IInv, Good, Core, CollectionsOK, CollectionsSound
<1> QED
  BY <1>1, LibraryIsSound, PTL

\* A month that counts as cached has its games.
THEOREM MonthsAreStored == Spec => []CachedMonthIsStored
<1>1. IInv => CachedMonthIsStored
  BY DEF IInv, Good, MonthsOK, CachedMonthIsStored
<1> QED
  BY <1>1, LibraryIsSound, PTL

\* A synced game worth keeping is kept while its profile is there.
THEOREM KeptGamesAreKept == Spec => KeptGamesStay
<1>1. IInv /\ [Next]_vars =>
        [\A g \in Stored(db) :
            /\ db.games[g].remote # None
            /\ IsFavorite(db, g) \/ Analysed(db, g)
            => \/ g \in Stored(db')
               \/ Owner(db, g) \notin db'.profiles
               \/ tx # NoTransaction /\ g \notin Stored(tx.saved)]_vars
  BY NextInv DEF Kept
<1> QED
  BY <1>1, LibraryIsSound, PTL DEF Spec, KeptGamesStay

\* A merge that commits loses nothing of what was there when it began.
THEOREM MergesLoseNothing == Spec => MergeLosesNothing
<1>1. IInv /\ [Next]_vars =>
        [MergeCommit =>
            \A g \in OwnGames(tx.saved, merge.source) \cup OwnGames(tx.saved, merge.target) :
                \E h \in OwnGames(db', merge.target) : Carries(tx.saved, g, db', h)]_vars
  BY MergeCommitInv
<1> QED
  BY <1>1, LibraryIsSound, PTL DEF Spec, MergeLosesNothing
==============================================================================
