------------------------------ MODULE GameLibrary ------------------------------
(***************************************************************************)
(* The library in the database: profiles, their games, favourites and      *)
(* collections, saved analyses and cached months, and what the calls of    *)
(* the application, a synchronising worker and an analysing worker do to   *)
(* them (native/src/persistence/database.cpp, services/profile_service.cpp *)
(* and services/game_library_service.cpp).                                 *)
(*                                                                         *)
(* All threads share one SQLite connection.  A transaction that one thread *)
(* has open therefore takes in the statements of the others, takes them    *)
(* along when it is rolled back, and makes their own BEGIN fail.  The two  *)
(* long transactions, the merge of two profiles and the storage of a       *)
(* month, are modelled game by game; a short one is a step that needs the  *)
(* connection to be free.                                                  *)
(***************************************************************************)
EXTENDS Integers

CONSTANTS
    LocalProfiles,   \* ids of local PGN/FEN profiles, used or not
    OnlineProfiles,  \* ids of Chess.com and Lichess profiles
    Games,           \* ids of games
    Contents,        \* what can be in a game: two with the same are duplicates
    Files,           \* contents the user imports
    Fens,            \* those that are a position without moves
    Remotes,         \* games the providers have
    Months,
    Collections,     \* ids of collections of favourites
    Names,           \* their names, up to case
    Downloads,       \* the name "Downloads"
    Versions,        \* analysis versions
    MaxRank,         \* the rank of a complete run; see RunRank
    None,
    Content,         \* Content[r]: the content of remote game r
    Account,         \* Account[r]: the online profile whose games include r
    Archive,         \* Archive[r]: the month under which the provider lists r
    Ended,           \* Ended[r]: the month, in UTC, in which r ended
    FirstProfiles,   \* the profiles at the start
    MaxCalls         \* bound: calls of the user

Profiles == LocalProfiles \cup OnlineProfiles

Game == [owner : Profiles, content : Contents, remote : Remotes \cup {None}]

ASSUME LibraryAssumption ==
    /\ LocalProfiles \cap OnlineProfiles = {}
    /\ None \notin Profiles \cup Games \cup Contents \cup Remotes \cup Collections \cup Names \cup Game
    /\ Files \subseteq Contents /\ Fens \subseteq Contents
    /\ Downloads \in Names
    /\ MaxRank \in Nat \ {0}
    /\ Content \in [Remotes -> Contents \ Fens]   \* a sync stores no game without moves
    /\ Account \in [Remotes -> OnlineProfiles]
    /\ Archive \in [Remotes -> Months] /\ Ended \in [Remotes -> Months]
    /\ FirstProfiles \subseteq Profiles
    /\ MaxCalls \in Nat

VARIABLES
    db,     \* what a statement sees
    tx,     \* the open transaction: its thread, and the database at its BEGIN
    merge,  \* Database::merge_local_profile under way
    month,  \* Database::upsert_provider_games under way
    calls   \* number of calls so far

vars == <<db, tx, merge, month, calls>>

(* An analysis run is worth the more the more of it is done, and most when  *)
(* it is complete; 0 is no run.                                             *)
RunRank == 0..MaxRank

Favorite == [profile : Profiles, game : Games, collection : Collections \cup {None}]

Library ==
    [profiles : SUBSET Profiles,
     active : Profiles \cup {None},
     games : [Games -> Game \cup {None}],
     favorites : SUBSET Favorite,
     collections : [Collections -> Names \cup {None}],
     runs : [Games -> [Versions -> RunRank]],
     named : SUBSET Games,                     \* opening_ply is not NULL
     months : SUBSET (OnlineProfiles \X Months)]

Threads == {"user", "sync"}
NoTransaction == [thread |-> None]
NoMerge == [source |-> None]
NoMonth == [profile |-> None]

TypeOK ==
    /\ db \in Library
    /\ tx = NoTransaction \/ tx \in [thread : Threads, saved : Library]
    /\ merge = NoMerge \/
       merge \in [source : LocalProfiles, target : OnlineProfiles, todo : SUBSET Games]
    /\ month = NoMonth \/
       month \in [profile : OnlineProfiles, month : Months, todo : SUBSET Remotes]
    /\ calls \in 0..MaxCalls

NoRun == [v \in Versions |-> 0]

Init ==
    /\ \E first \in (IF FirstProfiles = {} THEN {None} ELSE FirstProfiles) :
        db = [profiles |-> FirstProfiles,
              active |-> first,
              games |-> [g \in Games |-> None],
              favorites |-> {},
              collections |-> [c \in Collections |-> None],
              runs |-> [g \in Games |-> NoRun],
              named |-> {},
              months |-> {}]
    /\ tx = NoTransaction
    /\ merge = NoMerge
    /\ month = NoMonth
    /\ calls = 0

------------------------------------------------------------------------------
(* What the statements see and what the foreign keys do.                    *)

Stored(d) == {g \in Games : d.games[g] # None}
Owner(d, g) == d.games[g].owner
OwnGames(d, p) == {g \in Stored(d) : Owner(d, g) = p}
IsFavorite(d, g) == \E f \in d.favorites : f.game = g
Analysed(d, g) == \E v \in Versions : d.runs[g][v] > 0
Holds(d, p, r) == \E g \in OwnGames(d, p) : d.games[g].remote = r

(* active_profile(): the setting may name a profile that is gone.           *)
Active(d) == IF d.active \in d.profiles THEN d.active ELSE None

(* ON DELETE CASCADE from games.                                            *)
WithoutGames(d, those) ==
    [d EXCEPT !.games = [g \in Games |-> IF g \in those THEN None ELSE @[g]],
              !.favorites = {f \in @ : f.game \notin those},
              !.runs = [g \in Games |-> IF g \in those THEN NoRun ELSE @[g]],
              !.named = @ \ those]

(* ON DELETE CASCADE from profiles.                                         *)
WithoutProfile(d, p) ==
    [WithoutGames(d, OwnGames(d, p)) EXCEPT
        !.profiles = @ \ {p},
        !.favorites = {f \in @ : f.profile # p},
        !.months = {m \in @ : m[1] # p}]

WithGame(d, g, game) == [d EXCEPT !.games[g] = game]

(* INSERT OR IGNORE: the key is the pair of profile and game.               *)
WithFavorite(d, p, g, c) ==
    IF \E f \in d.favorites : f.profile = p /\ f.game = g THEN d
    ELSE [d EXCEPT !.favorites = @ \cup {[profile |-> p, game |-> g, collection |-> c]}]

InCollection(d, g, c) ==
    [d EXCEPT !.favorites =
        {IF f.game = g THEN [f EXCEPT !.collection = c] ELSE f : f \in @}]

------------------------------------------------------------------------------
(* The calls of the user: one at a time, none during a merge.               *)

Call == merge = NoMerge /\ calls < MaxCalls /\ calls' = calls + 1

(* BEGIN IMMEDIATE fails inside a transaction of another thread.            *)
CanBegin == tx = NoTransaction

Others == UNCHANGED <<tx, merge, month>>

(* ProfileService::create_profile_json, or a job that creates a profile:    *)
(* the new one becomes the active one.                                      *)
CreateProfile(p) ==
    /\ Call
    /\ p \notin db.profiles
    /\ db' = [db EXCEPT !.profiles = @ \cup {p}, !.active = p]
    /\ Others

SelectProfile(p) ==
    /\ Call
    /\ p \in db.profiles
    /\ db' = [db EXCEPT !.active = p]
    /\ Others

(* Database::delete_profile, once the jobs of the profile have ended.       *)
DeleteProfile(p) ==
    /\ Call /\ CanBegin
    /\ p \in db.profiles
    /\ LET rest == db.profiles \ {p} IN
       \E next \in (IF db.active # p THEN {db.active}
                    ELSE IF rest = {} THEN {None} ELSE rest) :
            db' = [WithoutProfile(db, p) EXCEPT !.active = next]
    /\ Others

(* ProfileService::ensure_local_profile: the profiles an import can go to.  *)
LocalHome(d) ==
    IF Active(d) \in LocalProfiles THEN {Active(d)}
    ELSE LET present == d.profiles \cap LocalProfiles
         IN  IF present # {} THEN present ELSE LocalProfiles

(* A profile created for the import leaves an active online one active.     *)
WithHome(d, p) ==
    IF p \in d.profiles THEN d
    ELSE [d EXCEPT !.profiles = @ \cup {p},
                   !.active = IF Active(d) = None THEN p ELSE @]

(* import_pgn_json, import_fen_json.  The profile is there before the text  *)
(* is parsed: None is a text that is refused, or a PGN whose BEGIN failed.  *)
(* A position is one statement, which needs no transaction of its own.      *)
Import(c) ==
    /\ Call
    /\ \E p \in LocalHome(db) :
        \/ c = None /\ db' = WithHome(db, p)
        \/ /\ c # None
           /\ c \in Fens \/ CanBegin
           /\ \E g \in Games \ Stored(db) :
                db' = WithGame(WithHome(db, p), g,
                               [owner |-> p, content |-> c, remote |-> None])
    /\ Others

SetFavorite(g, value) ==
    /\ Call
    /\ Active(db) # None
    /\ g \in Stored(db)
    /\ db' = IF value THEN WithFavorite(db, Owner(db, g), g, None)
             ELSE [db EXCEPT !.favorites = {f \in @ : f.game # g}]
    /\ Others

CreateCollection(name) ==
    /\ Call
    /\ Active(db) # None
    /\ \A c \in Collections : db.collections[c] # name
    /\ \E c \in Collections :
        /\ db.collections[c] = None
        /\ db' = [db EXCEPT !.collections[c] = name]
    /\ Others

RenameCollection(c, name) ==
    /\ Call
    /\ Active(db) # None
    /\ db.collections[c] # None
    /\ \A other \in Collections \ {c} : db.collections[other] # name
    /\ db' = [db EXCEPT !.collections[c] = name]
    /\ Others

(* A collection removed with its favourites left in it.                     *)
DeleteCollection_KeepsMembers(c) ==
    /\ Call
    /\ Active(db) # None
    /\ db.collections[c] # None
    /\ db' = [db EXCEPT !.collections[c] = None]
    /\ Others

(* ON DELETE SET NULL from collections: its favourites become loose ones.   *)
DeleteCollection(c) ==
    /\ Call
    /\ Active(db) # None
    /\ db.collections[c] # None
    /\ db' = [db EXCEPT !.collections[c] = None,
                        !.favorites = {IF f.collection = c THEN [f EXCEPT !.collection = None]
                                       ELSE f : f \in @}]
    /\ Others

SetFavoriteCollection(g, c) ==
    /\ Call
    /\ Active(db) # None
    /\ g \in Stored(db)
    /\ \/ c = None /\ db' = InCollection(db, g, None)
       \/ /\ c # None /\ db.collections[c] # None
          /\ db' = InCollection(WithFavorite(db, Owner(db, g), g, c), g, c)
    /\ Others

(* A download is a favourite in the collection of that name, which the      *)
(* first one creates; only games of the active profile can be one.          *)
SetDownloaded(g, value) ==
    LET existing == {c \in Collections : db.collections[c] = Downloads}
        fresh == {c \in Collections : db.collections[c] = None}
    IN
    /\ Call /\ CanBegin
    /\ g \in OwnGames(db, Active(db))
    /\ \/ /\ value
          /\ \E c \in (IF existing # {} THEN existing ELSE fresh) :
               db' = InCollection(WithFavorite([db EXCEPT !.collections[c] = Downloads],
                                               Active(db), g, c), g, c)
       \/ /\ ~value
          /\ db' = [db EXCEPT !.favorites =
                     {IF f.game = g /\ f.collection \in existing
                      THEN [f EXCEPT !.collection = None] ELSE f : f \in @}]
    /\ Others

DeleteLocalGame(g) ==
    /\ Call
    /\ g \in OwnGames(db, Active(db))
    /\ db.games[g].remote = None
    /\ db' = WithoutGames(db, {g})
    /\ Others

(* Analyses are not looked at.                                              *)
Disposable_Analysed(d, p, m) ==
    {g \in OwnGames(d, p) :
        /\ d.games[g].remote # None
        /\ Ended[d.games[g].remote] = m
        /\ ~IsFavorite(d, g)}

(* The synced games of the month that nothing holds: by the month they      *)
(* ended in, not the one they were listed under.                            *)
Disposable(d, p, m) ==
    {g \in OwnGames(d, p) :
        /\ d.games[g].remote # None
        /\ Ended[d.games[g].remote] = m
        /\ ~\E f \in d.favorites : f.profile = p /\ f.game = g
        /\ ~Analysed(d, g)}

(* The month's games go, its mark stays.                                    *)
ClearCachedMonth_KeepsMark(m) ==
    /\ Call /\ CanBegin
    /\ Active(db) \in OnlineProfiles
    /\ db' = WithoutGames(db, Disposable(db, Active(db), m))
    /\ Others

ClearCachedMonth(m) ==
    /\ Call /\ CanBegin
    /\ Active(db) \in OnlineProfiles
    /\ db' = WithoutGames([db EXCEPT !.months = @ \ {<<Active(db), m>>}],
                          Disposable(db, Active(db), m))
    /\ Others

(* games_json, query_games_json and favorite_games_json first name the      *)
(* openings of the games that have none; the bound of 256 is above the pool.*)
ListGames ==
    /\ Call
    /\ db' = [db EXCEPT !.named = Stored(db)]
    /\ Others

------------------------------------------------------------------------------
(* Database::merge_local_profile: one transaction, a step for each game.    *)

MergeBegin(s, t) ==
    /\ Call /\ CanBegin
    /\ s \in db.profiles \cap LocalProfiles
    /\ t \in db.profiles \cap OnlineProfiles
    /\ tx' = [thread |-> "user", saved |-> db]
    /\ merge' = [source |-> s, target |-> t, todo |-> OwnGames(db, s)]
    /\ UNCHANGED <<db, month>>

Duplicates(g) ==
    {h \in OwnGames(db, merge.target) : db.games[h].content = db.games[g].content}

(* A merge that forgets the favourite's owner.                              *)
Moved_GameOnly(g) == [db EXCEPT !.games[g].owner = merge.target]

(* The game, and its favourite, get the target as their owner.              *)
Moved(g) ==
    [db EXCEPT !.games[g].owner = merge.target,
               !.favorites = {IF f.game = g /\ f.profile = merge.source
                              THEN [f EXCEPT !.profile = merge.target] ELSE f : f \in @}]

(* The favourite of g for its duplicate h: the source's collection wins.    *)
FavoriteOf(d, g) == CHOOSE f \in d.favorites : f.game = g

WithFavoriteOf(d, g, h) ==
    IF ~IsFavorite(d, g) THEN d
    ELSE LET c == FavoriteOf(d, g).collection
             row == [profile |-> merge.target, game |-> h,
                     collection |-> IF c = None /\ IsFavorite(d, h)
                                    THEN FavoriteOf(d, h).collection ELSE c]
         IN  [d EXCEPT !.favorites = {f \in @ : f.game \notin {g, h}} \cup {row}]

(* Of two runs of a version the better one stays, the duplicate's in a tie. *)
Better(a, b) == IF a > b THEN a ELSE b

(* The runs go with the game that is removed.                               *)
WithRunsOf_Cascade(d, g, h) == d

WithRunsOf(d, g, h) ==
    [d EXCEPT !.runs[h] = [v \in Versions |-> Better(d.runs[g][v], @[v])],
              !.runs[g] = NoRun]

Absorbed(g, h) == WithoutGames(WithRunsOf(WithFavoriteOf(db, g, h), g, h), {g})

MergeGame(g) ==
    /\ merge # NoMerge
    /\ g \in merge.todo
    /\ \/ Duplicates(g) = {} /\ db' = Moved(g)
       \/ \E h \in Duplicates(g) : db' = Absorbed(g, h)
    /\ merge' = [merge EXCEPT !.todo = @ \ {g}]
    /\ UNCHANGED <<tx, month, calls>>

MergeCommit ==
    /\ merge # NoMerge
    /\ merge.todo = {}
    /\ db' = [WithoutProfile(db, merge.source) EXCEPT !.active = merge.target]
    /\ tx' = NoTransaction
    /\ merge' = NoMerge
    /\ UNCHANGED <<month, calls>>

(* A statement fails; or the program ends, and the journal undoes what was  *)
(* open when it starts again.                                               *)
MergeRollback ==
    /\ merge # NoMerge
    /\ db' = tx.saved
    /\ tx' = NoTransaction
    /\ merge' = NoMerge
    /\ UNCHANGED <<month, calls>>

------------------------------------------------------------------------------
(* Database::upsert_provider_games, on a worker: all games the provider     *)
(* lists under the month, and then the month itself.  The profile cannot be *)
(* deleted meanwhile: the deletion waits for the worker.                    *)

MonthBegin(p, m) ==
    /\ month = NoMonth
    /\ CanBegin
    /\ p \in db.profiles \cap OnlineProfiles
    /\ tx' = [thread |-> "sync", saved |-> db]
    /\ month' = [profile |-> p, month |-> m,
                 todo |-> {r \in Remotes : Account[r] = p /\ Archive[r] = m}]
    /\ UNCHANGED <<db, merge, calls>>

(* A game that is there keeps its id, and with it its favourite and runs.   *)
MonthGame(r) ==
    LET p == month.profile
        game == [owner |-> p, content |-> Content[r], remote |-> r]
        existing == {g \in OwnGames(db, p) : db.games[g].remote = r}
    IN
    /\ month # NoMonth
    /\ r \in month.todo
    /\ \E g \in (IF existing # {} THEN existing ELSE Games \ Stored(db)) :
        db' = WithGame(db, g, game)
    /\ month' = [month EXCEPT !.todo = @ \ {r}]
    /\ UNCHANGED <<tx, merge, calls>>

MonthCommit ==
    /\ month # NoMonth
    /\ month.todo = {}
    /\ db' = [db EXCEPT !.months = @ \cup {<<month.profile, month.month>>}]
    /\ tx' = NoTransaction
    /\ month' = NoMonth
    /\ UNCHANGED <<merge, calls>>

MonthRollback ==
    /\ month # NoMonth
    /\ db' = tx.saved
    /\ tx' = NoTransaction
    /\ month' = NoMonth
    /\ UNCHANGED <<merge, calls>>

(* A complete run that an analysis goes on with.                            *)
Analyse_PastComplete(g, v) ==
    /\ g \in Stored(db)
    /\ db' = [db EXCEPT !.runs[g][v] = @ + 1]
    /\ UNCHANGED <<tx, merge, month, calls>>

(* An analysis of a stored game begins or gets on.                          *)
Analyse(g, v) ==
    /\ g \in Stored(db)
    /\ db.runs[g][v] < MaxRank
    /\ db' = [db EXCEPT !.runs[g][v] = @ + 1]
    /\ UNCHANGED <<tx, merge, month, calls>>

UserCall ==
    \/ \E p \in Profiles : CreateProfile(p) \/ SelectProfile(p) \/ DeleteProfile(p)
    \/ \E c \in Files \cup {None} : Import(c)
    \/ \E g \in Games :
        \/ \E value \in BOOLEAN : SetFavorite(g, value) \/ SetDownloaded(g, value)
        \/ \E c \in Collections \cup {None} : SetFavoriteCollection(g, c)
        \/ DeleteLocalGame(g)
    \/ \E name \in Names : CreateCollection(name)
    \/ \E c \in Collections, name \in Names : RenameCollection(c, name)
    \/ \E c \in Collections : DeleteCollection(c)
    \/ \E m \in Months : ClearCachedMonth(m)
    \/ ListGames
    \/ \E s \in LocalProfiles, t \in OnlineProfiles : MergeBegin(s, t)

Next ==
    \/ UserCall
    \/ \E g \in Games : MergeGame(g)
    \/ MergeCommit \/ MergeRollback
    \/ \E p \in OnlineProfiles, m \in Months : MonthBegin(p, m)
    \/ \E r \in Remotes : MonthGame(r)
    \/ MonthCommit \/ MonthRollback
    \/ \E g \in Games, v \in Versions : Analyse(g, v)

Spec == Init /\ [][Next]_vars

------------------------------------------------------------------------------
(* Properties.                                                              *)

(* A favourite belongs to the profile that owns its game, and a game has    *)
(* one at most, although calls name the game only and a merge changes the   *)
(* owner: the month's clearing looks for the pair.                          *)
FavoritesFollowOwner ==
    \A f \in db.favorites :
        /\ f.game \in Stored(db)
        /\ f.profile = Owner(db, f.game)
        /\ \A other \in db.favorites : other.game = f.game => other = f

(* A favourite's collection exists, and no two collections share a name,    *)
(* with downloads creating one on their own.                                *)
CollectionsSound ==
    /\ \A f \in db.favorites :
            f.collection # None => db.collections[f.collection] # None
    /\ \A c, d \in Collections :
            db.collections[c] # None /\ db.collections[c] = db.collections[d] => c = d

(* A month that counts as cached has all its games in the library, as far   *)
(* as they ended in that month: no rollback, deletion, merge or clearing    *)
(* leaves the mark without them.                                            *)
CachedMonthIsStored ==
    \A r \in Remotes :
        <<Account[r], Archive[r]>> \in db.months /\ Ended[r] = Archive[r]
        => Holds(db, Account[r], r)

(* What the merge found of game g is there afterwards, in h.                *)
Carries(before, g, after, h) ==
    /\ after.games[h].content = before.games[g].content
    /\ IsFavorite(before, g) =>
        \E f \in after.favorites :
            /\ f.game = h
            /\ FavoriteOf(before, g).collection # None => f.collection # None
    /\ \A v \in Versions : after.runs[h][v] >= before.runs[g][v]

(* A merge loses no game, no favourite and no analysis of either profile,   *)
(* whatever other threads wrote while it ran.  A favourite that was in a    *)
(* collection is in one: its own, or that of its duplicate where both       *)
(* profiles had put the game into one, and the source's wins.               *)
MergeLosesNothing ==
    [][MergeCommit =>
        \A g \in OwnGames(tx.saved, merge.source) \cup OwnGames(tx.saved, merge.target) :
            \E h \in OwnGames(db', merge.target) : Carries(tx.saved, g, db', h)]_vars

(* A synced game that is a favourite, or analysed, stays for as long as its *)
(* profile does; only the transaction that brought it can take it back.     *)
KeptGamesStay ==
    [][\A g \in Stored(db) :
        /\ db.games[g].remote # None
        /\ IsFavorite(db, g) \/ Analysed(db, g)
        => \/ g \in Stored(db')
           \/ Owner(db, g) \notin db'.profiles
           \/ tx # NoTransaction /\ g \notin Stored(tx.saved)]_vars
==============================================================================
