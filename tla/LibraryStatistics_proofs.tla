----------------------- MODULE LibraryStatistics_proofs -----------------------
(***************************************************************************)
(* The statistics of a profile add up, whatever its games are, for any     *)
(* profiles, games and facts.                                              *)
(*                                                                         *)
(* AddUp folds a sum over the shares of a statistic.  What it yields is an *)
(* induction over the set of shares.  Here it needs no induction theorem:  *)
(* the tally of a union of shares satisfies the equation that defines the  *)
(* fold, and a smallest set of shares on which two functions that satisfy  *)
(* it differ leads to a contradiction.                                     *)
(***************************************************************************)
EXTENDS LibraryStatistics, GameLibrary_proofs, FiniteSetTheorems

------------------------------------------------------------------------------
(* Sums of tallies. *)

\* A function on sets of shares that starts from the empty tally and adds the
\* share that the fold takes next is what the fold computes.
LEMMA FoldByParts ==
    ASSUME NEW K, IsFiniteSet(K), NEW t, DOMAIN t = K,
           NEW h, h = [s \in SUBSET K |-> h[s]],
           h[{}] = Tally(None, {}),
           \A s \in SUBSET K : s # {} =>
                LET x == CHOOSE x \in s : TRUE IN h[s] = Plus(t[x], h[s \ {x}])
    PROVE  AddUp(t, h[K])
<1> DEFINE base == Tally(None, {})
<1> DEFINE Eq(f) == f = [s \in SUBSET K |->
                            IF s = {} THEN base
                            ELSE LET x == CHOOSE x \in s : TRUE IN Plus(t[x], f[s \ {x}])]
<1>1. FoldFunction(Plus, base, t) = (CHOOSE f : Eq(f))[K]
  BY DEF FoldFunction, FoldFunctionOnSet, MapThenFoldSet
<1>2. Eq(h)
  OBVIOUS
<1>3. ASSUME NEW f, Eq(f) PROVE f = h
  <2> DEFINE Bad == {s \in SUBSET K : f[s] # h[s]}
  <2>0. f = [s \in SUBSET K |-> f[s]]
    BY <1>3
  <2>1. SUFFICES ASSUME Bad # {} PROVE FALSE
    <3>1. (\A s \in SUBSET K : f[s] = h[s]) => f = h
      BY <2>0, Zenon
    <3> QED
      BY <3>1
  <2>2. PICK s \in Bad : \A r \in Bad : <<r, s>> \notin StrictSubsetOrdering(K)
    <3>1. IsWellFoundedOn(StrictSubsetOrdering(K), SUBSET K)
      BY FS_StrictSubsetOrderingWellFounded, FS_FiniteSubsetsOfFinite
    <3> HIDE DEF Bad
    <3>2. Bad \subseteq SUBSET K
      BY DEF Bad
    <3> QED
      BY <3>1, <3>2, <2>1, WFMin
  <2>3. s # {}
    BY <1>3
  <2> DEFINE x == CHOOSE x \in s : TRUE
  <2>4. x \in s
    BY <2>3
  <2>5. s \ {x} \in SUBSET K /\ s \ {x} # s
    BY <2>4
  <2>6. <<s \ {x}, s>> \in StrictSubsetOrdering(K)
    BY <2>5 DEF StrictSubsetOrdering
  <2>7. f[s \ {x}] = h[s \ {x}]
    BY <2>2, <2>6, <2>5
  <2>8. f[s] = Plus(t[x], f[s \ {x}])
    BY <1>3, <2>3
  <2>9. h[s] = Plus(t[x], h[s \ {x}])
    BY <2>3
  <2> QED
    BY <2>7, <2>8, <2>9
<1> HIDE DEF Eq
<1>4. Eq(CHOOSE f : Eq(f))
  BY <1>2
<1>5. FoldFunction(Plus, base, t) = h[K]
  BY <1>1, <1>3, <1>4
<1> QED
  BY <1>5 DEF AddUp

\* The tally of no games is the same for every profile.
LEMMA NothingTallied ==
    ASSUME NEW p
    PROVE  Tally(p, {}) = Tally(None, {})
<1>1. \A q, o : {g \in {} : EffectiveOutcome(q, g) = o} = {}
  OBVIOUS
<1> QED
  BY <1>1 DEF Tally

\* The tally of two groups of games, with none in both, is the sum of theirs.
LEMMA PartsAddUp ==
    ASSUME NEW p, NEW A, NEW B, IsFiniteSet(A), IsFiniteSet(B), A \cap B = {}
    PROVE  Tally(p, A \cup B) = Plus(Tally(p, A), Tally(p, B))
<1> DEFINE With(S, o) == {g \in S : EffectiveOutcome(p, g) = o}
<1>1. Cardinality(A \cup B) = Cardinality(A) + Cardinality(B)
  <2>1. Cardinality(A \cap B) = 0
    BY FS_EmptySet
  <2>2. Cardinality(A) \in Nat /\ Cardinality(B) \in Nat
    BY FS_CardinalityType
  <2>3. Cardinality(A \cup B) = Cardinality(A) + Cardinality(B) - Cardinality(A \cap B)
    BY FS_Union
  <2> QED
    BY <2>1, <2>2, <2>3
<1>2. ASSUME NEW o
      PROVE  Cardinality(With(A \cup B, o)) = Cardinality(With(A, o)) + Cardinality(With(B, o))
  <2> DEFINE C == With(A, o)
             D == With(B, o)
  <2>1. IsFiniteSet(C) /\ IsFiniteSet(D)
    BY FS_Subset
  <2>2. C \cap D = {} /\ With(A \cup B, o) = C \cup D
    OBVIOUS
  <2> HIDE DEF C, D
  <2>3. Cardinality(C \cap D) = 0
    BY <2>2, FS_EmptySet
  <2>4. Cardinality(C) \in Nat /\ Cardinality(D) \in Nat
    BY <2>1, FS_CardinalityType
  <2>5. Cardinality(C \cup D) = Cardinality(C) + Cardinality(D) - Cardinality(C \cap D)
    BY <2>1, FS_Union
  <2>6. Cardinality(C \cup D) = Cardinality(C) + Cardinality(D)
    BY <2>3, <2>4, <2>5
  <2> QED
    BY <2>2, <2>6 DEF C, D
<1>3. \A S : Tally(p, S) = [games |-> Cardinality(S), wins |-> Cardinality(With(S, "win")),
                            draws |-> Cardinality(With(S, "draw")),
                            losses |-> Cardinality(With(S, "loss"))]
  BY DEF Tally
<1> HIDE DEF With
<1> QED
  BY <1>1, <1>2, <1>3 DEF Plus

\* Games that are shared out by a key add up to all of them, as long as every
\* key has a share.
LEMMA SharesAddUp ==
    ASSUME NEW p, NEW those, IsFiniteSet(those), NEW key, DOMAIN key = those,
           NEW K, IsFiniteSet(K), \A g \in those : key[g] \in K
    PROVE  AddUp([k \in K |-> Tally(p, {g \in those : key[g] = k})], Tally(p, those))
<1> DEFINE t == [k \in K |-> Tally(p, {g \in those : key[g] = k})]
           h == [s \in SUBSET K |-> Tally(p, {g \in those : key[g] \in s})]
           base == Tally(None, {})
<1>1. h[{}] = base
  <2>1. {g \in those : key[g] \in {}} = {}
    OBVIOUS
  <2>2. h[{}] = Tally(p, {})
    BY <2>1
  <2> QED
    BY <2>2, NothingTallied
<1>2. ASSUME NEW s \in SUBSET K, NEW x \in s
      PROVE  h[s] = Plus(t[x], h[s \ {x}])
  <2> DEFINE A == {g \in those : key[g] = x}
             B == {g \in those : key[g] \in s \ {x}}
  <2>1. IsFiniteSet(A) /\ IsFiniteSet(B)
    BY FS_Subset
  <2>2. A \cap B = {} /\ A \cup B = {g \in those : key[g] \in s}
    OBVIOUS
  <2>3. t[x] = Tally(p, A)
    OBVIOUS
  <2>4. h[s \ {x}] = Tally(p, B)
    OBVIOUS
  <2>5. h[s] = Tally(p, A \cup B)
    BY <2>2
  <2> HIDE DEF A, B, t, h
  <2> QED
    BY <2>1, <2>2, <2>3, <2>4, <2>5, PartsAddUp
<1>3. h[K] = Tally(p, those)
  <2>1. {g \in those : key[g] \in K} = those
    OBVIOUS
  <2> QED
    BY <2>1
<1>4. DOMAIN t = K /\ h = [s \in SUBSET K |-> h[s]]
  OBVIOUS
<1> HIDE DEF t, h, base
<1>5. \A s \in SUBSET K : s # {} =>
        LET x == CHOOSE x \in s : TRUE IN h[s] = Plus(t[x], h[s \ {x}])
  <2> SUFFICES ASSUME NEW s \in SUBSET K, s # {}
               PROVE  h[s] = Plus(t[CHOOSE x \in s : TRUE], h[s \ {CHOOSE x \in s : TRUE}])
    OBVIOUS
  <2>1. (CHOOSE x \in s : TRUE) \in s
    OBVIOUS
  <2> QED
    BY <2>1, <1>2
<1>6. AddUp(t, h[K])
  BY <1>1, <1>4, <1>5, FoldByParts DEF base
<1> QED
  BY <1>3, <1>6 DEF t

------------------------------------------------------------------------------
(* The shares of each statistic.                                            *)

\* Finitely many games have finitely many keys.
LEMMA KeysAreFinite ==
    ASSUME NEW those, IsFiniteSet(those), NEW key, DOMAIN key = those
    PROVE  IsFiniteSet({key[g] : g \in those})
<1> DEFINE K == {key[g] : g \in those}
           f == [g \in those |-> key[g]]
<1>1. f \in Surjection(those, K)
  BY DEF Surjection
<1> QED
  BY <1>1, FS_Surjection

\* There are finitely many terminations and phases.
LEMMA NamedSharesAreFinite ==
    IsFiniteSet(Buckets) /\ IsFiniteSet({"opening", "middlegame", "endgame"})
<1>1. \A a, b, c : IsFiniteSet({a, b, c})
  <2> SUFFICES ASSUME NEW a, NEW b, NEW c PROVE IsFiniteSet({a, b, c})
    OBVIOUS
  <2>1. IsFiniteSet({a}) /\ IsFiniteSet({a} \cup {b})
    BY FS_Singleton, FS_AddElement
  <2>2. IsFiniteSet(({a} \cup {b}) \cup {c})
    BY <2>1, FS_AddElement
  <2>3. ({a} \cup {b}) \cup {c} = {a, b, c}
    OBVIOUS
  <2> QED
    BY <2>2, <2>3
<1>2. IsFiniteSet({"checkmate", "resignation", "timeout"})
  BY <1>1
<1>3. IsFiniteSet({"draw", "other", "other"})
  BY <1>1
<1>4. Buckets = {"checkmate", "resignation", "timeout"} \cup {"draw", "other", "other"}
  BY DEF Buckets
<1>5. IsFiniteSet(Buckets)
  BY <1>2, <1>3, <1>4, FS_Union
<1> QED
  BY <1>1, <1>5

\* termination_bucket puts every game in a bucket that is listed.
LEMMA BucketIsNamed ==
    ASSUME NEW g
    PROVE  Bucket(g) \in Buckets
BY DEF Bucket, Buckets

\* A game's last move is in a phase that is listed.
LEMMA PhaseIsNamed ==
    ASSUME NEW g
    PROVE  Phase(g) \in {"opening", "middlegame", "endgame"}
BY DEF Phase

\* The games that are left over are counted by the difference.
LEMMA RestIsCounted ==
    ASSUME NEW S, IsFiniteSet(S), NEW T \in SUBSET S
    PROVE  /\ Cardinality(T) + Cardinality(S \ T) = Cardinality(S)
           /\ Cardinality(S) - Cardinality(T) = Cardinality(S \ T)
<1>1. IsFiniteSet(T) /\ IsFiniteSet(S \ T)
  BY FS_Subset, FS_Difference
<1>2. Cardinality(S) \in Nat /\ Cardinality(T) \in Nat /\ Cardinality(S \ T) \in Nat
  BY <1>1, FS_CardinalityType
<1>3. Cardinality(S \ T) = Cardinality(S) - Cardinality(S \cap T)
  BY FS_Difference
<1>4. S \cap T = T
  OBVIOUS
<1> QED
  BY <1>2, <1>3, <1>4

------------------------------------------------------------------------------
(* The list of openings. *)

\* Finitely many families, each with a number of games, that their names and
\* colours tell apart.
Ranking(games) ==
    /\ IsFiniteSet(DOMAIN games)
    /\ \A k \in DOMAIN games :
        /\ games[k] \in Nat
        /\ NameOrder[k[1]] \in Int
        /\ k[2] \in {"black", "unknown", "white"}
    /\ \A k, l \in DOMAIN games :
        /\ NameOrder[k[1]] = NameOrder[l[1]] => k[1] = l[1]
        /\ k[1] = l[1] /\ k[2] = l[2] => k = l

\* Families are listed in a strict order, and no two have the same place.
LEMMA ListIsOrdered ==
    ASSUME NEW games, Ranking(games)
    PROVE  \A j, k, l \in DOMAIN games :
            /\ ~ListedBefore(games, k, k)
            /\ ListedBefore(games, j, k) /\ ListedBefore(games, k, l)
                  => ListedBefore(games, j, l)
            /\ k # l => ListedBefore(games, k, l) \/ ListedBefore(games, l, k)
<1>1. ColorOrder["black"] = 1 /\ ColorOrder["unknown"] = 2 /\ ColorOrder["white"] = 3
  BY DEF ColorOrder
<1> DEFINE name(k) == NameOrder[k[1]]
           color(k) == ColorOrder[k[2]]
<1>2. \A k \in DOMAIN games : games[k] \in Int /\ name(k) \in Int /\ color(k) \in Int
  BY <1>1 DEF Ranking
<1>3. \A k, l \in DOMAIN games :
        /\ k[1] = l[1] <=> name(k) = name(l)
        /\ name(k) = name(l) /\ color(k) = color(l) => k = l
  BY <1>1 DEF Ranking
<1>4. \A k, l \in DOMAIN games :
        ListedBefore(games, k, l) <=>
            \/ games[k] > games[l]
            \/ games[k] = games[l] /\ name(k) < name(l)
            \/ games[k] = games[l] /\ name(k) = name(l) /\ color(k) < color(l)
  BY <1>3 DEF ListedBefore
<1> HIDE DEF name, color
<1> SUFFICES ASSUME NEW j \in DOMAIN games, NEW k \in DOMAIN games, NEW l \in DOMAIN games
             PROVE  /\ ~ListedBefore(games, k, k)
                    /\ ListedBefore(games, j, k) /\ ListedBefore(games, k, l)
                          => ListedBefore(games, j, l)
                    /\ k # l => ListedBefore(games, k, l) \/ ListedBefore(games, l, k)
  OBVIOUS
<1>5. ~ListedBefore(games, k, k)
  BY <1>2, <1>4
<1>6. ListedBefore(games, j, k) /\ ListedBefore(games, k, l) => ListedBefore(games, j, l)
  BY <1>2, <1>4
<1>7. k # l => ListedBefore(games, k, l) \/ ListedBefore(games, l, k)
  BY <1>2, <1>3, <1>4
<1> QED
  BY <1>5, <1>6, <1>7

\* The list has at most MaxFamilies families, exactly so many when one is left
\* out, and none that is left out has more games than one in the list.
LEMMA ListIsTheFirst ==
    ASSUME NEW games, Ranking(games)
    PROVE  /\ Listed(games) \subseteq DOMAIN games
           /\ IsFiniteSet(Listed(games))
           /\ Cardinality(Listed(games)) <= MaxFamilies
           /\ Listed(games) # DOMAIN games => Cardinality(Listed(games)) = MaxFamilies
           /\ \A l \in DOMAIN games \ Listed(games), k \in Listed(games) : games[l] <= games[k]
<1> DEFINE all == DOMAIN games
           first == Listed(games)
           Before(k) == {l \in all : ListedBefore(games, l, k)}
           place(k) == Cardinality(Before(k))
<1>1. IsFiniteSet(all) /\ MaxFamilies \in Nat
  BY StatisticsAssumption DEF Ranking
<1>2. \A k \in all : /\ Before(k) \in SUBSET all /\ IsFiniteSet(Before(k))
                     /\ place(k) \in Nat
  <2> SUFFICES ASSUME NEW k \in all
               PROVE  /\ Before(k) \in SUBSET all /\ IsFiniteSet(Before(k))
                      /\ place(k) \in Nat
    OBVIOUS
  <2>1. Before(k) \in SUBSET all
    OBVIOUS
  <2> HIDE DEF Before
  <2> QED
    BY <1>1, <2>1, FS_Subset, FS_CardinalityType
<1>3. first = {k \in all : place(k) < MaxFamilies} /\ first \in SUBSET all
  BY DEF Listed
<1>4. \A k \in all : \A l \in Before(k) :
        /\ l \in all /\ Before(l) \subseteq Before(k)
        /\ l \notin Before(l)
  BY ListIsOrdered
<1>5. \A k, l \in all : k # l => k \in Before(l) \/ l \in Before(k)
  BY ListIsOrdered
<1>6. \A k \in all : \A l \in Before(k) : games[l] >= games[k]
  BY DEF ListedBefore, Ranking
<1> HIDE DEF Before, first, all
<1>7. \A k \in all : \A l \in Before(k) : place(l) < place(k)
  <2> SUFFICES ASSUME NEW k \in all, NEW l \in Before(k)
               PROVE  place(l) < place(k)
    OBVIOUS
  <2>1. l \in all /\ Before(l) \cup {l} \in SUBSET Before(k) /\ l \notin Before(l)
    BY <1>4
  <2>2. Cardinality(Before(l) \cup {l}) = place(l) + 1
    BY <1>2, <2>1, FS_AddElement
  <2>3. Cardinality(Before(l) \cup {l}) <= place(k)
    BY <1>2, <2>1, FS_Subset
  <2> QED
    BY <1>2, <2>1, <2>2, <2>3
<1>8. Cardinality(first) <= MaxFamilies
  <2> DEFINE f == [k \in first |-> place(k)]
             places == 0..(MaxFamilies - 1)
  <2>1. \A k \in first : f[k] \in places
    BY <1>1, <1>2, <1>3
  <2>2. \A k, l \in first : f[k] = f[l] => k = l
    BY <1>2, <1>3, <1>5, <1>7
  <2>3. f \in Injection(first, places)
    BY <2>1, <2>2 DEF Injection, IsInjective
  <2>4. IsFiniteSet(places) /\ Cardinality(places) = MaxFamilies
    BY <1>1, FS_Interval
  <2> HIDE DEF f, places
  <2> QED
    BY <2>3, <2>4, FS_Injection
<1>9. IsFiniteSet(first) /\ Cardinality(first) \in Nat
  BY <1>1, <1>3, FS_Subset, FS_CardinalityType
<1>10. ASSUME first # all
       PROVE  Cardinality(first) = MaxFamilies
  <2> DEFINE Left == {Before(l) : l \in all \ first}
  <2>1. Left # {} /\ Left \subseteq SUBSET all
    BY <1>2, <1>3, <1>10
  <2>2. IsWellFoundedOn(StrictSubsetOrdering(all), SUBSET all)
    BY <1>1, FS_StrictSubsetOrderingWellFounded, FS_FiniteSubsetsOfFinite
  <2>3. PICK s \in Left : \A r \in Left : <<r, s>> \notin StrictSubsetOrdering(all)
    <3> HIDE DEF Left
    <3> QED
      BY <2>1, <2>2, WFMin
  <2>4. PICK l \in all \ first : s = Before(l)
    BY <2>3
  <2>5. ASSUME NEW m \in Before(l), m \notin first
        PROVE  FALSE
    <3>1. m \in all /\ Before(m) \in Left /\ Before(m) \subseteq Before(l)
      BY <1>4, <2>4, <2>5
    <3>2. Before(m) # Before(l)
      BY <1>4, <2>4, <2>5
    <3>3. <<Before(m), Before(l)>> \in StrictSubsetOrdering(all)
      BY <1>2, <2>4, <3>1, <3>2 DEF StrictSubsetOrdering
    <3> QED
      BY <2>3, <2>4, <3>1, <3>3
  <2>6. Before(l) \in SUBSET first
    BY <2>5
  <2>7. place(l) <= Cardinality(first)
    BY <1>9, <2>6, FS_Subset
  <2>8. place(l) >= MaxFamilies
    BY <1>1, <1>2, <1>3, <2>4
  <2> QED
    BY <1>1, <1>2, <1>8, <1>9, <2>4, <2>7, <2>8
<1>11. ASSUME NEW l \in all \ first, NEW k \in first
       PROVE  games[l] <= games[k]
  <2>1. place(k) < MaxFamilies /\ ~(place(l) < MaxFamilies) /\ k \in all /\ l # k
    BY <1>3, <1>11
  <2>2. k \in Before(l)
    BY <1>1, <1>2, <1>5, <1>7, <2>1
  <2> QED
    BY <1>6, <2>1, <2>2 DEF Ranking, all
<1> QED
  BY <1>3, <1>8, <1>9, <1>10, <1>11 DEF first, all

------------------------------------------------------------------------------
\* In every library the statistics of every profile agree.
LEMMA SharesOfLibrary ==
    ASSUME TypeOK, NEW p
    PROVE  LET mine == OwnGames(db, p)
               o == Overview(p) t == Terminations(p) f == Phases(p)
               openings == Openings(p, "all")
               named == {g \in mine : OpeningOf(g) # None}
               listed == DOMAIN openings.families
               rest == {g \in named : Family(p, g) \notin listed}
           IN  /\ AddUp(o.byTimeControl, o.overall)
               /\ AddUp(t.terminations, o.overall)
               /\ o.byColor["white"].games + o.byColor["black"].games <= o.overall.games
               /\ openings.gamesWithOpening + openings.gamesWithoutOpening = t.totalGames
               /\ AddUp(openings.families, Tally(p, named \ rest))
               /\ Cardinality(listed) <= MaxFamilies
               /\ rest # {} => Cardinality(listed) = MaxFamilies
               /\ \A g \in rest, k \in listed :
                   Cardinality(OfFamily(p, rest, Family(p, g))) <= openings.families[k].games
               /\ AddUp(f.phases, Tally(p, {g \in mine : HasMoves(g)}))
               /\ f.totalGames - f.classified = Cardinality({g \in mine : Fact(g).ply < 0})
<1> DEFINE mine == OwnGames(db, p)
<1>1. mine \subseteq Games /\ IsFiniteSet(mine)
  <2>1. mine \subseteq Games
    BY DEF OwnGames, Stored
  <2> QED
    BY <2>1, StatisticsAssumption, FS_Subset
<1>2. \A g \in mine : Fact(g).ply \in Int
  <2> SUFFICES ASSUME NEW g \in mine PROVE Fact(g).ply \in Int
    OBVIOUS
  <2>1. db \in Library /\ g \in Stored(db)
    BY DEF TypeOK, OwnGames
  <2>2. db.games[g] \in Game
    BY <2>1, StoredGame
  <2> QED
    BY <2>2, StatisticsAssumption DEF Game, Fact
<1> HIDE DEF mine
<1>3. AddUp(Overview(p).byTimeControl, Overview(p).overall)
  <2> DEFINE key == [g \in mine |-> Fact(g).control]
             K == {key[g] : g \in mine}
             shares == [k \in K |-> Tally(p, {g \in mine : key[g] = k})]
  <2>1. IsFiniteSet(K)
    BY <1>1, KeysAreFinite
  <2>2. AddUp(shares, Tally(p, mine))
    <3>1. DOMAIN key = mine /\ \A g \in mine : key[g] \in K
      OBVIOUS
    <3> HIDE DEF key, K
    <3> QED
      BY <1>1, <2>1, <3>1, SharesAddUp
  <2>3. K = {Fact(g).control : g \in mine}
    OBVIOUS
  <2>4. \A k : {g \in mine : key[g] = k} = {g \in mine : Fact(g).control = k}
    OBVIOUS
  <2>5. shares = [c \in {Fact(g).control : g \in mine} |->
                    Tally(p, {g \in mine : Fact(g).control = c})]
    BY <2>3, <2>4
  <2>6. Overview(p).byTimeControl = shares /\ Overview(p).overall = Tally(p, mine)
    BY <2>5 DEF Overview, mine
  <2> QED
    BY <2>2, <2>6
<1>4. AddUp(Terminations(p).terminations, Overview(p).overall)
  <2> DEFINE key == [g \in mine |-> Bucket(g)]
             shares == [k \in Buckets |-> Tally(p, {g \in mine : key[g] = k})]
  <2>1. DOMAIN key = mine /\ \A g \in mine : key[g] \in Buckets
    BY BucketIsNamed
  <2>2. \A k : {g \in mine : key[g] = k} = {g \in mine : Bucket(g) = k}
    OBVIOUS
  <2>3. shares = [b \in Buckets |-> Tally(p, {g \in mine : Bucket(g) = b})]
    BY <2>2
  <2>4. Terminations(p).terminations = shares /\ Overview(p).overall = Tally(p, mine)
    BY <2>3 DEF Terminations, Overview, mine
  <2> HIDE DEF key
  <2>5. AddUp(shares, Tally(p, mine))
    BY <1>1, <2>1, NamedSharesAreFinite, SharesAddUp
  <2> QED
    BY <2>4, <2>5
<1>5. Overview(p).byColor["white"].games + Overview(p).byColor["black"].games
        <= Overview(p).overall.games
  <2> DEFINE W == {g \in mine : Color(p, g) = "white"}
             B == {g \in mine : Color(p, g) = "black"}
  <2>1. /\ Overview(p).byColor["white"].games = Cardinality(W)
        /\ Overview(p).byColor["black"].games = Cardinality(B)
        /\ Overview(p).overall.games = Cardinality(mine)
    BY DEF Overview, Tally, mine
  <2>2. B \subseteq mine \ W /\ W \subseteq mine
    OBVIOUS
  <2> HIDE DEF W, B
  <2>3. IsFiniteSet(mine \ W) /\ IsFiniteSet(W)
    BY <1>1, <2>2, FS_Difference, FS_Subset
  <2>4. Cardinality(B) <= Cardinality(mine \ W)
    BY <2>2, <2>3, FS_Subset
  <2>5. Cardinality(W) + Cardinality(mine \ W) = Cardinality(mine)
    BY <1>1, <2>2, RestIsCounted
  <2>6. Cardinality(B) \in Nat /\ Cardinality(W) \in Nat /\ Cardinality(mine \ W) \in Nat
    BY <2>2, <2>3, FS_Subset, FS_CardinalityType
  <2> QED
    BY <2>1, <2>4, <2>5, <2>6
<1> DEFINE named == {g \in mine : OpeningOf(g) # None}
           games == [k \in {Family(p, g) : g \in named} |-> Cardinality(OfFamily(p, named, k))]
           families == [k \in Listed(games) |-> Tally(p, OfFamily(p, named, k))]
           rest == {g \in named : Family(p, g) \notin Listed(games)}
<1>6. Openings(p, "all").gamesWithOpening = Cardinality(named)
      /\ Openings(p, "all").gamesWithoutOpening = Cardinality(mine \ named)
      /\ Openings(p, "all").families = families
  <2>1. {g \in OwnGames(db, p) : "all" \in {"all", Fact(g).control}} = mine
    BY DEF mine
  <2> QED
    BY <2>1 DEF Openings
<1>f. IsFiniteSet(named) /\ named \in SUBSET mine
  BY <1>1, FS_Subset
<1>7. Openings(p, "all").gamesWithOpening + Openings(p, "all").gamesWithoutOpening
        = Terminations(p).totalGames
  <2>1. Terminations(p).totalGames = Cardinality(mine)
    BY DEF Terminations, mine
  <2> HIDE DEF named
  <2> QED
    BY <1>1, <1>6, <1>f, <2>1, RestIsCounted
<1>r. Ranking(games)
  <2>1. IsFiniteSet(DOMAIN games)
    <3> DEFINE key == [g \in named |-> Family(p, g)]
    <3>1. DOMAIN games = {key[g] : g \in named}
      OBVIOUS
    <3>2. DOMAIN key = named
      OBVIOUS
    <3> HIDE DEF key, games, named
    <3> QED
      BY <1>f, <3>1, <3>2, KeysAreFinite
  <2>2. ASSUME NEW k \in DOMAIN games
        PROVE  /\ games[k] \in Nat
               /\ \E c \in Contents : k[1] = Facts[c].opening /\ k[1] # None
               /\ k = <<k[1], k[2]>> /\ k[2] \in {"black", "unknown", "white"}
    <3>1. PICK g \in named : k = Family(p, g)
      OBVIOUS
    <3>2. k = <<OpeningOf(g), Color(p, g)>> /\ OpeningOf(g) # None
      BY <3>1 DEF Family
    <3>3. Color(p, g) \in {"black", "unknown", "white"}
      BY DEF Color
    <3>4. OpeningOf(g) = Facts[db.games[g].content].opening
      BY <3>2 DEF OpeningOf, Fact
    <3>5. db.games[g].content \in Contents
      <4>1. db \in Library /\ g \in Stored(db)
        BY DEF TypeOK, OwnGames, mine
      <4>2. db.games[g] \in Game
        BY <4>1, StoredGame
      <4> QED
        BY <4>2 DEF Game
    <3>6. games[k] \in Nat
      <4>1. OfFamily(p, named, k) \in SUBSET named
        BY DEF OfFamily
      <4>2. games[k] = Cardinality(OfFamily(p, named, k))
        OBVIOUS
      <4> HIDE DEF named, games
      <4> QED
        BY <1>f, <4>1, <4>2, FS_Subset, FS_CardinalityType
    <3> QED
      BY <3>2, <3>3, <3>4, <3>5, <3>6
  <2> HIDE DEF games
  <2>3. \A k, l \in DOMAIN games :
          /\ NameOrder[k[1]] \in Int
          /\ NameOrder[k[1]] = NameOrder[l[1]] => k[1] = l[1]
    BY <2>2, StatisticsAssumption
  <2>4. \A k, l \in DOMAIN games : k[1] = l[1] /\ k[2] = l[2] => k = l
    BY <2>2
  <2> QED
    BY <2>1, <2>2, <2>3, <2>4 DEF Ranking
<1>8. AddUp(families, Tally(p, named \ rest))
  <2> DEFINE those == named \ rest
             K == Listed(games)
             key == [g \in those |-> Family(p, g)]
             shares == [k \in K |-> Tally(p, {g \in those : key[g] = k})]
  <2>1. \A k \in K : OfFamily(p, named, k) = {g \in those : key[g] = k}
    BY DEF OfFamily
  <2>2. families = shares
    BY <2>1
  <2>3. \A g \in those : key[g] \in K
    OBVIOUS
  <2>4. DOMAIN key = those /\ those \in SUBSET named
    OBVIOUS
  <2> HIDE DEF those, K, key, named, rest, games
  <2>5. IsFiniteSet(those) /\ IsFiniteSet(K)
    BY <1>f, <1>r, <2>4, ListIsTheFirst, FS_Subset DEF K
  <2>6. AddUp(shares, Tally(p, those))
    BY <2>3, <2>4, <2>5, SharesAddUp
  <2> QED
    BY <2>2, <2>6 DEF those
<1>s. /\ Cardinality(Listed(games)) <= MaxFamilies
      /\ rest # {} => Cardinality(Listed(games)) = MaxFamilies
      /\ \A g \in rest, k \in Listed(games) :
            Cardinality(OfFamily(p, rest, Family(p, g))) <= families[k].games
  <2>1. rest # {} => Listed(games) # DOMAIN games
    OBVIOUS
  <2>2. ASSUME NEW g \in rest, NEW k \in Listed(games)
        PROVE  Cardinality(OfFamily(p, rest, Family(p, g))) <= families[k].games
    <3>1. Family(p, g) \in DOMAIN games \ Listed(games) /\ k \in DOMAIN games
      BY <1>r, ListIsTheFirst
    <3>2. OfFamily(p, rest, Family(p, g)) = OfFamily(p, named, Family(p, g))
      BY DEF OfFamily
    <3>3. games[Family(p, g)] = Cardinality(OfFamily(p, named, Family(p, g)))
      BY <3>1
    <3>4. families[k].games = games[k]
      BY <3>1 DEF Tally
    <3> HIDE DEF games, families, rest
    <3> QED
      BY <1>r, <3>1, <3>2, <3>3, <3>4, ListIsTheFirst
  <2> HIDE DEF games, rest, families
  <2> QED
    BY <1>r, <2>1, <2>2, ListIsTheFirst
<1>l. DOMAIN families = Listed(games)
  OBVIOUS
<1> DEFINE classified == {g \in mine : HasMoves(g)}
<1>9. AddUp(Phases(p).phases, Tally(p, classified))
  <2> DEFINE P == {"opening", "middlegame", "endgame"}
             key == [g \in classified |-> Phase(g)]
             shares == [k \in P |-> Tally(p, {g \in classified : key[g] = k})]
  <2>1. IsFiniteSet(classified)
    BY <1>1, FS_Subset
  <2>2. Phases(p).phases = [x \in P |-> Tally(p, {g \in classified : Phase(g) = x})]
    BY DEF Phases, mine
  <2> HIDE DEF classified
  <2>3. DOMAIN key = classified /\ \A g \in classified : key[g] \in P
    BY PhaseIsNamed
  <2>4. \A k : {g \in classified : key[g] = k} = {g \in classified : Phase(g) = k}
    OBVIOUS
  <2>5. Phases(p).phases = shares
    BY <2>2, <2>4
  <2>6. IsFiniteSet(P)
    BY NamedSharesAreFinite
  <2> HIDE DEF key, P
  <2>7. AddUp(shares, Tally(p, classified))
    BY <2>1, <2>3, <2>6, SharesAddUp
  <2> QED
    BY <2>5, <2>7
<1>10. Phases(p).totalGames - Phases(p).classified = Cardinality({g \in mine : Fact(g).ply < 0})
  <2>1. Phases(p).totalGames = Cardinality(mine) /\ Phases(p).classified = Cardinality(classified)
    BY DEF Phases, mine
  <2>2. {g \in mine : Fact(g).ply < 0} = mine \ classified
    BY <1>2 DEF HasMoves
  <2>3. classified \in SUBSET mine
    OBVIOUS
  <2> HIDE DEF classified
  <2> QED
    BY <1>1, <2>1, <2>2, <2>3, RestIsCounted
<1> HIDE DEF games, families
<1> QED
  BY <1>3, <1>4, <1>5, <1>6, <1>7, <1>8, <1>9, <1>10, <1>s, <1>l DEF mine

------------------------------------------------------------------------------
\* Time controls, terminations, openings and phases add up to the overview in
\* every reachable state, for any profiles, games, outcomes and facts.
THEOREM StatisticsAlwaysAgree == Spec => []StatisticsAgree
<1>1. TypeOK => StatisticsAgree
  BY SharesOfLibrary DEF StatisticsAgree
<1> QED
  BY <1>1, LibraryTyped, PTL
==============================================================================
