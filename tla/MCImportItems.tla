--------------------------- MODULE MCImportItems ---------------------------
(* ImportItems on a small library: two films of one name, episodes and       *)
(* seasons of two series, and persons that share a name.                     *)
EXTENDS ImportItems, TLC

Names == {"Dune", "Dune!", "Dune (1984)", "Duna", "Pilot", "Season 1", "A", "B"}
MCSlug == [n \in Names \cup {None} |-> CASE n \in {"Dune", "Dune!"} -> "dune" [] n = None -> None [] OTHER -> n]
MCShortName == [n \in Names \cup {None} |-> IF n = "Dune (1984)" THEN "Dune" ELSE n]
Stems == {"dune-2021", "dune-1984", "s1"}
MCSearchPrefix == [s \in Stems \cup {None} |-> CASE s \in {"dune-2021", "dune-1984"} -> "dune" [] OTHER -> s]
MCLimit == [kind \in {"provider", "stem", "series", "name"} |-> 2]
MCSeasonTerm == [n \in 0..2 |-> CASE n = 0 -> None [] n = 1 -> "Season 1" [] n = 2 -> "Season 2"]

Blank == [type |-> None, stem |-> None, series |-> {}, season |-> 0, episode |-> 0, name |-> None,
          original |-> None, year |-> 0, providers |-> <<>>, media |-> FALSE]
Film == [type |-> "Movie", name |-> "Dune"] @@ Blank
Episode == [type |-> "Episode", name |-> "Pilot", series |-> {"A"}, season |-> 1, episode |-> 1] @@ Blank
Season == [type |-> "Season", name |-> "Season 1", series |-> {"A"}, season |-> 1] @@ Blank

CONSTANTS e1, e2, i1, i2, i3, p1, p2

\* Entries that share lookups, and the items the server may have.
Films ==
  [entry |-> e1 :> ([stem |-> "dune-2021", year |-> 2021] @@ Film)
          @@ e2 :> ([name |-> "Dune (1984)", year |-> 1984] @@ Film),
   item  |-> i1 :> ([stem |-> "dune-2021", year |-> 2021, name |-> "Dune!"] @@ Film)
          @@ i2 :> ([year |-> 1984, original |-> "Duna"] @@ Film)]
Episodes ==
  [entry |-> e1 :> Episode @@ e2 :> ([name |-> None, season |-> 0, providers |-> <<"tvdb.1">>] @@ Episode),
   item  |-> i1 :> Episode @@ i2 :> ([providers |-> <<"tvdb.1">>, episode |-> 2, name |-> "B"] @@ Episode)]
Seasons ==
  [entry |-> e1 :> ([original |-> "A"] @@ Season) @@ e2 :> ([stem |-> "s1", name |-> None] @@ Season),
   item  |-> i1 :> Season @@ i2 :> ([series |-> {"B"}, stem |-> "s1"] @@ Season)]
Same ==
  [entry |-> e1 :> ([name |-> None, stem |-> "dune-2021", media |-> TRUE] @@ Film)
          @@ e2 :> ([name |-> None, stem |-> "dune-2021", media |-> TRUE] @@ Film),
   item  |-> i1 :> ([stem |-> "dune-2021"] @@ Film)]
Original ==
  [entry |-> e1 :> ([name |-> None, original |-> "Duna"] @@ Film),
   item  |-> i2 :> ([original |-> "Duna"] @@ Film)]

\* More items than an answer has: of one id, of one prefix and name, and of one
\* series.
OneID ==
  LET film == [name |-> None, providers |-> <<"tmdb.1">>] @@ Film
  IN  [entry |-> e1 :> film, item |-> i1 :> film @@ i2 :> film @@ i3 :> film]
ManyFilms ==
  [entry |-> e1 :> ([name |-> None, stem |-> "dune-2021"] @@ Film)
          @@ e2 :> ([stem |-> "dune-2021", year |-> 2021] @@ Film),
   item  |-> i1 :> ([stem |-> "dune-2021", year |-> 2021] @@ Film)
          @@ i2 :> ([stem |-> "dune-1984", year |-> 1984] @@ Film)
          @@ i3 :> ([stem |-> "dune-1984", providers |-> <<"tmdb.1">>] @@ Film)]
ManyEpisodes ==
  [entry |-> e1 :> ([name |-> None] @@ Episode) @@ e2 :> ([name |-> None, episode |-> 2] @@ Episode),
   item  |-> i1 :> Episode @@ i2 :> ([episode |-> 2] @@ Episode) @@ i3 :> ([episode |-> 3] @@ Episode)]

Part(f, S) == [x \in S |-> f[x]]
Import(pair, entries, items, media, dry, avatars, bound) ==
  [entry |-> Part(pair.entry, entries),
   item |-> [i \in items \cap DOMAIN pair.item |-> [id |-> i] @@ pair.item[i]],
   mediaInfo |-> media, dryRun |-> dry, avatars |-> avatars, faults |-> bound]

\* Pairs in dry runs for what they share while they look up; one pair that
\* writes to the same item; single entries through every path; avatars.
MCImports ==
  {Import(pair, {e1, e2}, S, "none", TRUE, {}, 0) : pair \in {Films, Episodes, Seasons}, S \in SUBSET {i1, i2}}
  \cup {Import(pair, {e1, e2}, {i1, i2, i3}, "none", TRUE, {}, 0) : pair \in {ManyFilms, ManyEpisodes}}
  \cup {Import(OneID, {e1}, {i1, i2, i3}, "none", TRUE, {}, 0)}
  \cup {Import(Same, {e1, e2}, {i1}, "http", FALSE, {}, 1)}
  \cup {Import(Same, {e1}, {i1}, m, d, {}, 9) : m \in {"http", "database"}, d \in BOOLEAN}
  \cup {Import(Films, {e1}, {i1}, "http", FALSE, {}, 9), Import(Original, {e1}, {i2}, "none", FALSE, {p1}, 9)}
  \cup {Import(Films, {}, {}, "none", FALSE, {p1, p2}, 9)}

MCAvatar == [p \in {p1, p2} |-> "Chani"]
MCPersonID == "Chani" :> "id"
=============================================================================
