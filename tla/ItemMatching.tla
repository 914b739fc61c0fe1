---------------------------- MODULE ItemMatching ----------------------------
(***************************************************************************)
(* How an import finds the item of the target server that an entry of the  *)
(* package stands for: findMatchWithCache of internal/exporter/service.go  *)
(* and its helpers, as a sequence of lookups and what each answer allows   *)
(* to conclude.                                                            *)
(*                                                                         *)
(* Entries and items are records with the same fields. Names, titles,      *)
(* series and file stems are values that differ when the code's comparison *)
(* (case folded, trimmed) tells them apart; Slug gives the portable form   *)
(* of a name. Numbers taken from a path or a name when the field is 0, and *)
(* the series taken from the directory, are in the fields already. 0 and   *)
(* None are absent values.                                                 *)
(***************************************************************************)
EXTENDS Naturals, Sequences, FiniteSets

CONSTANTS
  None,
  Slug,        \* [name -> portable name, or None]: portableMatchName
  ShortName,   \* [name -> name without the year behind it]
  SeasonTerm,  \* [number -> "Season 1"]
  SearchPrefix,  \* [file stem -> its first 30 characters]
  Limit        \* [kind of request -> the most items an answer has]: 10 by a
               \* provider id; for searches 50 by file stem, 300 by series or
               \* season and 20 by name

ASSUME LimitAssumption == Limit \in [{"provider", "stem", "series", "name"} -> Nat \ {0}]

SameType(type, item) == type = None \/ item.type \in {None, type}

MediaStemMatches(e, items) == {t \in items : SameType(e.type, t) /\ t.stem = e.stem}

\* Without series the fields are compared as they are, which are absent then.
SameSeries(e, t) == IF e.series = {} THEN t.series = {} ELSE e.series \cap t.series # {}

EpisodeMatches(e, items) ==
  {t \in items : /\ e.episode # 0
                 /\ t.episode = e.episode
                 /\ SameSeries(e, t)
                 /\ e.season = 0 \/ t.season = 0 \/ t.season = e.season}

SeasonMatches(e, items) ==
  {t \in items : /\ e.series # {} \/ e.season # 0
                 /\ t.type \in {None, "Season"}
                 /\ e.season # 0 => t.season \in {0, e.season}
                 /\ e.series # {} => e.series \cap t.series # {}}

ExactNameMatches(name, type, items) ==
  LET typed    == {t \in items : SameType(type, t)}
      strict   == {t \in typed : t.name = name}
      portable == {t \in typed : Slug[name] # None /\ Slug[t.name] = Slug[name]}
  IN  IF strict # {} THEN strict ELSE portable

OriginalTitleMatches(title, type, items) ==
  {t \in items : SameType(type, t) /\ title \in {t.name, t.original}}

\* Mutant: the year only decides between several candidates.
ChooseUniqueMatchAnyYear(matches, year) ==
  IF Cardinality(matches) = 1 THEN matches ELSE {t \in matches : t.year = year}

\* The candidates that remain: a single one is the match. A known year admits
\* only candidates of that year, even if there is just one of another year.
ChooseUniqueMatch(matches, year) ==
  IF year # 0 THEN {t \in matches : t.year = year} ELSE matches

Single(matches) == Cardinality(matches) = 1

-----------------------------------------------------------------------------
(* The lookups of an entry in their order. The key is what the cache takes   *)
(* as key: entries with the same term, type and limit share the answer. The  *)
(* limit is named, the numbers being different. One numbered term stands for *)
(* "Season 1" and its Chinese form.                                          *)

Search(kind, term, type, limit) == [kind |-> kind, key |-> <<term, type, limit>>]
LimitOf(key) == Limit[IF Len(key) = 1 THEN "provider" ELSE key[3]]
When(condition, strategy) == IF condition THEN <<strategy>> ELSE <<>>

Strategies(e) ==
  LET short == ShortName[e.name]
  IN  When(e.stem # None, Search("stem", SearchPrefix[e.stem], e.type, "stem"))
   \o [i \in 1..Len(e.providers) |-> [kind |-> "provider", key |-> <<e.providers[i]>>]]
   \o When(e.type = "Episode" /\ e.series # {},
           Search("episode", CHOOSE s \in e.series : TRUE, "Episode", "series"))
   \o When(e.type = "Season" /\ e.name # None, Search("season", e.name, "Season", "series"))
   \o When(e.type = "Season" /\ e.season # 0, Search("season", SeasonTerm[e.season], "Season", "series"))
   \o When(e.name # None, Search("name", e.name, e.type, "name"))
   \o When(short \notin {None, e.name}, Search("short", short, e.type, "name"))
   \o When(e.original \notin {None, e.name}, Search("original", e.original, e.type, "name"))

\* What a strategy accepts of the answer: {t} if t is the match.
Accepted(kind, e, items) ==
  CASE kind = "stem"     -> IF e.type = "Season" THEN SeasonMatches(e, items) ELSE MediaStemMatches(e, items)
    [] kind = "provider" -> items
    [] kind = "episode"  -> EpisodeMatches(e, items)
    [] kind = "season"   -> SeasonMatches(e, items)
    [] kind = "name"     -> IF e.type = "Episode" /\ Single(EpisodeMatches(e, items))
                            THEN EpisodeMatches(e, items)
                            ELSE ChooseUniqueMatch(ExactNameMatches(e.name, e.type, items), e.year)
    [] kind = "short"    -> ChooseUniqueMatch(ExactNameMatches(ShortName[e.name], e.type, items), e.year)
    [] kind = "original" -> ChooseUniqueMatch(OriginalTitleMatches(e.original, e.type, items), e.year)

\* An answer without a match makes the entry ambiguous if several candidates
\* remain, and for names if the server found anything.
Ambiguous(kind, e, items) ==
  IF kind \in {"name", "short", "original"}
  THEN items # {}
  ELSE Cardinality(Accepted(kind, e, items)) > 1
=============================================================================
