-------------------------- MODULE ImportItemsProofs --------------------------
(***************************************************************************)
(* Proofs about ImportItems, for every package, every library of the       *)
(* server, every number of workers and any requests that fail: a target    *)
(* agrees with its entry, "unmatched" is said after every lookup was       *)
(* answered, the report is what the server took, a stopped import and a    *)
(* dry run write nothing, the shared cache still implements the memo, and  *)
(* no task is stuck or runs in a circle.                                   *)
(***************************************************************************)
EXTENDS ImportItems, SequenceTheorems, FiniteSetTheorems, TLAPS

CP == INSTANCE LookupCacheProofs WITH
  Callers <- Tasks, Answers <- SUBSET (Items \cup Persons)

Entering == {"match", "lookup"}
Writing == Levels \cup {"verify", "image"}

\* An answered lookup of an entry from which nothing follows: no single item is
\* accepted and none is in doubt.
Conclusive(e, n) ==
  LET s == Lookups(e, import)[n]
      records == {import.item[i] : i \in answer[s.key]}
  IN  /\ answer[s.key] # NoAnswer
      /\ ~Single(Accepted(s.kind, import.entry[e], records))
      /\ ~Ambiguous(s.kind, import.entry[e], records)

\* "Unmatched" is said of an entry only after the server has answered every
\* lookup of it, and no answer left a single item, nor several.
UnmatchedIsConclusive ==
  \A e \in Entries : task[e].status = "unmatched" =>
    \A n \in DOMAIN Lookups(e, import) : Conclusive(e, n)

\* What an entry and an item may have in common (itemMatches): the id at one
\* provider; or, being of one type, a title or the file name (of no use for a
\* season). "Unmatched" says that no item of the server has an id or a title in
\* common with the entry, since of these any answer leaves a single item or a
\* doubt, limits or not; and none the file name, unless there are more files of
\* its prefix than an answer shows, and this one was left out.
SharesIdentity(e, i) ==
  \/ \E n \in DOMAIN e.providers, m \in DOMAIN i.providers : e.providers[n] = i.providers[m]
  \/ SameType(e.type, i) /\ ({e.name, e.original} \ {None}) \cap {i.name, i.original} # {}
SharesFile(e, i) == SameType(e.type, i) /\ e.type # "Season" /\ e.stem # None /\ e.stem = i.stem
UnmatchedIsNowhere ==
  \A e \in Entries : task[e].status = "unmatched" =>
    \A i \in DOMAIN import.item :
      /\ ~SharesIdentity(import.entry[e], import.item[i])
      /\ SharesFile(import.entry[e], import.item[i]) => LeftOut(e, i, "stem")

(***************************************************************************)
(* The inductive invariant. The parts that speak of one task are operators *)
(* of the task and its state r, so that a step has to show them for the    *)
(* new state of its own task only.                                         *)
(***************************************************************************)
\* Only tasks of the import have work; who looks up asks for the key of its
\* step; an avatar has no metadata; who is past the lookups knows its item.
Placed(t, r) ==
  r.pc # "end" =>
    /\ t \in TasksOf(import)
    /\ r.pc = "lookup" => /\ r.step \in DOMAIN Lookups(t, import)
                          /\ asking[t] = Lookups(t, import)[r.step].key
    /\ t \in Avatars => r.pc \in Entering \cup {"image"}
    /\ t \in Entries /\ r.pc \notin Entering => r.target \in DOMAIN import.item

\* In a dry run no task gets to a write.
Dry(t, r) ==
  import.dryRun => /\ r.pc \notin Writing
                   /\ t \in Avatars => r.pc \in {"match", "end"}

Agreed(t, r) ==
  t \in Entries /\ r.target # None => Agree(import.entry[t], import.item[r.target])

\* Metadata counts as written from its answer on.
Taken(t, r) ==
  t \in Entries /\ r.pc \in {"verify", "image"} /\ ~r.failed => accepted[t] \cap Levels # {}

Reported(t, r) ==
  /\ r.status = "updated" =>
       IF t \in Entries THEN accepted[t] \cap Levels # {} ELSE "image" \in accepted[t]
  /\ r.media = "updated" => t \in persisted
  /\ r.image = "pushed" => "image" \in accepted[t]

\* Without an error and a doubt the strategies tried so far were conclusive.
Asked(t, r) ==
  /\ t \in Entries /\ r.pc \in Entering /\ r.error = None /\ ~r.ambiguous =>
       \A n \in DOMAIN Lookups(t, import) : n < r.step => Conclusive(t, n)
  /\ r.status # "none" => r.pc = "end"
  /\ t \in Entries /\ r.status = "unmatched" =>
       t \in TasksOf(import) /\ \A n \in DOMAIN Lookups(t, import) : Conclusive(t, n)

TaskInv(t, r) ==
  Placed(t, r) /\ Dry(t, r) /\ Agreed(t, r) /\ Taken(t, r) /\ Reported(t, r) /\ Asked(t, r)

\* What the cache holds is one of the server's possible answers, and what it
\* hands out is what it holds.
AnswerInv ==
  /\ \A k \in Keys : answer[k] \in {NoAnswer} \cup Found(k)
  /\ \A t \in Tasks : \/ got[t] \in {NoAnswer, Failed, GaveUp}
                      \/ asking[t] \in Keys /\ got[t] = answer[asking[t]]

\* What the server has of an entry's media information was once persisted.
PersistedInv == \A i \in Items : mediaOf[i] \in Entries => mediaOf[i] \in persisted

IInv ==
  /\ TypeOK /\ CP!IInv /\ AnswerInv /\ PersistedInv
  /\ \A t \in Tasks : TaskInv(t, task[t])

-----------------------------------------------------------------------------
(* The constants *)

LEMMA Sentinels == CP!SentinelsAssumption
BY CacheAssumption DEF CP!SentinelsAssumption, Cache!SentinelsAssumption

LEMMA TaskKinds ==
  /\ Entries \cup Avatars = Tasks
  /\ \A t \in Tasks : t \in Avatars <=> t \notin Entries
BY ImportAssumption DEF Tasks

\* A lookup of the import is one that the cache may be asked for.
LEMMA LookupKeys ==
  ASSUME import \in Imports, NEW t \in TasksOf(import), NEW n \in DOMAIN Lookups(t, import)
  PROVE  Lookups(t, import)[n].key \in Keys
BY DEF Keys

\* What the server finds is an answer of the cache.
LEMMA FoundType ==
  ASSUME import \in Imports, NEW key, NEW found \in Found(key)
  PROVE  /\ found \in SUBSET (Items \cup Persons)
         /\ found \notin {NoAnswer, Failed, GaveUp}
<1>1. found \in SUBSET (Items \cup Persons)
  <2>1. CASE Len(key) = 2
    BY <2>1 DEF Found, Persons
  <2>2. CASE Len(key) # 2
    <3>1. found \subseteq Hits(key)
      BY <2>2 DEF Found, Shown
    <3> QED BY <3>1 DEF Hits, Items
  <2> QED BY <2>1, <2>2
<1> QED BY <1>1, Sentinels DEF CP!SentinelsAssumption

-----------------------------------------------------------------------------
(* The strategies of an entry *)

\* Each strategy that is tried has what it needs of the entry.
Possible(e) ==
  {Search("stem", SearchPrefix[e.stem], e.type, "stem") : x \in {y \in {1} : e.stem # None}}
    \cup {[kind |-> "provider", key |-> <<e.providers[n]>>] : n \in DOMAIN e.providers}
    \cup {Search("episode", CHOOSE s \in e.series : TRUE, "Episode", "series") :
            x \in {y \in {1} : e.type = "Episode" /\ e.series # {}}}
    \cup {Search("season", name, "Season", "series") :
            name \in {n \in {e.name, SeasonTerm[e.season]} : e.type = "Season"}}
    \cup {Search("name", e.name, e.type, "name") : x \in {y \in {1} : e.name # None}}
    \cup {Search("short", ShortName[e.name], e.type, "name") :
            x \in {y \in {1} : ShortName[e.name] # None}}
    \cup {Search("original", e.original, e.type, "name") : x \in {y \in {1} : e.original # None}}

LEMMA WhenType ==
  ASSUME NEW S, NEW condition, NEW x, condition => x \in S
  PROVE  When(condition, x) \in Seq(S)
<1>1. CASE condition
  BY <1>1 DEF When
<1>2. CASE ~condition
  BY <1>2 DEF When
<1> QED BY <1>1, <1>2

Has(s, x) == \E n \in DOMAIN s : s[n] = x

LEMMA WhenHas == ASSUME NEW x PROVE Has(When(TRUE, x), x)
BY DEF When, Has

LEMMA ConcatHas ==
  ASSUME NEW S, NEW s \in Seq(S), NEW t \in Seq(S), NEW x, Has(s, x) \/ Has(t, x)
  PROVE  Has(s \o t, x)
<1>1. /\ DOMAIN s = 1..Len(s) /\ Len(s) \in Nat /\ DOMAIN t = 1..Len(t) /\ Len(t) \in Nat
  BY LenProperties
<1>2. /\ s \o t \in Seq(S) /\ Len(s \o t) = Len(s) + Len(t)
      /\ \A i \in 1..Len(s) + Len(t) : (s \o t)[i] = IF i <= Len(s) THEN s[i] ELSE t[i - Len(s)]
  BY ConcatProperties
<1>3. DOMAIN (s \o t) = 1..Len(s) + Len(t)
  BY <1>2, LenProperties
<1>4. CASE Has(s, x)
  <2>1. PICK n \in 1..Len(s) : s[n] = x
    BY <1>1, <1>4 DEF Has
  <2>2. n \in 1..Len(s) + Len(t) /\ n <= Len(s)
    BY <1>1
  <2> QED BY <1>2, <1>3, <2>1, <2>2 DEF Has
<1>5. CASE Has(t, x)
  <2>1. PICK n \in 1..Len(t) : t[n] = x
    BY <1>1, <1>5 DEF Has
  <2>2. /\ Len(s) + n \in 1..Len(s) + Len(t) /\ ~(Len(s) + n <= Len(s))
        /\ Len(s) + n - Len(s) = n
    BY <1>1
  <2>3. (s \o t)[Len(s) + n] = x
    BY <1>2, <2>1, <2>2
  <2> QED BY <1>3, <2>2, <2>3 DEF Has
<1> QED BY <1>4, <1>5

LEMMA StrategiesType ==
  ASSUME NEW e, IsSequence(e.providers)
  PROVE  /\ Strategies(e) \in Seq(Possible(e))
         /\ e.stem # None => Has(Strategies(e), Search("stem", SearchPrefix[e.stem], e.type, "stem"))
         /\ \A i \in DOMAIN e.providers :
              Has(Strategies(e), [kind |-> "provider", key |-> <<e.providers[i]>>])
         /\ e.name # None => Has(Strategies(e), Search("name", e.name, e.type, "name"))
         /\ e.original \notin {None, e.name} =>
              Has(Strategies(e), Search("original", e.original, e.type, "name"))
<1> DEFINE S == Possible(e)
           short == ShortName[e.name]
           p1 == When(e.stem # None, Search("stem", SearchPrefix[e.stem], e.type, "stem"))
           p2 == [i \in 1..Len(e.providers) |-> [kind |-> "provider", key |-> <<e.providers[i]>>]]
           p3 == When(e.type = "Episode" /\ e.series # {},
                      Search("episode", CHOOSE s \in e.series : TRUE, "Episode", "series"))
           p4 == When(e.type = "Season" /\ e.name # None, Search("season", e.name, "Season", "series"))
           p5 == When(e.type = "Season" /\ e.season # 0,
                      Search("season", SeasonTerm[e.season], "Season", "series"))
           p6 == When(e.name # None, Search("name", e.name, e.type, "name"))
           p7 == When(short \notin {None, e.name}, Search("short", short, e.type, "name"))
           p8 == When(e.original \notin {None, e.name}, Search("original", e.original, e.type, "name"))
<1>1. p1 \in Seq(S)
  <2>1. e.stem # None => Search("stem", SearchPrefix[e.stem], e.type, "stem") \in S
    BY DEF Possible
  <2> QED BY <2>1, WhenType
<1>2. p2 \in Seq(S)
  <2>1. Len(e.providers) \in Nat /\ DOMAIN e.providers = 1..Len(e.providers)
    BY LenProperties DEF IsSequence
  <2>2. \A i \in 1..Len(e.providers) : [kind |-> "provider", key |-> <<e.providers[i]>>] \in S
    BY <2>1 DEF Possible
  <2> HIDE DEF S
  <2> QED BY <2>1, <2>2
<1>3. p3 \in Seq(S)
  <2>1. e.type = "Episode" /\ e.series # {} =>
          Search("episode", CHOOSE s \in e.series : TRUE, "Episode", "series") \in S
    BY DEF Possible
  <2> QED BY <2>1, WhenType
<1>4. p4 \in Seq(S)
  <2>1. e.type = "Season" /\ e.name # None => Search("season", e.name, "Season", "series") \in S
    BY DEF Possible
  <2> QED BY <2>1, WhenType
<1>5. p5 \in Seq(S)
  <2>1. e.type = "Season" /\ e.season # 0 => Search("season", SeasonTerm[e.season], "Season", "series") \in S
    BY DEF Possible
  <2> QED BY <2>1, WhenType
<1>6. p6 \in Seq(S)
  <2>1. e.name # None => Search("name", e.name, e.type, "name") \in S
    BY DEF Possible
  <2> QED BY <2>1, WhenType
<1>7. p7 \in Seq(S)
  <2>1. short \notin {None, e.name} => Search("short", short, e.type, "name") \in S
    BY DEF Possible
  <2> QED BY <2>1, WhenType
<1>8. p8 \in Seq(S)
  <2>1. e.original \notin {None, e.name} => Search("original", e.original, e.type, "name") \in S
    BY DEF Possible
  <2> QED BY <2>1, WhenType
<1>9. Strategies(e) = p1 \o p2 \o p3 \o p4 \o p5 \o p6 \o p7 \o p8
  BY DEF Strategies
<1>10. /\ e.stem # None => Has(p1, Search("stem", SearchPrefix[e.stem], e.type, "stem"))
       /\ e.name # None => Has(p6, Search("name", e.name, e.type, "name"))
       /\ e.original \notin {None, e.name} => Has(p8, Search("original", e.original, e.type, "name"))
  BY WhenHas
<1>11. \A i \in DOMAIN e.providers : Has(p2, [kind |-> "provider", key |-> <<e.providers[i]>>])
  <2>1. DOMAIN e.providers = 1..Len(e.providers)
    BY LenProperties DEF IsSequence
  <2> QED BY <2>1 DEF Has
<1> DEFINE q2 == p1 \o p2
           q3 == q2 \o p3
           q4 == q3 \o p4
           q5 == q4 \o p5
           q6 == q5 \o p6
           q7 == q6 \o p7
           q8 == q7 \o p8
<1>12. q8 = Strategies(e)
  BY <1>9
<1> HIDE DEF S, p1, p2, p3, p4, p5, p6, p7, p8
<1>13. /\ q2 \in Seq(S) /\ q3 \in Seq(S) /\ q4 \in Seq(S) /\ q5 \in Seq(S)
       /\ q6 \in Seq(S) /\ q7 \in Seq(S) /\ q8 \in Seq(S)
  BY <1>1, <1>2, <1>3, <1>4, <1>5, <1>6, <1>7, <1>8, ConcatProperties
<1>14. ASSUME NEW x
       PROVE  /\ Has(p1, x) \/ Has(p2, x) => Has(q2, x)
              /\ Has(q2, x) => Has(q3, x)
              /\ Has(q3, x) => Has(q4, x)
              /\ Has(q4, x) => Has(q5, x)
              /\ Has(q5, x) \/ Has(p6, x) => Has(q6, x)
              /\ Has(q6, x) => Has(q7, x)
              /\ Has(q7, x) \/ Has(p8, x) => Has(q8, x)
  BY <1>1, <1>2, <1>3, <1>4, <1>5, <1>6, <1>7, <1>8, <1>13, ConcatHas
<1> HIDE DEF q2, q3, q4, q5, q6, q7, q8
<1> QED BY <1>10, <1>11, <1>12, <1>13, <1>14 DEF S

-----------------------------------------------------------------------------
(* What a match says *)

\* A strategy of an entry looks for items, not for persons.
LEMMA FoundItems ==
  ASSUME NEW e, NEW s \in Possible(e), NEW found \in Found(s.key), NEW i \in found
  PROVE  i \in DOMAIN import.item /\ Finds(s.key, import.item[i])
<1>1. Len(s.key) # 2
  BY DEF Possible, Search
<1> QED BY <1>1 DEF Found, Shown, Hits

\* Narrowing candidates down keeps those of the right year.
LEMMA ChosenOfYear ==
  ASSUME NEW matches, NEW year, NEW r \in ChooseUniqueMatch(matches, year)
  PROVE  r \in matches /\ year \in {0, r.year}
BY DEF ChooseUniqueMatch

LEMMA ExactName ==
  ASSUME NEW name, name # None, NEW type, NEW items, NEW r \in ExactNameMatches(name, type, items)
  PROVE  r \in items /\ SameType(type, r) /\ SameName(name, r.name)
BY DEF ExactNameMatches, SameName

\* The season strategies, and the stem of a season.
LEMMA SeasonAgrees ==
  ASSUME NEW e, e.type = "Season", NEW items, NEW r \in SeasonMatches(e, items)
  PROVE  r \in items /\ Agree(e, r)
BY DEF SeasonMatches, Agree, SameType

\* An item that a strategy accepts agrees with the entry, whatever the server
\* found.
LEMMA MatchAgrees ==
  ASSUME NEW e, NEW s \in Possible(e), NEW found \in Found(s.key),
         NEW r \in Accepted(s.kind, e, {import.item[i] : i \in found})
  PROVE  r \in {import.item[i] : i \in found} /\ Agree(e, r)
<1> DEFINE items == {import.item[i] : i \in found}
<1>0. \A x \in items : Finds(s.key, x)
  BY FoundItems
<1> SUFFICES r \in items /\ Agree(e, r)
  OBVIOUS
<1>a. r \in Accepted(s.kind, e, items)
  OBVIOUS
<1> HIDE DEF items
<1>1. CASE s.kind = "stem"
  <2>1. e.stem # None
    BY <1>1 DEF Possible, Search
  <2>2. CASE e.type = "Season"
    BY <1>a, <1>1, <2>2, SeasonAgrees DEF Accepted
  <2>3. CASE e.type # "Season"
    BY <1>a, <1>1, <2>1, <2>3 DEF Accepted, MediaStemMatches, Agree
  <2> QED BY <2>2, <2>3
<1>2. CASE s.kind = "provider"
  <2>1. PICK n \in DOMAIN e.providers : s.key = <<e.providers[n]>>
    BY <1>2 DEF Possible, Search
  <2>2. r \in items
    BY <1>a, <1>2 DEF Accepted
  <2>3. \E m \in DOMAIN r.providers : e.providers[n] = r.providers[m]
    BY <1>0, <2>1, <2>2 DEF Finds
  <2> QED BY <2>2, <2>3 DEF Agree
<1>3. CASE s.kind = "episode"
  <2>1. e.type = "Episode" /\ e.series # {} /\ Len(s.key) = 3 /\ s.key[2] = "Episode"
    BY <1>3 DEF Possible, Search
  <2>2. r \in EpisodeMatches(e, items)
    BY <1>a, <1>3 DEF Accepted
  <2>3. r \in items /\ SameType(e.type, r)
    BY <1>0, <2>1, <2>2 DEF EpisodeMatches, Finds
  <2> QED BY <2>1, <2>2, <2>3 DEF EpisodeMatches, SameSeries, Agree
<1>4. CASE s.kind = "season"
  <2>1. e.type = "Season"
    BY <1>4 DEF Possible, Search
  <2> QED BY <1>a, <1>4, <2>1, SeasonAgrees DEF Accepted
<1>5. CASE s.kind = "name"
  <2>1. e.name # None /\ Len(s.key) = 3 /\ s.key[2] = e.type
    BY <1>5 DEF Possible, Search
  <2>2. CASE r \in EpisodeMatches(e, items)
    <3>1. r \in items /\ SameType(e.type, r)
      BY <1>0, <2>1, <2>2 DEF EpisodeMatches, Finds
    <3> QED BY <2>2, <3>1 DEF EpisodeMatches, SameSeries, Agree
  <2>3. CASE r \in ChooseUniqueMatch(ExactNameMatches(e.name, e.type, items), e.year)
    <3>1. r \in items /\ SameType(e.type, r) /\ SameName(e.name, r.name) /\ e.year \in {0, r.year}
      BY <2>1, <2>3, ChosenOfYear, ExactName
    <3> QED BY <3>1 DEF Agree
  <2> QED BY <1>a, <1>5, <2>2, <2>3 DEF Accepted
<1>6. CASE s.kind = "short"
  <2>1. ShortName[e.name] # None
    BY <1>6 DEF Possible, Search
  <2>2. r \in ChooseUniqueMatch(ExactNameMatches(ShortName[e.name], e.type, items), e.year)
    BY <1>a, <1>6 DEF Accepted
  <2>3. /\ r \in items /\ SameType(e.type, r) /\ SameName(ShortName[e.name], r.name)
        /\ e.year \in {0, r.year}
    BY <2>1, <2>2, ChosenOfYear, ExactName
  <2> QED BY <2>3 DEF Agree
<1>7. CASE s.kind = "original"
  <2>1. e.original # None
    BY <1>7 DEF Possible, Search
  <2>2. r \in ChooseUniqueMatch(OriginalTitleMatches(e.original, e.type, items), e.year)
    BY <1>a, <1>7 DEF Accepted
  <2>3. r \in OriginalTitleMatches(e.original, e.type, items) /\ e.year \in {0, r.year}
    BY <2>2, ChosenOfYear
  <2> QED BY <2>1, <2>3 DEF OriginalTitleMatches, Agree
<1>8. s.kind \in {"stem", "provider", "episode", "season", "name", "short", "original"}
  BY DEF Possible, Search
<1> QED BY <1>1, <1>2, <1>3, <1>4, <1>5, <1>6, <1>7, <1>8

-----------------------------------------------------------------------------
(* The cache *)

\* What the tasks do to the cache, a fetch that brings what the server finds.
CacheMove ==
  \/ \E t \in Tasks : \/ \E k \in Keys : CP!Lookup(t, k)
                      \/ \E found \in Found(asking[t]) : CP!FetchSucceeds(t, found)
                      \/ CP!FetchFails(t)
                      \/ CP!WaiterGivesUp(t) \/ CP!Return(t)
  \/ UNCHANGED cache

\* Each move of the cache is a step of LookupCache, with its invariant.
LEMMA CacheStep ==
  ASSUME import \in Imports, CP!IInv, CacheMove
  PROVE  CP!IInv' /\ [CP!CacheNext]_(CP!cacheVars)
<1>1. [CP!CacheNext]_(CP!cacheVars)
  <2>1. CASE UNCHANGED cache
    BY <2>1 DEF cache, CP!cacheVars
  <2>2. ASSUME NEW t \in Tasks, NEW found \in Found(asking[t]), CP!FetchSucceeds(t, found)
        PROVE  CP!CacheNext
    BY <2>2, FoundType DEF CP!CacheNext
  <2>3. ASSUME NEW t \in Tasks, \/ \E k \in Keys : CP!Lookup(t, k)
                                \/ CP!FetchFails(t) \/ CP!WaiterGivesUp(t) \/ CP!Return(t)
        PROVE  CP!CacheNext
    BY <2>3 DEF CP!CacheNext
  <2> QED BY <2>1, <2>2, <2>3 DEF CacheMove
<1> QED BY <1>1, Sentinels, CP!NextInv

\* An answer stays, is one of the server's, and is what a lookup returns.
LEMMA AnswerStep ==
  ASSUME import \in Imports, import' = import, CP!IInv, AnswerInv, CacheMove
  PROVE  /\ AnswerInv'
         /\ \A k \in Keys : answer[k] # NoAnswer => answer'[k] = answer[k]
<1> USE DEF CP!IInv, CP!CacheTypeOK
<1>0. \A k : Found(k)' = Found(k)
  BY DEF Found, Shown, Cut, Hits
<1>1. CASE UNCHANGED cache
  BY <1>0, <1>1 DEF AnswerInv, cache
<1>2. ASSUME NEW t \in Tasks, NEW k \in Keys, CP!Lookup(t, k)
      PROVE  AnswerInv' /\ answer' = answer
  <2>1. /\ answer' = answer /\ asking' = [asking EXCEPT ![t] = k]
        /\ got' = [got EXCEPT ![t] = answer[k]]
    BY <1>2 DEF CP!Lookup
  <2> QED BY <1>0, <2>1 DEF AnswerInv
<1>3. ASSUME NEW t \in Tasks, NEW k \in Keys, NEW a, call[k] = t, CP!Close(k, a),
             asking' = asking,
             \/ a = Failed /\ answer' = answer
             \/ a \in Found(k) /\ answer' = [answer EXCEPT ![k] = a]
      PROVE  AnswerInv' /\ \A j \in Keys : answer[j] # NoAnswer => answer'[j] = answer[j]
  <2>1. answer[k] = NoAnswer
    BY <1>3, Sentinels DEF CP!AnswersStay, CP!SentinelsAssumption
  <2>2. \A u \in Tasks : got'[u] = IF asking[u] = k /\ got[u] = NoAnswer THEN a ELSE got[u]
    BY <1>3 DEF CP!Close, CP!Waiters
  <2>3. CASE a = Failed /\ answer' = answer
    BY <1>0, <1>3, <2>2, <2>3 DEF AnswerInv
  <2>4. CASE a \in Found(k) /\ answer' = [answer EXCEPT ![k] = a]
    <3>1. answer'[k] = a /\ \A j \in Keys \ {k} : answer'[j] = answer[j]
      BY <2>4
    <3>2. \A j \in Keys : answer'[j] \in {NoAnswer} \cup Found(j)
      BY <2>4, <3>1 DEF AnswerInv
    <3>3. \A u \in Tasks : \/ got'[u] \in {NoAnswer, Failed, GaveUp}
                           \/ asking[u] \in Keys /\ got'[u] = answer'[asking[u]]
      <4> TAKE u \in Tasks
      <4>1. CASE asking[u] = k /\ got[u] = NoAnswer
        BY <2>2, <2>4, <3>1, <4>1
      <4>2. CASE ~(asking[u] = k /\ got[u] = NoAnswer)
        <5>1. got'[u] = got[u]
          BY <2>2, <4>2
        <5>2. asking[u] = k => got[u] \in {NoAnswer, Failed, GaveUp}
          BY <2>1 DEF AnswerInv
        <5> QED BY <5>1, <5>2, <3>1 DEF AnswerInv
      <4> QED BY <4>1, <4>2
    <3> QED BY <1>0, <1>3, <2>1, <3>1, <3>2, <3>3 DEF AnswerInv
  <2> QED BY <1>3, <2>3, <2>4
<1>4. ASSUME NEW t \in Tasks, NEW found \in Found(asking[t]), CP!FetchSucceeds(t, found)
      PROVE  AnswerInv' /\ \A j \in Keys : answer[j] # NoAnswer => answer'[j] = answer[j]
  <2>1. PICK k \in Keys : /\ call[k] = t /\ CP!Close(k, found)
                          /\ answer' = [answer EXCEPT ![k] = found]
    BY <1>4 DEF CP!FetchSucceeds
  <2>2. asking[t] = k
    BY <2>1, Sentinels DEF CP!FetchersWait, CP!SentinelsAssumption
  <2>3. asking' = asking
    BY <1>4 DEF CP!FetchSucceeds
  <2> QED BY <1>3, <2>1, <2>2, <2>3
<1>5. ASSUME NEW t \in Tasks, CP!FetchFails(t)
      PROVE  AnswerInv' /\ \A j \in Keys : answer[j] # NoAnswer => answer'[j] = answer[j]
  <2>1. PICK k \in Keys : call[k] = t /\ CP!Close(k, Failed)
    BY <1>5 DEF CP!FetchFails
  <2>2. asking' = asking /\ answer' = answer
    BY <1>5 DEF CP!FetchFails
  <2> QED BY <1>3, <2>1, <2>2
<1>6. ASSUME NEW t \in Tasks, CP!WaiterGivesUp(t) \/ CP!Return(t)
      PROVE  AnswerInv' /\ answer' = answer
  <2>1. /\ answer' = answer
        /\ \A u \in Tasks \ {t} : asking'[u] = asking[u] /\ got'[u] = got[u]
        /\ got'[t] \in {NoAnswer, GaveUp}
    BY <1>6 DEF CP!WaiterGivesUp, CP!Return
  <2> QED BY <1>0, <2>1 DEF AnswerInv
<1> QED BY <1>1, <1>2, <1>4, <1>5, <1>6 DEF CacheMove, cache

-----------------------------------------------------------------------------
(* The states of a task *)

Medias == {"none", "planned", "skipped", "updated", "failed"}

\* What no request changes, and what only the last step sets.
Same(x, r) == x.target = r.target /\ x.step = r.step

LEMMA GotoState ==
  ASSUME NEW r \in TaskState, NEW pc \in {"info", "detail", "verify", "image"} \cup Levels
  PROVE  /\ Goto(r, pc) \in TaskState /\ Goto(r, pc).pc = pc /\ Same(Goto(r, pc), r)
         /\ Goto(r, pc).status = r.status /\ Goto(r, pc).failed = r.failed
         /\ Goto(r, pc).media = r.media /\ Goto(r, pc).image = r.image
         /\ Goto(r, pc).included = r.included
<1>1. /\ 1 \in 1..Attempts
      /\ pc \in {"match", "lookup", "info", "detail", "verify", "image", "end"} \cup Levels
  BY DEF Attempts
<1>2. Goto(r, pc) = [r EXCEPT !.pc = pc, !.attempt = 1]
  BY DEF Goto
<1> QED BY <1>1, <1>2 DEF TaskState, Same

LEMMA EndState ==
  ASSUME NEW r \in TaskState,
         NEW status \in {"failed", "ambiguous", "unmatched", "matched", "updated"}
  PROVE  /\ End(r, status) \in TaskState /\ End(r, status).pc = "end"
         /\ End(r, status).status = status /\ Same(End(r, status), r)
         /\ End(r, status).failed = r.failed
         /\ End(r, status).media = r.media /\ End(r, status).image = r.image
BY DEF End, TaskState, Same

LEMMA MediaState ==
  ASSUME NEW r \in TaskState, NEW media \in Medias
  PROVE  LET x == [r EXCEPT !.media = media]
         IN  /\ x \in TaskState /\ x.media = media /\ x.pc = r.pc /\ x.status = r.status
             /\ Same(x, r) /\ x.failed = r.failed /\ x.image = r.image /\ x.included = r.included
BY DEF TaskState, Same, Medias

\* A dry run ends where a write would follow.
LEMMA ToWriteState ==
  ASSUME TypeOK, NEW t \in Tasks, NEW media \in Medias
  PROVE  LET x == ToWrite(t, media)
             r == task[t]
         IN  /\ x \in TaskState /\ x.media = media /\ Same(x, r)
             /\ x.failed = r.failed /\ x.image = r.image
             /\ \/ import.dryRun /\ x.pc = "end" /\ x.status = "matched"
                \/ ~import.dryRun /\ x.pc = "full" /\ x.status = r.status
<1> DEFINE r == task[t]
           y == IF import.dryRun THEN End(r, "matched") ELSE Goto(r, "full")
<1>0. r \in TaskState
  BY DEF TypeOK
<1>1. ToWrite(t, media) = [y EXCEPT !.media = media]
  BY DEF ToWrite
<1>2. /\ y \in TaskState /\ Same(y, r) /\ y.failed = r.failed /\ y.image = r.image
      /\ \/ import.dryRun /\ y.pc = "end" /\ y.status = "matched"
         \/ ~import.dryRun /\ y.pc = "full" /\ y.status = r.status
  <2>1. CASE import.dryRun
    BY <1>0, <2>1, EndState
  <2>2. CASE ~import.dryRun
    BY <1>0, <2>2, GotoState DEF Levels
  <2> QED BY <2>1, <2>2
<1> HIDE DEF y
<1>3. LET x == [y EXCEPT !.media = media]
      IN  /\ x \in TaskState /\ x.media = media /\ x.pc = y.pc /\ x.status = y.status
          /\ Same(x, y) /\ x.failed = y.failed /\ x.image = y.image
  BY <1>2, MediaState
<1> QED BY <1>1, <1>2, <1>3 DEF Same

LEMMA ToImageState ==
  ASSUME TypeOK, NEW t \in Tasks, NEW media \in Medias
  PROVE  LET x == ToImage(t, media)
             r == task[t]
         IN  /\ x \in TaskState /\ x.media = media /\ Same(x, r) /\ x.pc = "image"
             /\ x.failed = r.failed /\ x.image = r.image /\ x.status = r.status
<1>1. task[t] \in TaskState
  BY DEF TypeOK
<1> DEFINE y == Goto(task[t], "image")
<1>2. /\ y \in TaskState /\ y.pc = "image" /\ Same(y, task[t]) /\ y.status = task[t].status
      /\ y.failed = task[t].failed /\ y.image = task[t].image
  BY <1>1, GotoState
<1>3. ToImage(t, media) = [y EXCEPT !.media = media]
  BY DEF ToImage
<1> HIDE DEF y
<1> QED BY <1>2, <1>3, MediaState DEF Same

LEMMA EndedState ==
  ASSUME TypeOK, NEW t \in Tasks, NEW image \in {"none", "pushed", "failed"}, NEW failed \in BOOLEAN
  PROVE  LET x == Ended(t, image, failed)
             r == task[t]
         IN  /\ x \in TaskState /\ x.media = r.media /\ Same(x, r) /\ x.pc = "end"
             /\ x.image = image /\ x.status = (IF failed THEN "failed" ELSE "updated")
<1>1. task[t] \in TaskState
  BY DEF TypeOK
<1> DEFINE status == IF failed THEN "failed" ELSE "updated"
           y == End(task[t], status)
<1>2. status \in {"failed", "updated"}
  OBVIOUS
<1>3. /\ y \in TaskState /\ y.pc = "end" /\ Same(y, task[t]) /\ y.status = status
      /\ y.media = task[t].media
  <2> HIDE DEF status
  <2> QED BY <1>1, <1>2, EndState
<1>4. Ended(t, image, failed) = [y EXCEPT !.image = image]
  BY DEF Ended
<1> HIDE DEF y, status
<1>5. LET x == [y EXCEPT !.image = image]
      IN  /\ x \in TaskState /\ x.media = y.media /\ Same(x, y) /\ x.pc = y.pc
          /\ x.image = image /\ x.status = y.status
  BY <1>3 DEF TaskState, Same
<1> QED BY <1>3, <1>4, <1>5 DEF Same, status

\* A question about the item leads to the write, or to the end of a dry run.
Questioned(t, x) ==
  /\ At(t, "detail")
  /\ x.image = task[t].image /\ x.media # "updated"
  /\ \/ import.dryRun /\ x.pc = "end" /\ x.status = "matched"
     \/ ~import.dryRun /\ x.pc = "full" /\ x.status = task[t].status

Unended(t, x) == x.status = task[t].status /\ x.image = task[t].image

\* What the task knows after a request that was answered.
AfterAnswer(t, x) ==
  /\ x \in TaskState /\ Same(x, task[t])
  /\ \/ Questioned(t, x)
     \/ /\ task[t].pc \in Levels /\ x.pc \in {"verify", "image"} /\ Unended(t, x)
        /\ x.media \in {task[t].media, "failed"}
     \/ /\ At(t, "verify") /\ x.pc = "image" /\ Unended(t, x) /\ x.failed = task[t].failed
        /\ x.media = "updated" => mediaOf[task[t].target] = t
     \/ /\ At(t, "image") /\ x.pc = "end" /\ x.media = task[t].media
        /\ x.status \in {"updated", "failed"}
        /\ x.status = "updated" => ~task[t].failed

\* And after one that failed for good.
AfterFailure(t, x) ==
  /\ x \in TaskState /\ Same(x, task[t])
  /\ \/ Questioned(t, x)
     \/ /\ task[t].pc \in Levels /\ x.pc \in Levels /\ Unended(t, x) /\ x.media = task[t].media
        /\ <<task[t].pc, x.pc>> \in {<<"full", "compatibility">>, <<"compatibility", "minimal">>}
     \/ /\ task[t].pc \in Levels /\ x.pc = "image" /\ Unended(t, x) /\ x.failed
        /\ x.media \in {task[t].media, "failed"}
     \/ /\ At(t, "verify") /\ x.pc = "image" /\ Unended(t, x) /\ x.failed = task[t].failed
        /\ x.media = "failed"
     \/ /\ At(t, "image") /\ x.pc = "end" /\ x.media = task[t].media /\ x.image = "failed"
        /\ x.status \in {"updated", "failed"}
        /\ x.status = "updated" => ~task[t].failed /\ t \notin Avatars

LEMMA AnsweredState ==
  ASSUME TypeOK, NEW t \in Tasks, Sending(t)
  PROVE  AfterAnswer(t, Answered(t))
<1> DEFINE r == task[t]
<1>0. r \in TaskState /\ r.media \in Medias /\ r.failed \in BOOLEAN
  BY DEF TypeOK, TaskState, Medias
<1>1. CASE At(t, "detail")
  <2>1. \/ Answered(t) \in {ToWrite(t, "skipped"), ToWrite(t, "planned")}
        \/ ~import.dryRun /\ Answered(t) = [ToWrite(t, "none") EXCEPT !.included = TRUE]
    BY <1>1 DEF Answered, At
  <2>2. CASE Answered(t) \in {ToWrite(t, "skipped"), ToWrite(t, "planned")}
    BY <1>1, <2>2, ToWriteState DEF Medias, AfterAnswer, Questioned
  <2>3. CASE ~import.dryRun /\ Answered(t) = [ToWrite(t, "none") EXCEPT !.included = TRUE]
    <3> DEFINE y == ToWrite(t, "none")
    <3>1. /\ y \in TaskState /\ y.media = "none" /\ Same(y, r) /\ y.image = r.image
          /\ y.pc = "full" /\ y.status = r.status
      BY <2>3, ToWriteState DEF Medias
    <3> HIDE DEF y
    <3>2. LET x == [y EXCEPT !.included = TRUE]
          IN  /\ x \in TaskState /\ x.media = y.media /\ Same(x, y) /\ x.image = y.image
              /\ x.pc = y.pc /\ x.status = y.status
      BY <3>1 DEF TaskState, Same
    <3> QED BY <1>1, <2>3, <3>1, <3>2 DEF AfterAnswer, Questioned, Same, y
  <2> QED BY <2>1, <2>2, <2>3
<1>2. CASE At(t, "full")
  <2>1. \E pc \in {"verify", "image"} : Answered(t) = Goto(r, pc)
    BY <1>2 DEF Answered, At
  <2> QED BY <1>0, <1>2, <2>1, GotoState DEF AfterAnswer, Unended, Levels, At
<1>3. CASE r.pc \in {"compatibility", "minimal"}
  <2>1. Answered(t) \in {ToImage(t, "failed"), ToImage(t, r.media)}
    BY <1>3 DEF Answered, At
  <2> QED BY <1>0, <1>3, <2>1, ToImageState DEF Medias, AfterAnswer, Unended, Levels
<1>4. CASE At(t, "verify")
  <2>1. \/ Answered(t) = ToImage(t, "updated") /\ mediaOf[r.target] = t
        \/ Answered(t) = ToImage(t, "failed")
    BY <1>4 DEF Answered, At
  <2> QED BY <1>0, <1>4, <2>1, ToImageState DEF Medias, AfterAnswer, Unended
<1>5. CASE At(t, "image")
  <2>1. Answered(t) = Ended(t, "pushed", r.failed)
    BY <1>5 DEF Answered, At
  <2> QED BY <1>0, <1>5, <2>1, EndedState DEF AfterAnswer
<1> QED BY <1>1, <1>2, <1>3, <1>4, <1>5 DEF Sending, Levels, At

LEMMA GivenUpState ==
  ASSUME TypeOK, NEW t \in Tasks, Sending(t), NEW rejected \in BOOLEAN
  PROVE  AfterFailure(t, GivenUp(t, rejected))
<1> DEFINE r == task[t]
           G == GivenUp(t, rejected)
           FallsBack(pc) ==
             <<r.pc, pc>> \in {<<"full", "compatibility">>, <<"compatibility", "minimal">>}
<1>0. r \in TaskState /\ r.media \in Medias /\ r.failed \in BOOLEAN
  BY DEF TypeOK, TaskState, Medias
<1> SUFFICES AfterFailure(t, G)
  OBVIOUS
<1>1. CASE At(t, "detail")
  <2>1. G = ToWrite(t, "failed")
    BY <1>1 DEF GivenUp, At
  <2> HIDE DEF G
  <2> QED BY <1>1, <2>1, ToWriteState DEF Medias, AfterFailure, Questioned
<1>2. ASSUME NEW media \in {r.media, "failed"}, r.pc \in Levels,
             G = [ToImage(t, media) EXCEPT !.failed = TRUE]
      PROVE  AfterFailure(t, G)
  <2> DEFINE y == ToImage(t, media)
  <2>1. y \in TaskState /\ y.media = media /\ Same(y, r) /\ y.pc = "image" /\ Unended(t, y)
    BY <1>0, ToImageState DEF Medias, Unended
  <2> HIDE DEF y
  <2>2. LET x == [y EXCEPT !.failed = TRUE]
        IN  /\ x \in TaskState /\ x.media = y.media /\ Same(x, y) /\ x.pc = y.pc
            /\ x.image = y.image /\ x.status = y.status /\ x.failed
    BY <2>1 DEF TaskState, Same
  <2>3. G = [y EXCEPT !.failed = TRUE]
    BY <1>2 DEF y
  <2> HIDE DEF G
  <2> QED BY <1>2, <2>1, <2>2, <2>3 DEF AfterFailure, Same, Unended
<1>3. CASE At(t, "full") \/ At(t, "compatibility") \/ At(t, "minimal")
  <2>1. \/ \E pc \in {"compatibility", "minimal"} : FallsBack(pc) /\ G = Goto(r, pc)
        \/ \E media \in {r.media, "failed"} : G = [ToImage(t, media) EXCEPT !.failed = TRUE]
    BY <1>3 DEF GivenUp, At
  <2>2. r.pc \in Levels
    BY <1>3 DEF At, Levels
  <2> HIDE DEF G
  <2>3. ASSUME NEW pc \in {"compatibility", "minimal"}, FallsBack(pc), G = Goto(r, pc)
        PROVE  AfterFailure(t, G)
    BY <1>0, <2>2, <2>3, GotoState DEF AfterFailure, Unended, Levels
  <2> QED BY <1>2, <2>1, <2>2, <2>3
<1>4. CASE At(t, "verify")
  <2>1. G = ToImage(t, "failed")
    BY <1>4 DEF GivenUp, At
  <2> HIDE DEF G
  <2> QED BY <1>4, <2>1, ToImageState DEF Medias, AfterFailure, Unended
<1>5. CASE At(t, "image")
  <2>1. G = Ended(t, "failed", r.failed \/ t \in Avatars)
    BY <1>5 DEF GivenUp, At
  <2>2. (r.failed \/ t \in Avatars) \in BOOLEAN
    BY <1>0
  <2> DEFINE f == r.failed \/ t \in Avatars
  <2>3. f <=> r.failed \/ t \in Avatars
    OBVIOUS
  <2> HIDE DEF G, f
  <2>4. G = Ended(t, "failed", f) /\ f \in BOOLEAN
    BY <2>1, <2>2 DEF f
  <2> QED BY <1>5, <2>3, <2>4, EndedState DEF AfterFailure
<1> QED BY <1>1, <1>3, <1>4, <1>5 DEF Sending, Levels, At

-----------------------------------------------------------------------------
(* The invariant of the tasks *)

LEMMA ConclusiveKept ==
  ASSUME import \in Imports, import' = import,
         \A k \in Keys : answer[k] # NoAnswer => answer'[k] = answer[k],
         NEW e \in TasksOf(import), NEW n \in DOMAIN Lookups(e, import), Conclusive(e, n)
  PROVE  Conclusive(e, n)'
<1>1. Lookups(e, import)' = Lookups(e, import)
  OBVIOUS
<1>2. Lookups(e, import)[n].key \in Keys
  BY LookupKeys
<1> QED BY <1>1, <1>2 DEF Conclusive

\* A task keeps its invariant in a step that is not its own.
LEMMA InvKept ==
  ASSUME IInv, NEW u \in Tasks, import' = import,
         task'[u] = task[u], asking'[u] = asking[u], accepted'[u] = accepted[u],
         persisted \subseteq persisted',
         \A k \in Keys : answer[k] # NoAnswer => answer'[k] = answer[k]
  PROVE  TaskInv(u, task[u])'
<1>1. TaskInv(u, task[u]) /\ import \in Imports
  BY DEF IInv, TypeOK
<1>3. Placed(u, task[u])'
  BY <1>1 DEF TaskInv, Placed
<1>4. Dry(u, task[u])' /\ Agreed(u, task[u])'
  BY <1>1 DEF TaskInv, Dry, Agreed
<1>5. Taken(u, task[u])' /\ Reported(u, task[u])'
  BY <1>1 DEF TaskInv, Taken, Reported
<1>6. Asked(u, task[u])'
  <2>1. \A n \in DOMAIN Lookups(u, import) :
          u \in TasksOf(import) /\ Conclusive(u, n) => Conclusive(u, n)'
    BY <1>1, ConclusiveKept
  <2>2. task[u].pc \in Entering => u \in TasksOf(import)
    BY <1>1 DEF TaskInv, Placed, Entering
  <2> QED BY <1>1, <2>1, <2>2 DEF TaskInv, Asked
<1> QED BY <1>3, <1>4, <1>5, <1>6 DEF TaskInv

\* What a task has when it sends a request.
LEMMA SendingFacts ==
  ASSUME IInv, NEW t \in Tasks, Sending(t)
  PROVE  /\ task[t] \in TaskState /\ t \in TasksOf(import)
         /\ task[t].status = "none"
         /\ t \in Avatars => task[t].pc = "image"
         /\ t \in Entries => task[t].target \in DOMAIN import.item
         /\ import.dryRun => task[t].pc = "detail"
<1>1. task[t] \in TaskState /\ TaskInv(t, task[t])
  BY DEF IInv, TypeOK
<1>2. task[t].pc \notin Entering \cup {"end"}
  BY DEF Sending, Entering, Levels
<1>3. task[t].status = "none"
  BY <1>1, <1>2 DEF TaskInv, Asked
<1>4. import.dryRun => task[t].pc = "detail"
  BY <1>1 DEF TaskInv, Dry, Writing, Sending
<1> QED BY <1>1, <1>2, <1>3, <1>4 DEF TaskInv, Placed, At

LEMMA FailureKeeps ==
  ASSUME IInv, NEW t \in Tasks, Sending(t), AfterFailure(t, task'[t]),
         import' = import, UNCHANGED cache,
         accepted[t] \subseteq accepted'[t], persisted \subseteq persisted'
  PROVE  TaskInv(t, task[t])'
<1> DEFINE r == task[t]
           x == task'[t]
<1>1. /\ r \in TaskState /\ t \in TasksOf(import) /\ r.status = "none"
      /\ t \in Avatars => r.pc = "image"
      /\ t \in Entries => r.target \in DOMAIN import.item
      /\ import.dryRun => r.pc = "detail"
  BY SendingFacts
<1>2. TaskInv(t, r)
  BY DEF IInv
<1>3. x.target = r.target
  BY DEF AfterFailure, Same
<1>4. \/ Questioned(t, x)
      \/ r.pc \in Levels /\ x.pc \in Levels /\ Unended(t, x) /\ x.media = r.media
      \/ r.pc \in Levels /\ x.pc = "image" /\ Unended(t, x) /\ x.failed
         /\ x.media \in {r.media, "failed"}
      \/ r.pc = "verify" /\ x.pc = "image" /\ Unended(t, x) /\ x.failed = r.failed
         /\ x.media = "failed"
      \/ /\ r.pc = "image" /\ x.pc = "end" /\ x.media = r.media /\ x.image = "failed"
         /\ x.status \in {"updated", "failed"}
         /\ x.status = "updated" => ~r.failed /\ t \notin Avatars
  BY DEF AfterFailure, At
<1>5. x.pc \notin Entering /\ (t \in Avatars => x.pc = "end")
  BY <1>1, <1>4 DEF Questioned, At, Levels, Entering
<1>6. Placed(t, task[t])'
  BY <1>1, <1>3, <1>5 DEF Placed, Entering
<1>7. Dry(t, task[t])'
  BY <1>1, <1>4, <1>5 DEF Dry, Questioned, At, Levels, Writing
<1>8. Agreed(t, task[t])'
  BY <1>2, <1>3 DEF TaskInv, Agreed
<1>9. Taken(t, task[t])'
  BY <1>2, <1>4 DEF TaskInv, Taken, Questioned, At, Levels
<1>10. Reported(t, task[t])'
  <2>1. x.media = "updated" => r.media = "updated"
    BY <1>4 DEF Questioned
  <2>2. x.image = "pushed" => r.image = "pushed"
    BY <1>4 DEF Questioned, Unended
  <2>3. x.status = "updated" => t \in Entries /\ r.pc = "image" /\ ~r.failed
    BY <1>1, <1>4, TaskKinds DEF Questioned, Unended
  <2> QED BY <1>2, <2>1, <2>2, <2>3 DEF TaskInv, Reported, Taken
<1>11. Asked(t, task[t])'
  <2>1. x.status # "none" => x.pc = "end"
    BY <1>1, <1>4 DEF Questioned, Unended
  <2>2. x.status # "unmatched"
    BY <1>1, <1>4 DEF Questioned, Unended
  <2> QED BY <1>5, <2>1, <2>2 DEF Asked
<1> QED BY <1>6, <1>7, <1>8, <1>9, <1>10, <1>11 DEF TaskInv

LEMMA AnswerKeeps ==
  ASSUME IInv, NEW t \in Tasks, Sending(t), AfterAnswer(t, task'[t]),
         import' = import, UNCHANGED cache,
         accepted[t] \cup ({task[t].pc} \cap (Levels \cup {"image"})) \subseteq accepted'[t],
         persisted \subseteq persisted'
  PROVE  TaskInv(t, task[t])'
<1> DEFINE r == task[t]
           x == task'[t]
<1>1. /\ r \in TaskState /\ t \in TasksOf(import) /\ r.status = "none"
      /\ t \in Avatars => r.pc = "image"
      /\ t \in Entries => r.target \in DOMAIN import.item
      /\ import.dryRun => r.pc = "detail"
  BY SendingFacts
<1>2. TaskInv(t, r)
  BY DEF IInv
<1>3. x.target = r.target
  BY DEF AfterAnswer, Same
<1>4. \/ Questioned(t, x)
      \/ r.pc \in Levels /\ x.pc \in {"verify", "image"} /\ Unended(t, x)
         /\ x.media \in {r.media, "failed"}
      \/ /\ r.pc = "verify" /\ x.pc = "image" /\ Unended(t, x) /\ x.failed = r.failed
         /\ x.media = "updated" => mediaOf[r.target] = t
      \/ /\ r.pc = "image" /\ x.pc = "end" /\ x.media = r.media
         /\ x.status \in {"updated", "failed"}
         /\ x.status = "updated" => ~r.failed
  BY DEF AfterAnswer, At
<1>5. x.pc \notin Entering /\ (t \in Avatars => x.pc = "end")
  BY <1>1, <1>4 DEF Questioned, At, Levels, Entering
<1>6. Placed(t, task[t])'
  BY <1>1, <1>3, <1>5 DEF Placed, Entering
<1>7. Dry(t, task[t])'
  BY <1>1, <1>4, <1>5 DEF Dry, Questioned, At, Levels, Writing
<1>8. Agreed(t, task[t])'
  BY <1>2, <1>3 DEF TaskInv, Agreed
<1>9. Taken(t, task[t])'
  <2>1. CASE r.pc \in Levels
    BY <2>1 DEF Taken
  <2>2. CASE r.pc \notin Levels
    BY <1>2, <1>4, <2>2 DEF TaskInv, Taken, Questioned, At
  <2> QED BY <2>1, <2>2
<1>10. Reported(t, task[t])'
  <2>1. x.media = "updated" => t \in persisted
    <3>1. CASE r.pc = "verify"
      <4>1. t \in Entries /\ r.target \in Items
        BY <1>1, <3>1, TaskKinds DEF Items, IInv, TypeOK
      <4> QED BY <1>4, <3>1, <4>1 DEF IInv, PersistedInv, Questioned, At, Levels
    <3>2. CASE r.pc # "verify"
      BY <1>2, <1>4, <3>2 DEF Questioned, TaskInv, Reported
    <3> QED BY <3>1, <3>2
  <2>2. x.image = "pushed" => r.image = "pushed" \/ r.pc = "image"
    BY <1>4 DEF Questioned, Unended
  <2>3. x.status = "updated" => r.pc = "image" /\ ~r.failed
    BY <1>1, <1>4 DEF Questioned, Unended
  <2>4. r.pc = "image" => "image" \in accepted'[t]
    OBVIOUS
  <2> QED BY <1>2, <2>1, <2>2, <2>3, <2>4 DEF TaskInv, Reported, Taken
<1>11. Asked(t, task[t])'
  <2>1. x.status # "none" => x.pc = "end"
    BY <1>1, <1>4 DEF Questioned, Unended
  <2>2. x.status # "unmatched"
    BY <1>1, <1>4 DEF Questioned, Unended
  <2> QED BY <1>5, <2>1, <2>2 DEF Asked
<1> QED BY <1>6, <1>7, <1>8, <1>9, <1>10, <1>11 DEF TaskInv

\* What the server does with a request keeps the types, and the media
\* information it has is that of an entry.
LEMMA ServeKeeps ==
  ASSUME IInv, NEW t \in Tasks, Sending(t), Serve(t)
  PROVE  /\ accepted' \in [Tasks -> SUBSET (Levels \cup {"image"})]
         /\ mediaOf' \in [Items -> Entries \cup {None}]
         /\ persisted \subseteq persisted' /\ persisted' \subseteq Entries
         /\ PersistedInv'
         /\ accepted'[t] = accepted[t] \cup ({task[t].pc} \cap (Levels \cup {"image"}))
         /\ \A u \in Tasks \ {t} : accepted'[u] = accepted[u]
<1>0. /\ accepted \in [Tasks -> SUBSET (Levels \cup {"image"})]
      /\ mediaOf \in [Items -> Entries \cup {None}] /\ persisted \subseteq Entries
      /\ import \in Imports
  BY DEF IInv, TypeOK
<1>1. accepted' = [accepted EXCEPT ![t] = @ \cup ({task[t].pc} \cap (Levels \cup {"image"}))]
  BY DEF Serve
<1>2. /\ accepted' \in [Tasks -> SUBSET (Levels \cup {"image"})]
      /\ accepted'[t] = accepted[t] \cup ({task[t].pc} \cap (Levels \cup {"image"}))
      /\ \A u \in Tasks \ {t} : accepted'[u] = accepted[u]
  BY <1>0, <1>1
<1>3. CASE UNCHANGED <<mediaOf, persisted>>
  BY <1>0, <1>2, <1>3 DEF IInv, PersistedInv
<1>4. CASE /\ At(t, "full") /\ mediaOf' = [mediaOf EXCEPT ![task[t].target] = t]
           /\ persisted' = persisted \cup {t}
  <2>1. t \in Entries /\ task[t].target \in Items
    BY <1>0, <1>4, SendingFacts, TaskKinds DEF At, Items
  <2>2. mediaOf' \in [Items -> Entries \cup {None}]
    BY <1>0, <1>4, <2>1
  <2>3. \A i \in Items : mediaOf'[i] \in {t, mediaOf[i]}
    BY <1>0, <1>4
  <2> QED BY <1>0, <1>2, <1>4, <2>1, <2>2, <2>3 DEF IInv, PersistedInv
<1> QED BY <1>3, <1>4 DEF Serve

\* The step of a task that leaves the server alone and keeps or moves the cache.
LEMMA TaskKept ==
  ASSUME IInv, NEW t \in Tasks, task' = [task EXCEPT ![t] = task'[t]], task'[t] \in TaskState
  PROVE  /\ task' \in [Tasks -> TaskState]
         /\ \A u \in Tasks \ {t} : task'[u] = task[u]
<1>1. task \in [Tasks -> TaskState]
  BY DEF IInv, TypeOK
<1> DEFINE x == task'[t]
<1>2. x \in TaskState /\ task' = [task EXCEPT ![t] = x]
  OBVIOUS
<1> HIDE DEF x
<1> QED BY <1>1, <1>2

\* Retrying changes no more than the attempt.
LEMMA RetryState ==
  ASSUME NEW r \in TaskState, r.attempt < Attempts
  PROVE  LET x == [r EXCEPT !.attempt = @ + 1]
         IN  /\ x \in TaskState /\ Same(x, r) /\ x.pc = r.pc /\ x.status = r.status
             /\ x.failed = r.failed /\ x.media = r.media /\ x.image = r.image
             /\ x.error = r.error /\ x.ambiguous = r.ambiguous
<1>1. r.attempt + 1 \in 1..Attempts
  BY DEF TaskState, Attempts
<1> QED BY <1>1 DEF TaskState, Same

LEMMA RetryKeeps ==
  ASSUME IInv, NEW t \in Tasks, Sending(t), import' = import, UNCHANGED cache,
         accepted[t] \subseteq accepted'[t], persisted \subseteq persisted',
         task'[t].pc = task[t].pc, task'[t].status = task[t].status, Same(task'[t], task[t]),
         task'[t].failed = task[t].failed, task'[t].media = task[t].media,
         task'[t].image = task[t].image
  PROVE  TaskInv(t, task[t])'
<1>1. TaskInv(t, task[t])
  BY DEF IInv
<1>2. /\ t \in TasksOf(import) /\ task[t].status = "none" /\ task[t].pc \notin Entering
      /\ t \in Entries => task[t].target \in DOMAIN import.item
  BY SendingFacts DEF Sending, Entering, Levels
<1>3. Placed(t, task[t])' /\ Dry(t, task[t])' /\ Agreed(t, task[t])'
  BY <1>1, <1>2 DEF TaskInv, Placed, Dry, Agreed, Same, Entering
<1>4. Taken(t, task[t])' /\ Reported(t, task[t])'
  BY <1>1 DEF TaskInv, Taken, Reported
<1>5. Asked(t, task[t])'
  BY <1>2 DEF Asked
<1> QED BY <1>3, <1>4, <1>5 DEF TaskInv

-----------------------------------------------------------------------------
(* The steps *)

\* Whatever a step of t does to the cache, the server and t's own state.
LEMMA StepKeeps ==
  ASSUME IInv, NEW t \in Tasks, import' = import, cancelled' = cancelled,
         faults' \in 0..import.faults,
         task' = [task EXCEPT ![t] = task'[t]], task'[t] \in TaskState, TaskInv(t, task[t])',
         CacheMove, \A u \in Tasks \ {t} : asking'[u] = asking[u],
         accepted' \in [Tasks -> SUBSET (Levels \cup {"image"})],
         \A u \in Tasks \ {t} : accepted'[u] = accepted[u],
         mediaOf' \in [Items -> Entries \cup {None}],
         persisted \subseteq persisted', persisted' \subseteq Entries, PersistedInv'
  PROVE  IInv'
<1>1. import \in Imports /\ CP!IInv /\ AnswerInv /\ cancelled \in BOOLEAN
  BY DEF IInv, TypeOK
<1>2. /\ CP!IInv' /\ AnswerInv'
      /\ \A k \in Keys : answer[k] # NoAnswer => answer'[k] = answer[k]
  BY <1>1, CacheStep, AnswerStep
<1>3. /\ task' \in [Tasks -> TaskState]
      /\ \A u \in Tasks \ {t} : task'[u] = task[u]
  BY TaskKept
<1>4. \A u \in Tasks : TaskInv(u, task[u])'
  BY <1>2, <1>3, InvKept
<1>5. CP!CacheTypeOK'
  BY <1>2 DEF CP!IInv
<1>6. Cache!CacheTypeOK'
  BY <1>5 DEF Cache!CacheTypeOK, CP!CacheTypeOK
<1>7. TypeOK'
  BY <1>1, <1>3, <1>6 DEF TypeOK
<1> QED BY <1>2, <1>4, <1>7 DEF IInv

\* A step that leaves the cache and the server alone.
LEMMA QuietKeeps ==
  ASSUME IInv, NEW t \in Tasks, UNCHANGED <<cache, environment, server, cancelled>>,
         task' = [task EXCEPT ![t] = task'[t]], task'[t] \in TaskState, TaskInv(t, task[t])'
  PROVE  IInv'
<1>1. /\ accepted \in [Tasks -> SUBSET (Levels \cup {"image"})] /\ faults \in 0..import.faults
      /\ mediaOf \in [Items -> Entries \cup {None}] /\ persisted \subseteq Entries /\ PersistedInv
  BY DEF IInv, TypeOK
<1>2. /\ accepted' = accepted /\ mediaOf' = mediaOf /\ persisted' = persisted
      /\ import' = import /\ faults' = faults /\ cancelled' = cancelled /\ asking' = asking
  BY DEF cache, environment, server
<1>3. CacheMove
  BY DEF CacheMove
<1>4. PersistedInv'
  BY <1>1, <1>2 DEF PersistedInv
<1> QED BY <1>1, <1>2, <1>3, <1>4, StepKeeps

LEMMA Updated ==
  ASSUME IInv, NEW t \in Tasks, NEW st, st \in TaskState, task' = [task EXCEPT ![t] = st]
  PROVE  task'[t] = st /\ task' = [task EXCEPT ![t] = task'[t]] /\ task'[t] \in TaskState
BY DEF IInv, TypeOK

LEMMA RequestStep ==
  ASSUME IInv, NEW t \in Tasks,
         RequestAnswered(t) \/ RequestLost(t) \/ RequestFails(t) \/ RequestCancelled(t)
  PROVE  IInv'
<1>0. /\ TypeOK /\ Sending(t) /\ task[t] \in TaskState
      /\ import \in Imports /\ faults \in 0..import.faults
      /\ accepted \in [Tasks -> SUBSET (Levels \cup {"image"})]
      /\ mediaOf \in [Items -> Entries \cup {None}] /\ persisted \subseteq Entries /\ PersistedInv
  BY DEF IInv, TypeOK, RequestAnswered, RequestLost, RequestFails, RequestCancelled
<1>1. UNCHANGED cache /\ import' = import
  BY DEF RequestAnswered, RequestLost, RequestFails, RequestCancelled, environment
<1>2. cancelled' = cancelled /\ faults' \in 0..import.faults
  <2>1. import.faults \in Nat
    BY <1>0, ImportAssumption
  <2>2. /\ cancelled' = cancelled
        /\ faults' = faults \/ (faults < import.faults /\ faults' = faults + 1)
    BY DEF RequestAnswered, RequestLost, RequestFails, RequestCancelled, environment, Fault
  <2>3. faults' \in 0..import.faults
    BY <1>0, <2>1, <2>2
  <2> QED BY <2>2, <2>3
<1>3. CacheMove /\ asking' = asking
  BY <1>1 DEF CacheMove, cache
<1>4. ASSUME UNCHANGED server
      PROVE  /\ accepted' = accepted /\ mediaOf' = mediaOf /\ persisted' = persisted
             /\ PersistedInv'
  BY <1>0, <1>4 DEF server, PersistedInv
<1>5. ASSUME Retry(t), accepted[t] \subseteq accepted'[t], persisted \subseteq persisted'
      PROVE  /\ TaskInv(t, task[t])'
             /\ task' = [task EXCEPT ![t] = task'[t]] /\ task'[t] \in TaskState
  <2> DEFINE st == [task[t] EXCEPT !.attempt = @ + 1]
  <2>1. task' = [task EXCEPT ![t] = st] /\ task[t].attempt < Attempts
    BY <1>5 DEF Retry, Update
  <2>2. /\ st \in TaskState /\ Same(st, task[t]) /\ st.pc = task[t].pc
        /\ st.status = task[t].status /\ st.failed = task[t].failed
        /\ st.media = task[t].media /\ st.image = task[t].image
    BY <1>0, <2>1, RetryState
  <2> HIDE DEF st
  <2>3. task'[t] = st /\ task' = [task EXCEPT ![t] = task'[t]] /\ task'[t] \in TaskState
    BY <2>1, <2>2, Updated
  <2> QED BY <1>0, <1>1, <1>5, <2>2, <2>3, RetryKeeps
<1>6. ASSUME NEW rejected \in BOOLEAN, Update(t, GivenUp(t, rejected)),
             accepted[t] \subseteq accepted'[t], persisted \subseteq persisted'
      PROVE  /\ TaskInv(t, task[t])'
             /\ task' = [task EXCEPT ![t] = task'[t]] /\ task'[t] \in TaskState
  <2>1. AfterFailure(t, GivenUp(t, rejected))
    BY <1>0, GivenUpState
  <2>2. GivenUp(t, rejected) \in TaskState
    BY <2>1 DEF AfterFailure
  <2>3. /\ task'[t] = GivenUp(t, rejected) /\ task' = [task EXCEPT ![t] = task'[t]]
        /\ task'[t] \in TaskState
    BY <1>6, <2>2, Updated DEF Update
  <2>4. AfterFailure(t, task'[t])
    BY <2>1, <2>3
  <2> QED BY <1>0, <1>1, <1>6, <2>3, <2>4, FailureKeeps
<1>7. CASE RequestAnswered(t)
  <2>1. AfterAnswer(t, Answered(t))
    BY <1>0, AnsweredState
  <2>2. Answered(t) \in TaskState
    BY <2>1 DEF AfterAnswer
  <2>3. /\ task'[t] = Answered(t) /\ task' = [task EXCEPT ![t] = task'[t]]
        /\ task'[t] \in TaskState
    BY <1>7, <2>2, Updated DEF RequestAnswered, Update
  <2>4. AfterAnswer(t, task'[t])
    BY <2>1, <2>3
  <2>5. Serve(t)
    BY <1>7 DEF RequestAnswered
  <2>6. TaskInv(t, task[t])'
    BY <1>0, <1>1, <2>4, <2>5, ServeKeeps, AnswerKeeps
  <2>7. /\ accepted' \in [Tasks -> SUBSET (Levels \cup {"image"})]
        /\ mediaOf' \in [Items -> Entries \cup {None}]
        /\ persisted \subseteq persisted' /\ persisted' \subseteq Entries
        /\ PersistedInv' /\ \A u \in Tasks \ {t} : accepted'[u] = accepted[u]
    BY <1>0, <2>5, ServeKeeps
  <2>8. \A u \in Tasks \ {t} : asking'[u] = asking[u]
    BY <1>3
  <2>9. task' = [task EXCEPT ![t] = task'[t]] /\ task'[t] \in TaskState
    BY <2>3
  <2>10. import' = import /\ cancelled' = cancelled /\ faults' \in 0..import.faults /\ CacheMove
    BY <1>1, <1>2, <1>3
  <2> QED BY <2>6, <2>7, <2>8, <2>9, <2>10, StepKeeps
<1>8. CASE RequestLost(t)
  <2>1. Serve(t) /\ (Retry(t) \/ Update(t, GivenUp(t, FALSE)))
    BY <1>8 DEF RequestLost
  <2>2. accepted[t] \subseteq accepted'[t] /\ persisted \subseteq persisted'
    BY <1>0, <2>1, ServeKeeps
  <2>3. /\ TaskInv(t, task[t])'
        /\ task' = [task EXCEPT ![t] = task'[t]] /\ task'[t] \in TaskState
    BY <1>5, <1>6, <2>1, <2>2
  <2> QED BY <1>0, <1>1, <1>2, <1>3, <2>1, <2>3, ServeKeeps, StepKeeps
<1>9. CASE RequestFails(t) \/ RequestCancelled(t)
  <2>1. UNCHANGED server /\ (Retry(t) \/ \E rejected \in BOOLEAN : Update(t, GivenUp(t, rejected)))
    BY <1>9 DEF RequestFails, RequestCancelled
  <2>2. /\ accepted' = accepted /\ mediaOf' = mediaOf /\ persisted' = persisted
        /\ PersistedInv'
    BY <1>4, <2>1
  <2>3. /\ TaskInv(t, task[t])'
        /\ task' = [task EXCEPT ![t] = task'[t]] /\ task'[t] \in TaskState
    BY <1>5, <1>6, <2>1, <2>2
  <2> QED BY <1>0, <1>1, <1>2, <1>3, <2>2, <2>3, StepKeeps
<1> QED BY <1>7, <1>8, <1>9

\* A task that ends without a write reports none.
LEMMA EndKeeps ==
  ASSUME IInv, NEW t \in Tasks, import' = import, accepted' = accepted, persisted' = persisted,
         task'[t].pc = "end", task'[t].status \in {"failed", "ambiguous", "matched"},
         task'[t].target = task[t].target, task'[t].image = task[t].image,
         task'[t].media = task[t].media \/ task'[t].media # "updated"
  PROVE  TaskInv(t, task[t])'
<1>1. TaskInv(t, task[t])
  BY DEF IInv
<1>2. Placed(t, task[t])' /\ Dry(t, task[t])' /\ Agreed(t, task[t])' /\ Taken(t, task[t])'
  BY <1>1 DEF TaskInv, Placed, Dry, Agreed, Taken, Writing, Levels
<1>3. Reported(t, task[t])' /\ Asked(t, task[t])'
  BY <1>1 DEF TaskInv, Reported, Asked, Entering
<1> QED BY <1>2, <1>3 DEF TaskInv

\* Only the cache, or the job's context, changes.
LEMMA CacheKeeps ==
  ASSUME IInv, CacheMove, asking' = asking, UNCHANGED <<environment, task, server>>,
         cancelled' \in BOOLEAN
  PROVE  IInv'
<1>1. import \in Imports /\ CP!IInv /\ AnswerInv /\ import' = import
  BY DEF IInv, TypeOK, environment
<1>2. /\ CP!IInv' /\ AnswerInv'
      /\ \A k \in Keys : answer[k] # NoAnswer => answer'[k] = answer[k]
  BY <1>1, CacheStep, AnswerStep
<1>3. \A u \in Tasks : TaskInv(u, task[u])'
  BY <1>1, <1>2, InvKept DEF server
<1>4. Cache!CacheTypeOK'
  <2>1. CP!CacheTypeOK'
    BY <1>2 DEF CP!IInv
  <2> QED BY <2>1 DEF Cache!CacheTypeOK, CP!CacheTypeOK
<1>5. TypeOK' /\ PersistedInv'
  BY <1>4 DEF IInv, TypeOK, PersistedInv, environment, server
<1> QED BY <1>2, <1>3, <1>5 DEF IInv

LEMMA FetchStep ==
  ASSUME IInv, NEW t \in Tasks, FetchSucceeds(t) \/ FetchFails(t) \/ WaiterGivesUp(t)
  PROVE  IInv' /\ CacheMove
<1>1. UNCHANGED <<environment, task, server, cancelled>> /\ cancelled \in BOOLEAN
  BY DEF FetchSucceeds, FetchFails, WaiterGivesUp, IInv, TypeOK
<1>2. CASE FetchSucceeds(t)
  <2>1. PICK found \in Found(asking[t]) : CP!FetchSucceeds(t, found) /\ asking' = asking
    BY <1>2 DEF FetchSucceeds, Cache!FetchSucceeds, CP!FetchSucceeds, Cache!Close, CP!Close,
               Cache!Waiters, CP!Waiters
  <2>2. CacheMove
    BY <2>1 DEF CacheMove
  <2> QED BY <1>1, <2>1, <2>2, CacheKeeps
<1>3. CASE FetchFails(t)
  <2>1. CP!FetchFails(t) /\ asking' = asking
    BY <1>3 DEF FetchFails, Cache!FetchFails, CP!FetchFails, Cache!Close, CP!Close,
               Cache!Waiters, CP!Waiters
  <2>2. CacheMove
    BY <2>1 DEF CacheMove
  <2> QED BY <1>1, <2>1, <2>2, CacheKeeps
<1>4. CASE WaiterGivesUp(t)
  <2>1. CP!WaiterGivesUp(t) /\ asking' = asking
    BY <1>4 DEF WaiterGivesUp, Cache!WaiterGivesUp, CP!WaiterGivesUp
  <2>2. CacheMove
    BY <2>1 DEF CacheMove
  <2> QED BY <1>1, <2>1, <2>2, CacheKeeps
<1> QED BY <1>2, <1>3, <1>4

\* The task of a step before its match.
LEMMA EnteringFacts ==
  ASSUME IInv, NEW t \in Tasks, task[t].pc \in Entering
  PROVE  /\ task[t] \in TaskState /\ TaskInv(t, task[t]) /\ t \in TasksOf(import)
         /\ task[t].status = "none" /\ import \in Imports
         /\ t \in Entries => t \in DOMAIN import.entry
<1>1. task[t] \in TaskState /\ TaskInv(t, task[t]) /\ import \in Imports
  BY DEF IInv, TypeOK
<1>2. t \in TasksOf(import) /\ task[t].status = "none"
  BY <1>1 DEF TaskInv, Placed, Asked, Entering
<1>3. t \in Entries => t \in DOMAIN import.entry
  BY <1>1, <1>2, ImportAssumption DEF TasksOf
<1> QED BY <1>1, <1>2, <1>3

\* The strategies of an entry of the import.
LEMMA EntryLookups ==
  ASSUME import \in Imports, NEW t \in Entries, t \in DOMAIN import.entry
  PROVE  Lookups(t, import) \in Seq(Possible(import.entry[t]))
<1>1. Lookups(t, import) = Strategies(import.entry[t])
  BY ImportAssumption DEF Lookups
<1>2. IsSequence(import.entry[t].providers)
  BY ImportAssumption
<1> QED BY <1>1, <1>2, StrategiesType

LEMMA LookupStep ==
  ASSUME IInv, NEW t \in Tasks, Lookup(t)
  PROVE  IInv' /\ CacheMove
<1> DEFINE r == task[t]
           st == [r EXCEPT !.pc = "lookup"]
           k == Lookups(t, import)[r.step].key
<1>1. /\ r.pc = "match" /\ MayStart(t) /\ r.step \in DOMAIN Lookups(t, import)
      /\ task' = [task EXCEPT ![t] = st]
      /\ UNCHANGED <<environment, server, cancelled>>
  BY DEF Lookup, At, Update
<1>2. /\ r \in TaskState /\ TaskInv(t, r) /\ t \in TasksOf(import)
      /\ r.status = "none" /\ import \in Imports
  BY <1>1, EnteringFacts DEF Entering
<1>3. k \in Keys /\ CP!Lookup(t, k)
  BY <1>1, <1>2, LookupKeys DEF Lookup, Cache!Lookup, CP!Lookup
<1>4. /\ st \in TaskState /\ st.pc = "lookup" /\ st.step = r.step /\ st.status = "none"
      /\ st.target = r.target /\ st.media = r.media /\ st.image = r.image
      /\ st.error = r.error /\ st.ambiguous = r.ambiguous
  BY <1>2 DEF TaskState
<1> HIDE DEF st
<1>5. task'[t] = st /\ task' = [task EXCEPT ![t] = task'[t]] /\ task'[t] \in TaskState
  BY <1>1, <1>4, Updated
<1>6. /\ import' = import /\ accepted' = accepted /\ mediaOf' = mediaOf
      /\ persisted' = persisted /\ cancelled' = cancelled /\ faults' = faults
  BY <1>1 DEF environment, server
<1>7. asking' = [asking EXCEPT ![t] = k] /\ answer' = answer
  BY <1>3 DEF CP!Lookup
<1>8. CacheMove
  BY <1>3 DEF CacheMove
<1>9. asking \in [Tasks -> Keys \cup {NoKey}]
  BY DEF IInv, CP!IInv, CP!CacheTypeOK
<1>10. asking'[t] = k /\ \A u \in Tasks \ {t} : asking'[u] = asking[u]
  BY <1>7, <1>9
<1>11. TaskInv(t, task[t])'
  <2>1. Placed(t, task[t])'
    BY <1>1, <1>2, <1>4, <1>5, <1>6, <1>10 DEF Placed, Entering
  <2>2. Dry(t, task[t])'
    BY <1>1, <1>4, <1>5, <1>6 DEF Dry, MayStart, Writing, Levels
  <2>3. Agreed(t, task[t])'
    BY <1>2, <1>4, <1>5, <1>6 DEF TaskInv, Agreed
  <2>4. Taken(t, task[t])' /\ Reported(t, task[t])'
    BY <1>2, <1>4, <1>5, <1>6 DEF TaskInv, Taken, Reported
  <2>5. Asked(t, task[t])'
    <3>1. \A n \in DOMAIN Lookups(t, import) : Conclusive(t, n) => Conclusive(t, n)'
      BY <1>2, <1>6, <1>7, ConclusiveKept
    <3> QED BY <1>1, <1>2, <1>4, <1>5, <1>6, <3>1 DEF TaskInv, Asked, Entering
  <2> QED BY <2>1, <2>2, <2>3, <2>4, <2>5 DEF TaskInv
<1>12. /\ accepted' \in [Tasks -> SUBSET (Levels \cup {"image"})]
       /\ mediaOf' \in [Items -> Entries \cup {None}]
       /\ persisted' \subseteq Entries /\ PersistedInv' /\ faults' \in 0..import.faults
  BY <1>6 DEF IInv, TypeOK, PersistedInv
<1>13. IInv'
  BY <1>5, <1>6, <1>8, <1>10, <1>11, <1>12, StepKeeps
<1> QED BY <1>8, <1>13

\* An item that is not matched goes on with its next strategy.
Onward(r, error, ambiguous) ==
  [r EXCEPT !.pc = "match", !.step = @ + 1, !.error = error, !.ambiguous = ambiguous]

LEMMA NextStrategy ==
  ASSUME NEW r \in TaskState, NEW error \in {None, Failed, GaveUp}, NEW ambiguous \in BOOLEAN
  PROVE  LET x == Onward(r, error, ambiguous)
         IN  /\ x \in TaskState /\ x.pc = "match" /\ x.step = r.step + 1 /\ x.status = r.status
             /\ x.target = r.target /\ x.media = r.media /\ x.image = r.image
             /\ x.error = error /\ x.ambiguous = ambiguous
<1>1. r.step + 1 \in Nat \ {0}
  BY DEF TaskState
<1> QED BY <1>1 DEF TaskState, Onward

\* An entry found at a lookup: the item agrees with it, and is in the library.
LEMMA SingleAgrees ==
  ASSUME import \in Imports, NEW t \in Entries, t \in DOMAIN import.entry,
         NEW n \in DOMAIN Lookups(t, import), NEW found \in Found(Lookups(t, import)[n].key),
         LET s == Lookups(t, import)[n]
         IN  Single(Accepted(s.kind, import.entry[t], {import.item[i] : i \in found}))
  PROVE  LET s == Lookups(t, import)[n]
             matches == Accepted(s.kind, import.entry[t], {import.item[i] : i \in found})
             target == (CHOOSE r \in matches : TRUE).id
         IN  target \in DOMAIN import.item /\ Agree(import.entry[t], import.item[target])
<1> DEFINE e == import.entry[t]
           s == Lookups(t, import)[n]
           records == {import.item[i] : i \in found}
           matches == Accepted(s.kind, e, records)
           r == CHOOSE r \in matches : TRUE
<1>1. s \in Possible(e)
  <2>1. Lookups(t, import) \in Seq(Possible(e))
    BY EntryLookups
  <2> HIDE DEF e
  <2> QED BY <2>1
<1>2. Cardinality(matches) = 1
  BY DEF Single
<1> HIDE DEF s
<1>3. r \in matches
  <2>1. matches # {}
    BY <1>2, FS_EmptySet
  <2> HIDE DEF matches
  <2> QED BY <2>1
<1>4. r \in records /\ Agree(e, r)
  <2>1. found \in Found(s.key)
    BY DEF s
  <2> HIDE DEF r, e
  <2> QED BY <1>1, <1>3, <2>1, MatchAgrees
<1>5. PICK i \in found : r = import.item[i]
  BY <1>4
<1>6. i \in DOMAIN import.item
  <2>1. found \in Found(s.key)
    BY DEF s
  <2> HIDE DEF e
  <2> QED BY <1>1, <2>1, FoundItems
<1>7. r.id = i
  <2> HIDE DEF r
  <2> QED BY <1>5, <1>6, ImportAssumption
<1>8. r.id \in DOMAIN import.item /\ Agree(e, import.item[r.id])
  <2> HIDE DEF r, e
  <2> QED BY <1>4, <1>5, <1>6, <1>7
<1> QED BY <1>8 DEF s

\* A person the server knows.
LEMMA FoundPerson ==
  ASSUME NEW t \in Avatars, NEW n \in DOMAIN Lookups(t, import),
         NEW found \in Found(Lookups(t, import)[n].key), NEW p \in found
  PROVE  p \in Persons
<1>1. Lookups(t, import) = <<[kind |-> "person", key |-> <<"person", Avatar[t]>>]>>
  BY DEF Lookups
<1>2. Lookups(t, import)[n].key = <<"person", Avatar[t]>>
  BY <1>1
<1> DEFINE key == <<"person", Avatar[t]>>
<1>3. Len(key) = 2 /\ key[2] = Avatar[t]
  OBVIOUS
<1> HIDE DEF key
<1>4. found \in Found(key)
  BY <1>2 DEF key
<1> QED BY <1>3, <1>4 DEF Found, Persons

\* What a task knows when its lookup returns: the outcome is an error, or what
\* the cache keeps of the server for its key.
LEMMA ReturnFacts ==
  ASSUME IInv, NEW t \in Tasks, LookupReturns(t)
  PROVE  /\ CP!Return(t) /\ CacheMove /\ task[t].pc = "lookup"
         /\ task[t].step \in DOMAIN Lookups(t, import)
         /\ UNCHANGED <<environment, server, cancelled, answer>>
         /\ \A u \in Tasks \ {t} : asking'[u] = asking[u]
         /\ got[t] \notin {Failed, GaveUp} =>
              LET key == Lookups(t, import)[task[t].step].key
              IN  answer[key] # NoAnswer /\ got[t] = answer[key] /\ got[t] \in Found(key)
<1>1. CP!Return(t) /\ task[t].pc = "lookup" /\ UNCHANGED <<environment, server, cancelled>>
  BY DEF LookupReturns, At, Cache!Return, CP!Return
<1>2. CacheMove
  BY <1>1 DEF CacheMove
<1>3. /\ TaskInv(t, task[t]) /\ AnswerInv /\ asking \in [Tasks -> Keys \cup {NoKey}]
  BY DEF IInv, CP!IInv, CP!CacheTypeOK
<1>4. /\ task[t].step \in DOMAIN Lookups(t, import)
      /\ asking[t] = Lookups(t, import)[task[t].step].key
  BY <1>1, <1>3 DEF TaskInv, Placed
<1>5. got[t] # NoAnswer /\ answer' = answer /\ asking' = [asking EXCEPT ![t] = NoKey]
  BY <1>1 DEF CP!Return
<1>6. got[t] \notin {Failed, GaveUp} =>
        answer[asking[t]] # NoAnswer /\ got[t] = answer[asking[t]] /\ got[t] \in Found(asking[t])
  BY <1>3, <1>5 DEF AnswerInv
<1> QED BY <1>1, <1>2, <1>3, <1>4, <1>5, <1>6

\* The task's part of the invariant, for each outcome of a lookup.
LEMMA ReturnKeeps ==
  ASSUME IInv, NEW t \in Tasks, LookupReturns(t)
  PROVE  /\ task' = [task EXCEPT ![t] = task'[t]] /\ task'[t] \in TaskState
         /\ TaskInv(t, task[t])'
<1> DEFINE r == task[t]
           s == Lookups(t, import)[r.step]
           records == {import.item[i] : i \in got[t]}
           matches == Accepted(s.kind, import.entry[t], records)
           target == (CHOOSE m \in matches : TRUE).id
<1>1. /\ r.pc = "lookup" /\ r.step \in DOMAIN Lookups(t, import)
      /\ UNCHANGED <<environment, server, cancelled, answer>>
      /\ got[t] \notin {Failed, GaveUp} =>
           answer[s.key] # NoAnswer /\ got[t] = answer[s.key] /\ got[t] \in Found(s.key)
  BY ReturnFacts
<1>2. /\ r \in TaskState /\ TaskInv(t, r) /\ t \in TasksOf(import)
      /\ r.status = "none" /\ import \in Imports
      /\ t \in Entries => t \in DOMAIN import.entry
  BY <1>1, EnteringFacts DEF Entering
<1>3. /\ import' = import /\ accepted' = accepted /\ mediaOf' = mediaOf
      /\ persisted' = persisted /\ answer' = answer
  BY <1>1 DEF environment, server
<1>4. None \notin {Failed, GaveUp}
  BY ImportAssumption
<1>5. r.step \in Nat \ {0} /\ r.error \in {None, Failed, GaveUp} /\ r.ambiguous \in BOOLEAN
  BY <1>2 DEF TaskState
<1>6. \A n \in DOMAIN Lookups(t, import) : Conclusive(t, n) => Conclusive(t, n)'
  BY <1>2, <1>3, ConclusiveKept
<1>7. ASSUME NEW error \in {None, Failed, GaveUp}, NEW ambiguous \in BOOLEAN,
             Update(t, Onward(r, error, ambiguous)),
             t \in Entries,
             error = None /\ ~ambiguous =>
               r.error = None /\ ~r.ambiguous /\ Conclusive(t, r.step)
      PROVE  /\ task' = [task EXCEPT ![t] = task'[t]] /\ task'[t] \in TaskState
             /\ TaskInv(t, task[t])'
  <2> DEFINE st == Onward(r, error, ambiguous)
  <2>1. /\ st \in TaskState /\ st.pc = "match" /\ st.step = r.step + 1 /\ st.status = "none"
        /\ st.target = r.target /\ st.media = r.media /\ st.image = r.image
        /\ st.error = error /\ st.ambiguous = ambiguous
    <3>1. /\ Onward(r, error, ambiguous) \in TaskState /\ st.pc = "match"
          /\ st.step = r.step + 1 /\ st.status = r.status /\ st.target = r.target
          /\ st.media = r.media /\ st.image = r.image /\ st.error = error
          /\ st.ambiguous = ambiguous
      <4>1. r \in TaskState
        BY <1>2
      <4> HIDE DEF r
      <4> QED BY <4>1, NextStrategy
    <3> QED BY <1>2, <3>1
  <2>2. task' = [task EXCEPT ![t] = st]
    BY <1>7 DEF Update
  <2> HIDE DEF st
  <2>3. task'[t] = st /\ task' = [task EXCEPT ![t] = task'[t]] /\ task'[t] \in TaskState
    BY <2>1, <2>2, Updated
  <2>4. Placed(t, task[t])' /\ Agreed(t, task[t])'
    BY <1>2, <1>3, <2>1, <2>3, TaskKinds DEF TaskInv, Placed, Agreed, Entering
  <2>5. Dry(t, task[t])' /\ Taken(t, task[t])' /\ Reported(t, task[t])'
    BY <1>2, <1>3, <1>7, <2>1, <2>3, TaskKinds
    DEF TaskInv, Dry, Taken, Reported, Writing, Levels
  <2>6. Asked(t, task[t])'
    <3>1. error = None /\ ~ambiguous =>
            \A n \in DOMAIN Lookups(t, import) : n < r.step + 1 => Conclusive(t, n)
      <4> SUFFICES ASSUME error = None, ~ambiguous, NEW n \in DOMAIN Lookups(t, import),
                          n < r.step + 1
                   PROVE  Conclusive(t, n)
        OBVIOUS
      <4>1. n \in Nat
        <5>1. Lookups(t, import) \in Seq(Possible(import.entry[t]))
          BY <1>2, <1>7, EntryLookups
        <5>2. DOMAIN Lookups(t, import) = 1..Len(Lookups(t, import)) /\ Len(Lookups(t, import)) \in Nat
          BY <5>1, LenProperties
        <5> QED BY <5>2
      <4>2. n < r.step \/ n = r.step
        BY <1>5, <4>1
      <4>3. n < r.step => Conclusive(t, n)
        BY <1>1, <1>2, <1>7 DEF TaskInv, Asked, Entering
      <4> QED BY <1>7, <4>2, <4>3
    <3> QED BY <1>3, <1>6, <2>1, <2>3, <3>1 DEF Asked
  <2> QED BY <2>3, <2>4, <2>5, <2>6 DEF TaskInv
<1>8. CASE t \in Entries /\ got[t] \in {Failed, GaveUp}
  <2> DEFINE error == IF r.error = None THEN got[t] ELSE r.error
  <2>1. Update(t, [r EXCEPT !.pc = "match", !.step = @ + 1, !.error = error])
    BY <1>8, TaskKinds DEF LookupReturns
  <2>2. [r EXCEPT !.pc = "match", !.step = @ + 1, !.error = error]
          = Onward(r, error, r.ambiguous)
    BY <1>2 DEF TaskState, Onward
  <2>3. error \in {None, Failed, GaveUp} /\ error # None
    BY <1>4, <1>5, <1>8
  <2> HIDE DEF error
  <2> QED BY <1>5, <1>7, <1>8, <2>1, <2>2, <2>3
<1>9. CASE t \in Avatars /\ got[t] \in {Failed, GaveUp, {}}
  <2> DEFINE st == End(r, "failed")
  <2>1. task' = [task EXCEPT ![t] = st]
    <3>1. t \notin Entries
      BY <1>9, TaskKinds
    <3> QED BY <1>9, <3>1 DEF LookupReturns, Update
  <2>2. /\ st \in TaskState /\ st.pc = "end" /\ st.status = "failed" /\ Same(st, r)
        /\ st.media = r.media /\ st.image = r.image
    BY <1>2, EndState
  <2> HIDE DEF st
  <2>3. task'[t] = st /\ task' = [task EXCEPT ![t] = task'[t]] /\ task'[t] \in TaskState
    BY <2>1, <2>2, Updated
  <2> QED BY <1>3, <2>2, <2>3, EndKeeps DEF Same
<1>10. CASE t \in Avatars /\ got[t] \notin {Failed, GaveUp, {}}
  <2> DEFINE p == CHOOSE p \in got[t] : TRUE
             st == [r EXCEPT !.pc = "image", !.target = p]
  <2>1. p \in Persons
    <3>1. p \in got[t]
      BY <1>10
    <3> HIDE DEF p
    <3> QED BY <1>1, <1>10, <3>1, FoundPerson
  <2>2. task' = [task EXCEPT ![t] = st]
    BY <1>10, TaskKinds DEF LookupReturns, Update
  <2> HIDE DEF p
  <2>3. /\ st \in TaskState /\ st.pc = "image" /\ st.status = "none"
        /\ st.media = r.media /\ st.image = r.image
    BY <1>2, <2>1 DEF TaskState
  <2> HIDE DEF st
  <2>4. task'[t] = st /\ task' = [task EXCEPT ![t] = task'[t]] /\ task'[t] \in TaskState
    BY <2>2, <2>3, Updated
  <2>5. Placed(t, task[t])' /\ Agreed(t, task[t])' /\ Taken(t, task[t])' /\ Asked(t, task[t])'
    BY <1>2, <1>3, <1>10, <2>3, <2>4, TaskKinds DEF Placed, Agreed, Taken, Asked, Entering
  <2>6. Dry(t, task[t])' /\ Reported(t, task[t])'
    BY <1>1, <1>2, <1>3, <1>10, <2>3, <2>4 DEF TaskInv, Dry, Reported
  <2> QED BY <2>4, <2>5, <2>6 DEF TaskInv
<1>11. CASE t \in Entries /\ got[t] \notin {Failed, GaveUp} /\ Single(matches)
  <2> DEFINE g == Goto(r, "info")
             st == [g EXCEPT !.target = target]
  <2>1. target \in DOMAIN import.item /\ Agree(import.entry[t], import.item[target])
    BY <1>1, <1>2, <1>11, SingleAgrees
  <2>2. task' = [task EXCEPT ![t] = st]
    BY <1>11, TaskKinds DEF LookupReturns, Update
  <2>3. target \in Items
    <3> HIDE DEF target
    <3> QED BY <1>2, <2>1 DEF Items
  <2> HIDE DEF target
  <2>4. /\ g \in TaskState /\ g.pc = "info" /\ g.status = "none"
        /\ g.media = r.media /\ g.image = r.image
    BY <1>2, GotoState
  <2> HIDE DEF g
  <2>5. /\ st \in TaskState /\ st.pc = "info" /\ st.status = "none" /\ st.target = target
        /\ st.media = r.media /\ st.image = r.image
    BY <2>3, <2>4 DEF TaskState
  <2> HIDE DEF st
  <2>6. task'[t] = st /\ task' = [task EXCEPT ![t] = task'[t]] /\ task'[t] \in TaskState
    BY <2>2, <2>5, Updated
  <2>7. Placed(t, task[t])' /\ Agreed(t, task[t])'
    BY <1>2, <1>3, <1>11, <2>1, <2>5, <2>6, TaskKinds DEF Placed, Agreed
  <2>8. Dry(t, task[t])' /\ Taken(t, task[t])' /\ Reported(t, task[t])' /\ Asked(t, task[t])'
    BY <1>2, <1>3, <1>11, <2>5, <2>6, TaskKinds
    DEF TaskInv, Dry, Taken, Reported, Asked, Writing, Levels, Entering
  <2> QED BY <2>6, <2>7, <2>8 DEF TaskInv
<1>12. CASE t \in Entries /\ got[t] \notin {Failed, GaveUp} /\ ~Single(matches)
  <2> DEFINE doubt == Ambiguous(s.kind, import.entry[t], records)
             ambiguous == r.ambiguous \/ doubt
  <2>1. Update(t, [r EXCEPT !.pc = "match", !.step = @ + 1, !.ambiguous = ambiguous])
    BY <1>12, TaskKinds DEF LookupReturns
  <2>2. [r EXCEPT !.pc = "match", !.step = @ + 1, !.ambiguous = ambiguous]
          = Onward(r, r.error, ambiguous)
    BY <1>2 DEF TaskState, Onward
  <2>3. ~doubt => Conclusive(t, r.step)
    BY <1>1, <1>12 DEF Conclusive
  <2>4. ambiguous \in BOOLEAN /\ (~ambiguous => ~r.ambiguous /\ ~doubt)
    BY <1>5
  <2> HIDE DEF ambiguous, doubt
  <2> QED BY <1>5, <1>7, <1>12, <2>1, <2>2, <2>3, <2>4
<1> QED BY <1>8, <1>9, <1>10, <1>11, <1>12, TaskKinds

LEMMA LookupReturnsStep ==
  ASSUME IInv, NEW t \in Tasks, LookupReturns(t)
  PROVE  IInv' /\ CacheMove
<1>1. /\ CacheMove /\ UNCHANGED <<environment, server, cancelled>>
      /\ \A u \in Tasks \ {t} : asking'[u] = asking[u]
  BY ReturnFacts
<1>2. /\ import' = import /\ accepted' = accepted /\ mediaOf' = mediaOf
      /\ persisted' = persisted /\ cancelled' = cancelled /\ faults' = faults
  BY <1>1 DEF environment, server
<1>3. /\ accepted' \in [Tasks -> SUBSET (Levels \cup {"image"})]
      /\ mediaOf' \in [Items -> Entries \cup {None}]
      /\ persisted' \subseteq Entries /\ PersistedInv' /\ faults' \in 0..import.faults
  BY <1>2 DEF IInv, TypeOK, PersistedInv
<1>4. /\ task' = [task EXCEPT ![t] = task'[t]] /\ task'[t] \in TaskState
      /\ TaskInv(t, task[t])'
  BY ReturnKeeps
<1>5. IInv'
  BY <1>1, <1>2, <1>3, <1>4, StepKeeps
<1> QED BY <1>1, <1>5

\* The strategies are used up: the next one is behind the last.
LEMMA AllTried ==
  ASSUME import \in Imports, NEW t \in Entries, t \in DOMAIN import.entry,
         NEW step \in Nat \ {0}
  PROVE  /\ \A n \in DOMAIN Lookups(t, import) : ~(n < 1)
         /\ step \notin DOMAIN Lookups(t, import) =>
              \A n \in DOMAIN Lookups(t, import) : n < step
<1> DEFINE s == Lookups(t, import)
<1>1. s \in Seq(Possible(import.entry[t]))
  BY EntryLookups
<1>2. DOMAIN s = 1..Len(s) /\ Len(s) \in Nat
  <2> HIDE DEF s
  <2> QED BY <1>1, LenProperties
<1> HIDE DEF s
<1>3. /\ \A n \in DOMAIN s : ~(n < 1)
      /\ step \notin DOMAIN s => \A n \in DOMAIN s : n < step
  BY <1>2
<1> QED BY <1>3 DEF s

LEMMA MatchEndsStep ==
  ASSUME IInv, NEW t \in Tasks, MatchEnds(t) \/ NotStarted(t)
  PROVE  IInv'
<1> DEFINE r == task[t]
<1>1. r.pc = "match" /\ UNCHANGED <<cache, environment, server, cancelled>>
  BY DEF MatchEnds, NotStarted, At
<1>2. /\ r \in TaskState /\ TaskInv(t, r) /\ t \in TasksOf(import)
      /\ r.status = "none" /\ import \in Imports
      /\ t \in Entries => t \in DOMAIN import.entry
  BY <1>1, EnteringFacts DEF Entering
<1>3. /\ import' = import /\ accepted' = accepted /\ persisted' = persisted /\ answer' = answer
  BY <1>1 DEF environment, server, cache
<1>4. \A n \in DOMAIN Lookups(t, import) : Conclusive(t, n) => Conclusive(t, n)'
  BY <1>2, <1>3, ConclusiveKept
<1>5. CASE \E status \in {"ambiguous", "failed"} : Update(t, End(r, status))
  <2>1. PICK status \in {"ambiguous", "failed"} : task' = [task EXCEPT ![t] = End(r, status)]
    BY <1>5 DEF Update
  <2>2. /\ End(r, status) \in TaskState /\ End(r, status).pc = "end"
        /\ End(r, status).status = status /\ Same(End(r, status), r)
        /\ End(r, status).media = r.media /\ End(r, status).image = r.image
    BY <1>2, EndState
  <2>3. /\ task'[t] = End(r, status) /\ task' = [task EXCEPT ![t] = task'[t]]
        /\ task'[t] \in TaskState
    BY <2>1, <2>2, Updated
  <2>4. TaskInv(t, task[t])'
    BY <1>3, <2>2, <2>3, EndKeeps DEF Same
  <2> QED BY <1>1, <2>3, <2>4, QuietKeeps
<1>6. CASE /\ Update(t, End(r, "unmatched")) /\ ~r.ambiguous /\ r.error = None
           /\ r.step \notin DOMAIN Lookups(t, import)
  <2>1. task' = [task EXCEPT ![t] = End(r, "unmatched")]
    BY <1>6 DEF Update
  <2> DEFINE st == End(r, "unmatched")
  <2>2. /\ st \in TaskState /\ st.pc = "end" /\ st.status = "unmatched" /\ Same(st, r)
        /\ st.media = r.media /\ st.image = r.image
    BY <1>2, EndState
  <2> HIDE DEF st
  <2>3. task'[t] = st /\ task' = [task EXCEPT ![t] = task'[t]] /\ task'[t] \in TaskState
    BY <2>1, <2>2, Updated DEF st
  <2>4. /\ Placed(t, task[t])' /\ Dry(t, task[t])' /\ Agreed(t, task[t])'
        /\ Taken(t, task[t])' /\ Reported(t, task[t])'
    BY <1>2, <1>3, <2>2, <2>3
    DEF TaskInv, Placed, Dry, Agreed, Taken, Reported, Same, Writing, Levels
  <2>5. t \in Entries => \A n \in DOMAIN Lookups(t, import) : Conclusive(t, n)
    <3>1. r.step \in Nat \ {0}
      BY <1>2 DEF TaskState
    <3>2. t \in Entries => \A n \in DOMAIN Lookups(t, import) : n < r.step
      BY <1>2, <1>6, <3>1, AllTried
    <3> QED BY <1>1, <1>2, <1>6, <3>2 DEF TaskInv, Asked, Entering
  <2>6. Asked(t, task[t])'
    BY <1>2, <1>3, <1>4, <2>2, <2>3, <2>5 DEF Asked, Entering
  <2>7. TaskInv(t, task[t])'
    BY <2>4, <2>6 DEF TaskInv
  <2> QED BY <1>1, <2>3, <2>7, QuietKeeps
<1>7. CASE /\ r.attempt < Attempts /\ ~r.ambiguous
           /\ Update(t, [r EXCEPT !.step = 1, !.error = None, !.attempt = @ + 1])
  <2> DEFINE st == [r EXCEPT !.step = 1, !.error = None, !.attempt = @ + 1]
  <2>1. task' = [task EXCEPT ![t] = st]
    BY <1>7 DEF Update
  <2>2. /\ st \in TaskState /\ st.pc = "match" /\ st.step = 1 /\ st.status = "none"
        /\ st.target = r.target /\ st.media = r.media /\ st.image = r.image
    <3>1. r.attempt + 1 \in 1..Attempts
      BY <1>2, <1>7 DEF TaskState, Attempts
    <3>2. 1 \in Nat \ {0}
      OBVIOUS
    <3> HIDE DEF r
    <3>3. r \in TaskState /\ r.pc = "match" /\ r.status = "none"
      BY <1>1, <1>2 DEF r
    <3> QED BY <3>1, <3>2, <3>3 DEF TaskState
  <2> HIDE DEF st
  <2>3. task'[t] = st /\ task' = [task EXCEPT ![t] = task'[t]] /\ task'[t] \in TaskState
    BY <2>1, <2>2, Updated
  <2>4. /\ Placed(t, task[t])' /\ Dry(t, task[t])' /\ Agreed(t, task[t])'
        /\ Taken(t, task[t])' /\ Reported(t, task[t])'
    BY <1>1, <1>2, <1>3, <2>2, <2>3
    DEF TaskInv, Placed, Dry, Agreed, Taken, Reported, Writing, Levels, Entering
  <2>5. t \in Entries => \A n \in DOMAIN Lookups(t, import) : ~(n < 1)
    <3>1. r.step \in Nat \ {0}
      BY <1>2 DEF TaskState
    <3> QED BY <1>2, <3>1, AllTried
  <2>6. Asked(t, task[t])'
    BY <1>3, <2>2, <2>3, <2>5 DEF Asked
  <2>7. TaskInv(t, task[t])'
    BY <2>4, <2>6 DEF TaskInv
  <2> QED BY <1>1, <2>3, <2>7, QuietKeeps
<1> QED BY <1>5, <1>6, <1>7 DEF MatchEnds, NotStarted

LEMMA ReadInfoStep ==
  ASSUME IInv, NEW t \in Tasks, ReadInfo(t)
  PROVE  IInv'
<1> DEFINE r == task[t]
<1>1. r.pc = "info" /\ UNCHANGED <<cache, environment, server, cancelled>>
  BY DEF ReadInfo, At
<1>2. r \in TaskState /\ TaskInv(t, r) /\ TypeOK
  BY DEF IInv, TypeOK
<1>3. /\ t \in Entries /\ t \in TasksOf(import) /\ r.target \in DOMAIN import.item
      /\ r.status = "none"
  BY <1>1, <1>2, TaskKinds DEF TaskInv, Placed, Asked, Entering
<1>4. import' = import /\ accepted' = accepted /\ persisted' = persisted
  BY <1>1 DEF environment, server
<1>5. CASE Update(t, End(r, "failed"))
  <2>1. task' = [task EXCEPT ![t] = End(r, "failed")]
    BY <1>5 DEF Update
  <2>2. /\ End(r, "failed") \in TaskState /\ End(r, "failed").pc = "end"
        /\ End(r, "failed").status = "failed" /\ Same(End(r, "failed"), r)
        /\ End(r, "failed").media = r.media /\ End(r, "failed").image = r.image
    BY <1>2, EndState
  <2>3. /\ task'[t] = End(r, "failed") /\ task' = [task EXCEPT ![t] = task'[t]]
        /\ task'[t] \in TaskState
    BY <2>1, <2>2, Updated
  <2>4. TaskInv(t, task[t])'
    BY <1>4, <2>2, <2>3, EndKeeps DEF Same
  <2> QED BY <1>1, <2>3, <2>4, QuietKeeps
<1>6. ASSUME NEW st \in TaskState, Update(t, st), Same(st, r), st.image = r.image,
             \/ st.pc = "detail" /\ st.status = r.status /\ st.media = r.media
             \/ /\ st.media # "updated"
                /\ \/ import.dryRun /\ st.pc = "end" /\ st.status = "matched"
                   \/ ~import.dryRun /\ st.pc = "full" /\ st.status = r.status
      PROVE  IInv'
  <2>1. task'[t] = st /\ task' = [task EXCEPT ![t] = task'[t]] /\ task'[t] \in TaskState
    BY <1>6, Updated DEF Update
  <2>2. TaskInv(t, task[t])'
    <3>1. Placed(t, task[t])' /\ Agreed(t, task[t])'
      BY <1>2, <1>3, <1>4, <1>6, <2>1, TaskKinds DEF TaskInv, Placed, Agreed, Same
    <3>2. Dry(t, task[t])' /\ Taken(t, task[t])'
      BY <1>3, <1>4, <1>6, <2>1, TaskKinds DEF Dry, Taken, Writing, Levels
    <3>3. Reported(t, task[t])' /\ Asked(t, task[t])'
      BY <1>2, <1>3, <1>4, <1>6, <2>1 DEF TaskInv, Reported, Asked, Entering
    <3> QED BY <3>1, <3>2, <3>3 DEF TaskInv
  <2> QED BY <1>1, <2>1, <2>2, QuietKeeps
<1>7. CASE Update(t, Goto(r, "detail"))
  <2>1. /\ Goto(r, "detail") \in TaskState /\ Goto(r, "detail").pc = "detail"
        /\ Same(Goto(r, "detail"), r) /\ Goto(r, "detail").status = r.status
        /\ Goto(r, "detail").media = r.media /\ Goto(r, "detail").image = r.image
    BY <1>2, GotoState
  <2> QED BY <1>6, <1>7, <2>1
<1>8. CASE \E media \in {"none", "planned", "skipped"} : Update(t, ToWrite(t, media))
  <2>1. PICK media \in {"none", "planned", "skipped"} : Update(t, ToWrite(t, media))
    BY <1>8
  <2>2. /\ ToWrite(t, media) \in TaskState /\ ToWrite(t, media).media = media
        /\ Same(ToWrite(t, media), r) /\ ToWrite(t, media).image = r.image
        /\ \/ import.dryRun /\ ToWrite(t, media).pc = "end" /\ ToWrite(t, media).status = "matched"
           \/ /\ ~import.dryRun /\ ToWrite(t, media).pc = "full"
              /\ ToWrite(t, media).status = r.status
    BY <1>2, ToWriteState DEF Medias
  <2> QED BY <1>6, <2>1, <2>2
<1> QED BY <1>5, <1>7, <1>8 DEF ReadInfo

LEMMA ImageNotSentStep ==
  ASSUME IInv, NEW t \in Tasks, ImageNotSent(t)
  PROVE  IInv'
<1> DEFINE r == task[t]
<1>1. /\ r.pc = "image" /\ t \in Entries /\ UNCHANGED <<cache, environment, server, cancelled>>
  BY DEF ImageNotSent, At
<1>2. r \in TaskState /\ TaskInv(t, r) /\ TypeOK /\ r.failed \in BOOLEAN
  BY DEF IInv, TypeOK, TaskState
<1>3. PICK image \in {"none", "failed"} : Update(t, Ended(t, image, r.failed))
  BY DEF ImageNotSent
<1> DEFINE st == Ended(t, image, r.failed)
<1>4. /\ st \in TaskState /\ st.media = r.media /\ Same(st, r) /\ st.pc = "end"
      /\ st.image = image /\ st.status = (IF r.failed THEN "failed" ELSE "updated")
  BY <1>2, EndedState
<1> HIDE DEF st
<1>5. task'[t] = st /\ task' = [task EXCEPT ![t] = task'[t]] /\ task'[t] \in TaskState
  BY <1>3, <1>4, Updated DEF st, Update
<1>6. import' = import /\ accepted' = accepted /\ persisted' = persisted
  BY <1>1 DEF environment, server
<1>7. ~r.failed => accepted[t] \cap Levels # {}
  BY <1>1, <1>2 DEF TaskInv, Taken
<1>8. TaskInv(t, task[t])'
  <2>1. Placed(t, task[t])' /\ Dry(t, task[t])' /\ Agreed(t, task[t])' /\ Taken(t, task[t])'
    BY <1>1, <1>2, <1>4, <1>5, <1>6, TaskKinds
    DEF TaskInv, Placed, Dry, Agreed, Taken, Same, Writing, Levels
  <2>2. Reported(t, task[t])'
    BY <1>1, <1>2, <1>4, <1>5, <1>6, <1>7 DEF TaskInv, Reported
  <2>3. Asked(t, task[t])'
    BY <1>4, <1>5 DEF Asked, Entering
  <2> QED BY <2>1, <2>2, <2>3 DEF TaskInv
<1> QED BY <1>1, <1>5, <1>8, QuietKeeps

-----------------------------------------------------------------------------
(* Every step of the import *)

LEMMA InitInv == Init => IInv
<1> SUFFICES ASSUME Init PROVE IInv
  OBVIOUS
<1>1. CP!CacheInit
  BY DEF Init, Cache!CacheInit, CP!CacheInit
<1>2. CP!IInv
  BY <1>1, Sentinels, CP!InitInv
<1>3. AnswerInv
  BY <1>1 DEF CP!CacheInit, AnswerInv
<1>4. Cache!CacheTypeOK
  BY <1>2 DEF CP!IInv, Cache!CacheTypeOK, CP!CacheTypeOK
<1>5. import \in Imports /\ import.faults \in Nat
  BY ImportAssumption DEF Init
<1>6. Fresh \in TaskState /\ [Fresh EXCEPT !.pc = "end"] \in TaskState
  <2>1. 1 \in Nat \ {0} /\ 1 \in 1..Attempts
    BY DEF Attempts
  <2>2. Fresh \in TaskState
    BY <2>1 DEF Fresh, TaskState
  <2>3. [Fresh EXCEPT !.pc = "end"] \in TaskState
    BY <2>2 DEF TaskState
  <2> QED BY <2>2, <2>3
<1>7. \A t \in Tasks :
        task[t] = IF t \in TasksOf(import) THEN Fresh ELSE [Fresh EXCEPT !.pc = "end"]
  BY DEF Init
<1>8. task \in [Tasks -> TaskState]
  <2>1. task = [t \in Tasks |-> IF t \in TasksOf(import) THEN Fresh
                                ELSE [Fresh EXCEPT !.pc = "end"]]
    BY DEF Init
  <2> QED BY <1>6, <2>1
<1>9. TypeOK
  <2>1. /\ accepted \in [Tasks -> SUBSET (Levels \cup {"image"})]
        /\ mediaOf \in [Items -> Entries \cup {None}]
        /\ persisted \subseteq Entries /\ cancelled \in BOOLEAN
    BY DEF Init
  <2>2. faults \in 0..import.faults
    BY <1>5 DEF Init
  <2> QED BY <1>4, <1>5, <1>8, <2>1, <2>2 DEF TypeOK
<1>10. PersistedInv
  <2>1. \A i \in Items : mediaOf[i] = None
    BY DEF Init
  <2> QED BY <2>1, ImportAssumption DEF PersistedInv
<1>11. ASSUME NEW t \in Tasks
       PROVE  TaskInv(t, task[t])
  <2>1. /\ task[t].pc \in {"match", "end"} /\ task[t].step = 1 /\ task[t].status = "none"
        /\ task[t].target = None /\ task[t].media = "none" /\ task[t].image = "none"
        /\ task[t].pc = "match" => t \in TasksOf(import)
    BY <1>7 DEF Fresh
  <2>2. Placed(t, task[t]) /\ Dry(t, task[t]) /\ Agreed(t, task[t]) /\ Taken(t, task[t])
        /\ Reported(t, task[t])
    BY <2>1 DEF Placed, Dry, Agreed, Taken, Reported, Writing, Levels, Entering
  <2>3. Asked(t, task[t])
    <3>1. t \in Entries /\ t \in TasksOf(import) => t \in DOMAIN import.entry
      BY <1>5, ImportAssumption DEF TasksOf
    <3>2. t \in Entries /\ t \in TasksOf(import) =>
            \A n \in DOMAIN Lookups(t, import) : ~(n < 1)
      BY <1>5, <3>1, AllTried
    <3> QED BY <2>1, <3>2 DEF Asked, Entering
  <2> QED BY <2>2, <2>3 DEF TaskInv
<1> QED BY <1>2, <1>3, <1>9, <1>10, <1>11 DEF IInv

\* Every step keeps the invariant, and moves the cache as LookupCache does.
LEMMA NextInv == IInv /\ [Next]_vars => IInv' /\ import' = import /\ CacheMove
<1> SUFFICES ASSUME IInv, [Next]_vars
             PROVE  IInv' /\ import' = import /\ CacheMove
  OBVIOUS
<1>1. ASSUME UNCHANGED cache
      PROVE  CacheMove
  BY <1>1 DEF CacheMove
<1>2. CASE Cancel \/ UNCHANGED vars
  <2>1. UNCHANGED <<cache, environment, task, server>> /\ cancelled' \in BOOLEAN
    BY <1>2 DEF Cancel, vars, server, IInv, TypeOK
  <2>2. asking' = asking /\ import' = import
    BY <2>1 DEF cache, environment
  <2> QED BY <1>1, <2>1, <2>2, CacheKeeps
<1>3. ASSUME NEW t \in Tasks, Lookup(t)
      PROVE  IInv' /\ import' = import /\ CacheMove
  BY <1>3, LookupStep DEF Lookup, environment
<1>4. ASSUME NEW t \in Tasks, FetchSucceeds(t) \/ FetchFails(t) \/ WaiterGivesUp(t)
      PROVE  IInv' /\ import' = import /\ CacheMove
  BY <1>4, FetchStep DEF FetchSucceeds, FetchFails, WaiterGivesUp, environment
<1>5. ASSUME NEW t \in Tasks, LookupReturns(t)
      PROVE  IInv' /\ import' = import /\ CacheMove
  BY <1>5, LookupReturnsStep DEF LookupReturns, environment
<1>6. ASSUME NEW t \in Tasks, MatchEnds(t) \/ NotStarted(t)
      PROVE  IInv' /\ import' = import /\ CacheMove
  BY <1>1, <1>6, MatchEndsStep DEF MatchEnds, NotStarted, environment
<1>7. ASSUME NEW t \in Tasks, ReadInfo(t) \/ ImageNotSent(t)
      PROVE  IInv' /\ import' = import /\ CacheMove
  BY <1>1, <1>7, ReadInfoStep, ImageNotSentStep DEF ReadInfo, ImageNotSent, environment
<1>8. ASSUME NEW t \in Tasks,
             RequestAnswered(t) \/ RequestLost(t) \/ RequestFails(t) \/ RequestCancelled(t)
      PROVE  IInv' /\ import' = import /\ CacheMove
  BY <1>1, <1>8, RequestStep
  DEF RequestAnswered, RequestLost, RequestFails, RequestCancelled, environment
<1> QED BY <1>2, <1>3, <1>4, <1>5, <1>6, <1>7, <1>8 DEF Next, TaskStep

-----------------------------------------------------------------------------
(* The theorems *)

\* importItem and importPersonImage, by any number of workers, keep the invariant
\* of the tasks, the shared cache and the server.
THEOREM Invariant == Spec => []IInv
BY InitInv, NextInv, PTL DEF Spec

\* Every variable keeps its type.
THEOREM TypeCorrect == Spec => []TypeOK
<1>1. IInv => TypeOK
  BY DEF IInv
<1> QED BY <1>1, Invariant, PTL

\* An item is never written with the metadata of a title it has nothing in
\* common with but the name (itemMatches, chooseUniqueMatch).
THEOREM TargetsAreTrue == Spec => []TargetsAgree
<1>1. IInv => TargetsAgree
  BY TaskKinds DEF IInv, TaskInv, Agreed, TargetsAgree
<1> QED BY <1>1, Invariant, PTL

\* The report is what the server took, after lost answers and fallbacks too
\* (importItem, importPersonImage).
THEOREM ReportsAreTrue == Spec => []ReportIsTrue
<1>1. IInv => ReportIsTrue
  BY DEF IInv, TaskInv, Reported, ReportIsTrue
<1> QED BY <1>1, Invariant, PTL

\* "Unmatched" is said of an entry only after the server has answered every one
\* of its lookups, and none of the answers left a single item, nor several
\* (matchEmbyItem; a failed lookup is an error, never an empty answer).
THEOREM UnmatchedWasAnswered == Spec => []UnmatchedIsConclusive
<1>1. IInv => UnmatchedIsConclusive
  BY TaskKinds DEF IInv, TaskInv, Asked, UnmatchedIsConclusive
<1> QED BY <1>1, Invariant, PTL

\* Who is accepted as the only candidate of a lookup stays a candidate beside
\* others, since these lookups judge every item by itself.
LEMMA StaysCandidate ==
  ASSUME NEW kind \in {"stem", "provider", "episode", "season"}, NEW e, NEW items,
         NEW y \in items, y \in Accepted(kind, e, {y})
  PROVE  y \in Accepted(kind, e, items) /\ Accepted(kind, e, items) \subseteq items
BY DEF Accepted, MediaStemMatches, SeasonMatches, EpisodeMatches

\* What a search by file, series or season looks for and a conclusive answer
\* does not contain was left out of it; other lookups look for nothing then.
LEMMA ConclusiveNone ==
  ASSUME IInv, NEW e \in Entries, NEW n \in DOMAIN Lookups(e, import),
         Lookups(e, import)[n] \in Possible(import.entry[e]), Lookups(e, import)[n].key \in Keys,
         Conclusive(e, n), NEW i \in DOMAIN import.item,
         LooksFor(Lookups(e, import)[n], import.entry[e], import.item[i])
  PROVE  /\ Lookups(e, import)[n].kind \in {"stem", "episode", "season"}
         /\ LeftOut(e, i, Lookups(e, import)[n].kind)
<1> DEFINE s == Lookups(e, import)[n]
           x == import.entry[e]
           y == import.item[i]
           found == answer[s.key]
           records == {import.item[j] : j \in found}
           matches == Accepted(s.kind, x, records)
<1>1. /\ Len(s.key) # 2
      /\ s.kind \in {"stem", "provider", "episode", "season"} \cup {"name", "short", "original"}
      /\ LimitOf(s.key) \in Nat \ {0}
  BY LimitAssumption DEF Possible, Search, LimitOf
<1>2. /\ found # NoAnswer /\ found \in Shown(s.key) /\ i \in Hits(s.key)
      /\ Hits(s.key) \subseteq DOMAIN import.item
  BY <1>1 DEF IInv, AnswerInv, Conclusive, Found, LooksFor, Hits
<1>3. ~Single(matches) /\ ~Ambiguous(s.kind, x, records)
  BY DEF Conclusive
<1>4. found \subseteq Hits(s.key) /\ (found = Hits(s.key) \/ Cut(s.key))
  BY <1>2 DEF Shown
<1>5. IsFiniteSet(found)
  <2>1. IsFiniteSet(DOMAIN import.item)
    BY ImportAssumption DEF IInv, TypeOK
  <2> HIDE DEF found, s
  <2> QED BY <1>2, <1>4, <2>1, FS_Subset
<1>6. IsFiniteSet(records)
  <2> DEFINE f == [j \in found |-> import.item[j]]
  <2>1. f \in Surjection(found, records)
    BY DEF Surjection
  <2> HIDE DEF f, records, found
  <2> QED BY <1>5, <2>1, FS_Surjection
<1>7. found # {}
  <2>1. Cut(s.key) => Cardinality(found) >= LimitOf(s.key)
    BY <1>2 DEF Shown
  <2>2. Cardinality({}) = 0
    BY FS_EmptySet
  <2> HIDE DEF found, s
  <2> QED BY <1>1, <1>2, <1>4, <2>1, <2>2
<1>8. records # {}
  BY <1>7
<1>9. LooksFor(s, x, y)
  OBVIOUS
<1>10. i \in found => y \in records
  OBVIOUS
<1> HIDE DEF s, x, y, found, records
<1>11. s.kind \in {"stem", "provider", "episode", "season"} /\ y \in Accepted(s.kind, x, {y})
  BY <1>1, <1>3, <1>8, <1>9 DEF Ambiguous, LooksFor
<1>12. ASSUME matches # {}, matches \subseteq records PROVE FALSE
  <2>1. IsFiniteSet(matches)
    BY <1>6, <1>12, FS_Subset
  <2>2. Cardinality(matches) \in Nat /\ Cardinality(matches) # 0
    BY <1>12, <2>1, FS_CardinalityType, FS_EmptySet
  <2>3. Cardinality(matches) # 1 /\ ~(Cardinality(matches) > 1)
    BY <1>3, <1>11 DEF Single, Ambiguous
  <2> QED BY <2>2, <2>3
<1>13. i \notin found
  BY <1>10, <1>11, <1>12, StaysCandidate
<1>14. s.kind # "provider"
  BY <1>8, <1>12 DEF Accepted
<1> QED BY <1>2, <1>4, <1>11, <1>13, <1>14 DEF LeftOut, s, found

\* What a lookup of an entry that is unmatched looks for was left out of the
\* answer of the server, and the lookup is a search by file, series or season.
LEMMA UnmatchedNotLookedFor ==
  ASSUME IInv, NEW e \in Entries, task[e].status = "unmatched", NEW i \in DOMAIN import.item
  PROVE  /\ import \in Imports /\ e \in DOMAIN import.entry
         /\ IsSequence(import.entry[e].providers)
         /\ \A n \in DOMAIN Strategies(import.entry[e]) :
              LET s == Strategies(import.entry[e])[n]
              IN  LooksFor(s, import.entry[e], import.item[i]) =>
                    s.kind \in {"stem", "episode", "season"} /\ LeftOut(e, i, s.kind)
<1> DEFINE x == import.entry[e]
           L == Lookups(e, import)
<1>1. /\ import \in Imports /\ e \in TasksOf(import)
      /\ \A n \in DOMAIN L : Conclusive(e, n)
  BY TaskKinds DEF IInv, TypeOK, TaskInv, Asked
<1>2. e \in DOMAIN import.entry
  BY <1>1, ImportAssumption DEF TasksOf
<1>3. L = Strategies(x) /\ IsSequence(x.providers)
  BY <1>1, <1>2, ImportAssumption DEF Lookups
<1>4. \A n \in DOMAIN L : L[n] \in Possible(x)
  <2>1. L \in Seq(Possible(x))
    BY <1>3, StrategiesType
  <2> HIDE DEF L, x
  <2> QED BY <2>1, LenProperties
<1>5. \A n \in DOMAIN L : L[n].key \in Keys
  BY <1>1, LookupKeys
<1>6. \A n \in DOMAIN L : LooksFor(L[n], x, import.item[i]) =>
        L[n].kind \in {"stem", "episode", "season"} /\ LeftOut(e, i, L[n].kind)
  BY <1>1, <1>4, <1>5, ConclusiveNone
<1> QED BY <1>1, <1>2, <1>3, <1>6

\* Nothing of the server shares a provider id or a title with an entry that is
\* reported as unmatched, and the file name only what the limit of the search for
\* its prefix left out, whatever lookups failed, were retried or were shared with
\* another worker (findMatchWithCache, itemLookup).
THEOREM UnmatchedSharesNothing == Spec => []UnmatchedIsNowhere
<1>1. IInv => UnmatchedIsNowhere
  <2> SUFFICES ASSUME IInv, NEW e \in Entries, task[e].status = "unmatched",
                      NEW i \in DOMAIN import.item
               PROVE  /\ ~SharesIdentity(import.entry[e], import.item[i])
                      /\ SharesFile(import.entry[e], import.item[i]) => LeftOut(e, i, "stem")
    BY DEF UnmatchedIsNowhere
  <2> DEFINE x == import.entry[e]
             y == import.item[i]
             L == Strategies(x)
  <2>1. IsSequence(x.providers)
    BY UnmatchedNotLookedFor
  <2>2. ASSUME NEW s, Has(L, s), LooksFor(s, x, y)
        PROVE  s.kind \in {"stem", "episode", "season"} /\ LeftOut(e, i, s.kind)
    <3>1. PICK n \in DOMAIN L : L[n] = s
      BY <2>2 DEF Has
    <3> QED BY <2>2, <3>1, UnmatchedNotLookedFor
  <2>3. ASSUME \E n \in DOMAIN x.providers, m \in DOMAIN y.providers : x.providers[n] = y.providers[m]
        PROVE  FALSE
    <3>1. PICK n \in DOMAIN x.providers, m \in DOMAIN y.providers : x.providers[n] = y.providers[m]
      BY <2>3
    <3> DEFINE s == [kind |-> "provider", key |-> <<x.providers[n]>>]
    <3>2. s.kind = "provider" /\ Len(s.key) = 1 /\ s.key[1] = x.providers[n]
      OBVIOUS
    <3>3. Has(L, s)
      BY <2>1, StrategiesType
    <3> HIDE DEF s
    <3>4. Finds(s.key, y) /\ y \in Accepted(s.kind, x, {y})
      BY <3>1, <3>2 DEF Finds, Accepted
    <3> QED BY <2>2, <3>2, <3>3, <3>4 DEF LooksFor
  <2>4. ASSUME NEW kind, NEW term, NEW limit, SameType(x.type, y),
               term \in {y.name, y.original, SearchPrefix[y.stem]}
        PROVE  LET s == Search(kind, term, x.type, limit)
               IN  s.kind = kind /\ Finds(s.key, y)
    <3> HIDE DEF x, y
    <3> QED BY <2>4 DEF Search, Finds
  <2>5. ASSUME SharesFile(x, y) PROVE LeftOut(e, i, "stem")
    <3>0. SameType(x.type, y) /\ x.type # "Season" /\ x.stem # None /\ x.stem = y.stem
      BY <2>5 DEF SharesFile
    <3> DEFINE s == Search("stem", SearchPrefix[x.stem], x.type, "stem")
    <3>1. Has(L, s)
      BY <2>1, <3>0, StrategiesType
    <3>2. s.kind = "stem" /\ Finds(s.key, y)
      BY <2>4, <3>0
    <3> HIDE DEF x, y, L, s
    <3>3. y \in Accepted(s.kind, x, {y})
      BY <3>0, <3>2 DEF Accepted, MediaStemMatches
    <3> QED BY <2>2, <3>1, <3>2, <3>3 DEF LooksFor
  <2>6. ASSUME SameType(x.type, y) /\ x.name # None /\ x.name \in {y.name, y.original}
        PROVE  FALSE
    <3>1. Has(L, Search("name", x.name, x.type, "name"))
      BY <2>1, <2>6, StrategiesType
    <3> HIDE DEF x, y, L
    <3> QED BY <2>2, <2>4, <2>6, <3>1 DEF LooksFor
  <2>7. ASSUME SameType(x.type, y) /\ x.original \notin {None, x.name},
               x.original \in {y.name, y.original}
        PROVE  FALSE
    <3>1. Has(L, Search("original", x.original, x.type, "name"))
      BY <2>1, <2>7, StrategiesType
    <3> HIDE DEF x, y, L
    <3> QED BY <2>2, <2>4, <2>7, <3>1 DEF LooksFor
  <2> QED BY <2>3, <2>5, <2>6, <2>7 DEF SharesIdentity
<1> QED BY <1>1, Invariant, PTL

\* "Unmatched" says that nothing on the server agrees with the entry, if its
\* lookups look for what does, but what the limit of a search by file, series or
\* season left out, whatever lookups failed, were retried or were shared
\* (findMatchWithCache).
THEOREM UnmatchedTrue == Spec => []UnmatchedIsTrue
<1>1. IInv => UnmatchedIsTrue
  <2> SUFFICES ASSUME IInv, NEW e \in Entries, task[e].status = "unmatched",
                      AgreedIsFound(e), NEW i \in DOMAIN import.item,
                      Agree(import.entry[e], import.item[i])
               PROVE  \E kind \in {"stem", "episode", "season"} : LeftOut(e, i, kind)
    BY DEF UnmatchedIsTrue
  <2>1. /\ import \in Imports /\ e \in DOMAIN import.entry
        /\ \A n \in DOMAIN Strategies(import.entry[e]) :
             LET s == Strategies(import.entry[e])[n]
             IN  LooksFor(s, import.entry[e], import.item[i]) =>
                   s.kind \in {"stem", "episode", "season"} /\ LeftOut(e, i, s.kind)
    BY UnmatchedNotLookedFor
  <2>2. Lookups(e, import) = Strategies(import.entry[e])
    BY TaskKinds DEF Lookups
  <2> QED BY <2>1, <2>2 DEF AgreedIsFound
<1> QED BY <1>1, Invariant, PTL

\* A stopped import starts no request that writes, and a dry run has none
\* (retryWithTimeout looks at the context first; importItem returns "matched").
THEOREM StoppedWritesNothing == Spec => StoppedImportWritesNothing
<1>1. IInv /\ [Next]_vars =>
        [accepted' # accepted \/ mediaOf' # mediaOf => ~cancelled /\ ~import.dryRun]_vars
  <2> SUFFICES ASSUME IInv, Next, accepted' # accepted \/ mediaOf' # mediaOf
               PROVE  ~cancelled /\ ~import.dryRun
    BY DEF vars
  <2>1. PICK t \in Tasks : RequestAnswered(t) \/ RequestLost(t)
    BY DEF Next, TaskStep, Cancel, Lookup, FetchSucceeds, FetchFails, WaiterGivesUp,
           LookupReturns, MatchEnds, NotStarted, ReadInfo, RequestFails, RequestCancelled,
           ImageNotSent, server
  <2>2. Sending(t) /\ ~cancelled /\ Serve(t)
    BY <2>1 DEF RequestAnswered, RequestLost
  <2>3. ~At(t, "detail")
    <3>1. accepted \in [Tasks -> SUBSET (Levels \cup {"image"})]
      BY DEF IInv, TypeOK
    <3>2. ASSUME At(t, "detail")
          PROVE  FALSE
      <4>1. accepted[t] \cup ({task[t].pc} \cap (Levels \cup {"image"})) = accepted[t]
        BY <3>2 DEF At, Levels
      <4>2. accepted' = accepted
        BY <2>2, <3>1, <4>1 DEF Serve
      <4>3. mediaOf' = mediaOf
        BY <2>2, <3>2 DEF Serve, At
      <4> QED BY <4>2, <4>3
    <3> QED BY <3>2
  <2> QED BY <2>2, <2>3, SendingFacts DEF At
<1> QED BY <1>1, Invariant, PTL DEF Spec, StoppedImportWritesNothing

\* The cache of the import is the memo that LookupCache implements.
THEOREM Implements == Spec => ImplementsMemo
<1>1. Init => Cache!Memo!MInit
  <2>1. Init => CP!CacheInit
    BY DEF Init, Cache!CacheInit, CP!CacheInit
  <2>2. CP!Memo!MInit => Cache!Memo!MInit
    BY DEF CP!Memo!MInit, Cache!Memo!MInit
  <2> QED BY <2>1, <2>2, CP!InitMaps
<1>2. IInv /\ [Next]_vars => [Cache!Memo!MNext]_(Cache!Memo!mvars)
  <2> SUFFICES ASSUME IInv, [Next]_vars
               PROVE  [Cache!Memo!MNext]_(Cache!Memo!mvars)
    OBVIOUS
  <2>1. CP!IInv /\ import \in Imports /\ CacheMove
    BY NextInv DEF IInv, TypeOK
  <2>2. [CP!CacheNext]_(CP!cacheVars)
    BY <2>1, CacheStep
  <2>3. [CP!Memo!MNext]_(CP!Memo!mvars)
    BY <2>1, <2>2, Sentinels, CP!NextMaps
  <2>4. CP!Memo!MNext => Cache!Memo!MNext
    BY DEF CP!Memo!MNext, Cache!Memo!MNext, CP!Memo!Ask, Cache!Memo!Ask,
           CP!Memo!AskUnknown, Cache!Memo!AskUnknown,
           CP!Memo!Learn, Cache!Memo!Learn, CP!Memo!Fail, Cache!Memo!Fail,
           CP!Memo!GiveUp, Cache!Memo!GiveUp, CP!Memo!Leave, Cache!Memo!Leave,
           CP!Memo!Requesters, Cache!Memo!Requesters
  <2> QED BY <2>3, <2>4 DEF CP!Memo!mvars, Cache!Memo!mvars
<1>3. Spec => Cache!Memo!MSpec
  BY <1>1, <1>2, Invariant, PTL DEF Spec, Cache!Memo!MSpec
<1> QED BY <1>3 DEF ImplementsMemo, Cache!ImplementsMemo

-----------------------------------------------------------------------------
(* Nobody is stuck. The part of TasksEnd that does not need fairness: a      *)
(* task that has not ended can go on or waits for one that can, and it has   *)
(* only so many steps before it.                                             *)

\* When a task can take a step of its own, and when it can end a request that
\* it makes for the cache.
AllTriedAt(t) == task[t].step \notin DOMAIN Lookups(t, import)
CanGoOn(t) ==
  \/ At(t, "match") /\ (AllTriedAt(t) \/ MayStart(t))
  \/ At(t, "lookup") /\ got[t] # NoAnswer
  \/ At(t, "info")
  \/ Sending(t)
CanFetch(t) == \E k \in Keys : call[k] = t

\* A task has ended, can go on, waits for a request that its task can end, or is
\* an avatar: it waits for the items, and a dry run never comes to it.
NobodyStuck ==
  \A t \in Tasks :
    \/ At(t, "end")
    \/ CanGoOn(t)
    \/ At(t, "lookup") /\ \E u \in Tasks : call[asking[t]] = u /\ CanFetch(u)
    \/ At(t, "match") /\ t \in Avatars /\ (import.dryRun \/ \E e \in Entries : ~At(e, "end"))

\* How much a task has before it: its lookups, twice if it may be tried again,
\* then its requests, each with its attempts.
Last(t) == Len(Lookups(t, import))
Order(pc) ==
  CASE pc = "end" -> 0 [] pc = "image" -> 1 [] pc = "verify" -> 2 [] pc = "minimal" -> 3
    [] pc = "compatibility" -> 4 [] pc = "full" -> 5 [] pc = "detail" -> 6 [] OTHER -> 7
Waiting(r, g) ==
  CASE r.pc = "match" -> 3 [] r.pc # "match" /\ g = NoAnswer -> 2
    [] r.pc # "match" /\ g = GaveUp -> 0 [] OTHER -> 1
Ahead(r, g, last) ==
  IF r.pc \in Entering
  THEN 16 + (IF r.attempt = 1 THEN 4 * (last + 1) ELSE 0) + 4 * (last + 1 - r.step) + Waiting(r, g)
  ELSE 2 * Order(r.pc) + Attempts - r.attempt

\* Whatever happens to a task, its own step or the end of the request it waits
\* for, brings it nearer to its end.
TasksRunOut ==
  [][\A t \in Tasks : <<task[t], got[t]>>' # <<task[t], got[t]>> =>
       Ahead(task[t], got[t], Last(t))' < Ahead(task[t], got[t], Last(t))]_vars
AheadBounded ==
  \A t \in TasksOf(import) : Ahead(task[t], got[t], Last(t)) \in 0..(8 * Last(t) + 23)

\* Who is in a lookup is at a strategy; the next one is at most behind the last.
AskInv ==
  \A t \in Tasks :
    /\ asking[t] # NoKey => At(t, "lookup")
    /\ task[t].pc \in Entering => task[t].step <= Last(t) + 1

\* What can happen to the state r of a task, with the outcome g of its lookup.
Advances(r, g, x, h, last) ==
  \/ r.pc = "match" /\ x.pc = "lookup" /\ x.step = r.step /\ x.attempt = r.attempt
  \/ r.pc = "lookup" /\ x = r /\ ((g = NoAnswer /\ h # NoAnswer) \/ (g # GaveUp /\ h = GaveUp))
  \/ r.pc = "lookup" /\ x.pc = "match" /\ x.step = r.step + 1 /\ x.attempt = r.attempt
  \/ /\ r.pc = "match" /\ x.pc = "match" /\ r.step = last + 1 /\ x.step = 1
     /\ r.attempt = 1 /\ x.attempt = 2
  \/ r.pc \in Entering /\ x.pc \notin Entering
  \/ r.pc \notin Entering /\ x.pc \notin Entering /\ Order(x.pc) < Order(r.pc)
  \/ r.pc \notin Entering \cup {"end"} /\ x.pc = r.pc /\ r.attempt = 1 /\ x.attempt = 2

LEMMA Orders ==
  /\ Order("end") = 0 /\ Order("image") = 1 /\ Order("verify") = 2 /\ Order("minimal") = 3
  /\ Order("compatibility") = 4 /\ Order("full") = 5 /\ Order("detail") = 6 /\ Order("info") = 7
  /\ \A pc : Order(pc) \in 0..7
BY DEF Order

\* The parts of what a task has before it are numbers.
LEMMA AheadType ==
  ASSUME NEW r \in TaskState, NEW g, NEW last \in Nat, r.pc \in Entering => r.step <= last + 1
  PROVE  /\ r.attempt \in 1..2 /\ r.step \in Nat \ {0} /\ Waiting(r, g) \in 0..3
         /\ Order(r.pc) \in 0..7
         /\ Ahead(r, g, last) \in 0..(8 * last + 23)
<1>1. r.attempt \in 1..2 /\ r.step \in Nat \ {0}
  BY DEF TaskState, Attempts
<1>2. Waiting(r, g) \in 0..3
  BY DEF Waiting
<1>3. Order(r.pc) \in 0..7
  BY Orders
<1>4. PICK a \in 1..2, step \in Nat \ {0}, w \in 0..3, o \in 0..7 :
        a = r.attempt /\ step = r.step /\ w = Waiting(r, g) /\ o = Order(r.pc)
  BY <1>1, <1>2, <1>3
<1>5. CASE r.pc \in Entering
  <2>1. step <= last + 1
    BY <1>4, <1>5
  <2>2. Ahead(r, g, last) = 16 + (IF a = 1 THEN 4 * (last + 1) ELSE 0) + 4 * (last + 1 - step) + w
    BY <1>4, <1>5 DEF Ahead
  <2>3. 16 + (IF a = 1 THEN 4 * (last + 1) ELSE 0) + 4 * (last + 1 - step) + w \in 0..(8 * last + 23)
    BY <2>1
  <2> QED BY <1>1, <1>2, <1>3, <2>2, <2>3
<1>6. CASE r.pc \notin Entering
  <2>1. Ahead(r, g, last) = 2 * o + 2 - a
    BY <1>4, <1>6 DEF Ahead, Attempts
  <2>2. 2 * o + 2 - a \in 0..(8 * last + 23)
    OBVIOUS
  <2> QED BY <1>1, <1>2, <1>3, <2>1, <2>2
<1> QED BY <1>5, <1>6

\* Every such step takes something away.
LEMMA AheadFalls ==
  ASSUME NEW r \in TaskState, NEW x \in TaskState, NEW g, NEW h, NEW last \in Nat,
         r.pc \in Entering => r.step <= last + 1, x.pc \in Entering => x.step <= last + 1,
         Advances(r, g, x, h, last)
  PROVE  Ahead(x, h, last) < Ahead(r, g, last)
<1>1. PICK a \in 1..2, step \in Nat \ {0}, w \in 0..3, o \in 0..7 :
        a = r.attempt /\ step = r.step /\ w = Waiting(r, g) /\ o = Order(r.pc)
  BY AheadType
<1>2. PICK b \in 1..2, next \in Nat \ {0}, v \in 0..3, p \in 0..7 :
        b = x.attempt /\ next = x.step /\ v = Waiting(x, h) /\ p = Order(x.pc)
  BY AheadType
<1>3. /\ r.pc \in Entering =>
           /\ Ahead(r, g, last) = 16 + (IF a = 1 THEN 4 * (last + 1) ELSE 0) + 4 * (last + 1 - step) + w
           /\ step <= last + 1
      /\ r.pc \notin Entering => Ahead(r, g, last) = 2 * o + 2 - a
  BY <1>1 DEF Ahead, Attempts
<1>4. /\ x.pc \in Entering =>
           /\ Ahead(x, h, last) = 16 + (IF b = 1 THEN 4 * (last + 1) ELSE 0) + 4 * (last + 1 - next) + v
           /\ next <= last + 1
      /\ x.pc \notin Entering => Ahead(x, h, last) = 2 * p + 2 - b
  BY <1>2 DEF Ahead, Attempts
<1>5. /\ r.pc = "match" => r.pc \in Entering /\ w = 3
      /\ r.pc = "lookup" => r.pc \in Entering
      /\ x.pc = "match" => x.pc \in Entering /\ v = 3
      /\ x.pc = "lookup" => x.pc \in Entering /\ v < 3
  BY <1>1, <1>2 DEF Entering, Waiting
<1>6. NoAnswer \notin {Failed, GaveUp}
  BY Sentinels DEF CP!SentinelsAssumption
<1>7. CASE r.pc = "match" /\ x.pc = "lookup" /\ x.step = r.step /\ x.attempt = r.attempt
  BY <1>1, <1>2, <1>3, <1>4, <1>5, <1>7
<1>8. CASE r.pc = "lookup" /\ x = r /\ ((g = NoAnswer /\ h # NoAnswer) \/ (g # GaveUp /\ h = GaveUp))
  <2>1. v < w
    BY <1>1, <1>2, <1>6, <1>8 DEF Waiting
  <2> QED BY <1>1, <1>2, <1>3, <1>4, <1>5, <1>8, <2>1
<1>9. CASE r.pc = "lookup" /\ x.pc = "match" /\ x.step = r.step + 1 /\ x.attempt = r.attempt
  BY <1>1, <1>2, <1>3, <1>4, <1>5, <1>9
<1>10. CASE /\ r.pc = "match" /\ x.pc = "match" /\ r.step = last + 1 /\ x.step = 1
            /\ r.attempt = 1 /\ x.attempt = 2
  BY <1>1, <1>2, <1>3, <1>4, <1>5, <1>10
<1>11. CASE r.pc \in Entering /\ x.pc \notin Entering
  BY <1>1, <1>2, <1>3, <1>4, <1>11
<1>12. CASE r.pc \notin Entering /\ x.pc \notin Entering /\ Order(x.pc) < Order(r.pc)
  BY <1>1, <1>2, <1>3, <1>4, <1>12
<1>13. CASE r.pc \notin Entering \cup {"end"} /\ x.pc = r.pc /\ r.attempt = 1 /\ x.attempt = 2
  BY <1>1, <1>2, <1>3, <1>4, <1>13
<1> QED BY <1>7, <1>8, <1>9, <1>10, <1>11, <1>12, <1>13 DEF Advances

\* The lookups of a task of the import are a sequence.
LEMMA LookupsType ==
  ASSUME import \in Imports, NEW t \in TasksOf(import)
  PROVE  Last(t) \in Nat /\ DOMAIN Lookups(t, import) = 1..Last(t)
<1>1. CASE t \in Avatars
  <2>1. Lookups(t, import) = <<[kind |-> "person", key |-> <<"person", Avatar[t]>>]>>
    BY <1>1 DEF Lookups
  <2> QED BY <2>1 DEF Last
<1>2. CASE t \notin Avatars
  <2>1. t \in Entries /\ t \in DOMAIN import.entry
    BY <1>2, ImportAssumption DEF TasksOf
  <2>2. Lookups(t, import) \in Seq(Possible(import.entry[t]))
    BY <2>1, EntryLookups
  <2> QED BY <2>2, LenProperties DEF Last
<1> QED BY <1>1, <1>2

\* What a step of t does, to t and to those who wait for its request.
Progress(t) ==
  \A u \in Tasks :
    /\ u # t => task'[u] = task[u] /\ asking'[u] = asking[u]
    /\ \/ task'[u] = task[u] /\ got'[u] = got[u]
       \/ Advances(task[u], got[u], task'[u], got'[u], Last(u))

\* A step of one task in which nobody's lookup changes.
LEMMA OwnProgress ==
  ASSUME IInv, NEW t \in Tasks, NEW st, st \in TaskState, Update(t, st), UNCHANGED cache,
         Advances(task[t], got[t], st, got[t], Last(t))
  PROVE  Progress(t) /\ asking' = asking /\ task'[t] = st
<1>1. asking' = asking /\ got' = got
  BY DEF cache
<1>2. task'[t] = st /\ \A u \in Tasks \ {t} : task'[u] = task[u]
  BY DEF Update, IInv, TypeOK
<1> QED BY <1>1, <1>2 DEF Progress

LEMMA RequestProgress ==
  ASSUME IInv, NEW t \in Tasks,
         RequestAnswered(t) \/ RequestLost(t) \/ RequestFails(t) \/ RequestCancelled(t)
  PROVE  Progress(t) /\ asking' = asking /\ task'[t].pc \notin Entering
<1>0. TypeOK /\ Sending(t) /\ task[t] \in TaskState /\ UNCHANGED cache
  BY DEF IInv, TypeOK, RequestAnswered, RequestLost, RequestFails, RequestCancelled
<1>1. task[t].pc \notin Entering \cup {"end"}
  BY <1>0 DEF Sending, Entering, Levels
<1>2. CASE Retry(t)
  <2> DEFINE st == [task[t] EXCEPT !.attempt = @ + 1]
  <2>1. Update(t, st) /\ task[t].attempt < Attempts
    BY <1>2 DEF Retry
  <2>2. st \in TaskState /\ st.pc = task[t].pc
    BY <1>0, <2>1, RetryState
  <2>3. task[t].attempt = 1 /\ st.attempt = 2
    BY <1>0, <2>1 DEF TaskState, Attempts
  <2> HIDE DEF st
  <2>4. Advances(task[t], got[t], st, got[t], Last(t))
    BY <1>1, <2>2, <2>3 DEF Advances
  <2> QED BY <1>0, <1>1, <2>1, <2>2, <2>4, OwnProgress
<1>3. ASSUME NEW st, Update(t, st), AfterAnswer(t, st) \/ AfterFailure(t, st)
      PROVE  Progress(t) /\ asking' = asking /\ task'[t].pc \notin Entering
  <2>1. st \in TaskState /\ st.pc \notin Entering
    BY <1>3 DEF AfterAnswer, AfterFailure, Questioned, Entering, Levels
  <2>2. Order(st.pc) < Order(task[t].pc)
    <3>1. \/ task[t].pc = "detail" /\ st.pc \in {"end", "full"}
          \/ task[t].pc \in Levels /\ st.pc \in {"verify", "image"}
          \/ task[t].pc = "full" /\ st.pc = "compatibility"
          \/ task[t].pc = "compatibility" /\ st.pc = "minimal"
          \/ task[t].pc = "verify" /\ st.pc = "image"
          \/ task[t].pc = "image" /\ st.pc = "end"
      BY <1>3 DEF AfterAnswer, AfterFailure, Questioned, At
    <3> QED BY <3>1, Orders DEF Levels
  <2>3. Advances(task[t], got[t], st, got[t], Last(t))
    BY <1>1, <2>1, <2>2 DEF Advances
  <2> QED BY <1>0, <1>3, <2>1, <2>3, OwnProgress
<1>4. CASE RequestAnswered(t)
  BY <1>0, <1>3, <1>4, AnsweredState DEF RequestAnswered
<1>5. CASE \E rejected \in BOOLEAN : Update(t, GivenUp(t, rejected))
  BY <1>0, <1>3, <1>5, GivenUpState
<1> QED BY <1>2, <1>4, <1>5 DEF RequestLost, RequestFails, RequestCancelled

LEMMA WriteProgress ==
  ASSUME IInv, NEW t \in Tasks, ReadInfo(t) \/ ImageNotSent(t)
  PROVE  Progress(t) /\ asking' = asking /\ task'[t].pc \notin Entering
<1>0. TypeOK /\ task[t] \in TaskState /\ UNCHANGED cache
  BY DEF IInv, TypeOK, ReadInfo, ImageNotSent
<1>1. ASSUME NEW st, Update(t, st), st \in TaskState,
             \/ task[t].pc = "info" /\ st.pc \in {"end", "detail", "full"}
             \/ task[t].pc = "image" /\ st.pc = "end"
      PROVE  Progress(t) /\ asking' = asking /\ task'[t].pc \notin Entering
  <2>1. st.pc \notin Entering /\ task[t].pc \notin Entering /\ Order(st.pc) < Order(task[t].pc)
    BY <1>1, Orders DEF Entering
  <2>2. Advances(task[t], got[t], st, got[t], Last(t))
    BY <2>1 DEF Advances
  <2> QED BY <1>0, <1>1, <2>1, <2>2, OwnProgress
<1>2. CASE ReadInfo(t)
  <2>1. \/ Update(t, End(task[t], "failed"))
        \/ Update(t, Goto(task[t], "detail"))
        \/ \E media \in Medias : Update(t, ToWrite(t, media))
    BY <1>2 DEF ReadInfo, Medias
  <2>2. task[t].pc = "info"
    BY <1>2 DEF ReadInfo, At
  <2>3. CASE Update(t, End(task[t], "failed"))
    BY <1>0, <1>1, <2>2, <2>3, EndState
  <2>4. CASE Update(t, Goto(task[t], "detail"))
    BY <1>0, <1>1, <2>2, <2>4, GotoState
  <2>5. CASE \E media \in Medias : Update(t, ToWrite(t, media))
    BY <1>0, <1>1, <2>2, <2>5, ToWriteState
  <2> QED BY <2>1, <2>3, <2>4, <2>5
<1>3. CASE ImageNotSent(t)
  <2>1. PICK image \in {"none", "failed"} : Update(t, Ended(t, image, task[t].failed))
    BY <1>3 DEF ImageNotSent
  <2>2. task[t].pc = "image" /\ task[t].failed \in BOOLEAN
    BY <1>0, <1>3 DEF ImageNotSent, At, TaskState
  <2>3. Ended(t, image, task[t].failed) \in TaskState /\ Ended(t, image, task[t].failed).pc = "end"
    BY <1>0, <2>2, EndedState
  <2> QED BY <1>1, <2>1, <2>2, <2>3
<1> QED BY <1>2, <1>3

\* A task enters a lookup.
LEMMA LookupProgress ==
  ASSUME IInv, AskInv, NEW t \in Tasks, Lookup(t)
  PROVE  /\ Progress(t)
         /\ task'[t].pc = "lookup" /\ task'[t].step = task[t].step
<1> DEFINE r == task[t]
           st == [r EXCEPT !.pc = "lookup"]
<1>1. r.pc = "match" /\ task' = [task EXCEPT ![t] = st] /\ CP!Lookup(t, Lookups(t, import)[r.step].key)
  BY DEF Lookup, At, Update, Cache!Lookup, CP!Lookup
<1>2. r \in TaskState
  BY DEF IInv, TypeOK
<1>3. st \in TaskState /\ st.pc = "lookup" /\ st.step = r.step /\ st.attempt = r.attempt
  BY <1>2 DEF TaskState
<1> HIDE DEF st
<1>4. task'[t] = st /\ \A u \in Tasks \ {t} : task'[u] = task[u]
  BY <1>1 DEF IInv, TypeOK
<1>5. \A u \in Tasks \ {t} : asking'[u] = asking[u] /\ got'[u] = got[u]
  BY <1>1 DEF CP!Lookup, IInv, CP!IInv, CP!CacheTypeOK
<1>6. Advances(r, got[t], task'[t], got'[t], Last(t))
  BY <1>1, <1>3, <1>4 DEF Advances
<1> QED BY <1>3, <1>4, <1>5, <1>6 DEF Progress

\* The lookup of a task has an outcome.
LEMMA Outcome ==
  ASSUME NEW r, NEW g, NEW h, NEW last, r.pc = "lookup",
         (g = NoAnswer /\ h # NoAnswer) \/ (g # GaveUp /\ h = GaveUp)
  PROVE  Advances(r, g, r, h, last)
BY DEF Advances

\* What a task is when it leaves its lookup.
LEMMA LeftLookup ==
  ASSUME NEW r \in TaskState
  PROVE  /\ \A error : LET x == [r EXCEPT !.pc = "match", !.step = @ + 1, !.error = error]
                       IN  x.pc = "match" /\ x.step = r.step + 1 /\ x.attempt = r.attempt
         /\ \A doubt : LET x == [r EXCEPT !.pc = "match", !.step = @ + 1, !.ambiguous = doubt]
                       IN  x.pc = "match" /\ x.step = r.step + 1 /\ x.attempt = r.attempt
         /\ \A p : [r EXCEPT !.pc = "image", !.target = p].pc = "image"
         /\ \A i : [Goto(r, "info") EXCEPT !.target = i].pc = "info"
         /\ End(r, "failed").pc = "end"
BY DEF TaskState, Goto, End

\* A request ends for everybody who waits for it, or one of them stops waiting.
LEMMA FetchProgress ==
  ASSUME IInv, AskInv, NEW t \in Tasks, FetchSucceeds(t) \/ FetchFails(t) \/ WaiterGivesUp(t)
  PROVE  Progress(t) /\ asking' = asking /\ task' = task
<1>0. /\ task' = task /\ CP!CacheTypeOK /\ CP!FetchersWait /\ import \in Imports
      /\ NoKey \notin Keys /\ NoAnswer \notin {Failed, GaveUp}
  BY Sentinels
  DEF FetchSucceeds, FetchFails, WaiterGivesUp, IInv, TypeOK, CP!IInv, CP!SentinelsAssumption
<1>1. ASSUME NEW k \in Keys, NEW outcome, outcome # NoAnswer, CP!Close(k, outcome), asking' = asking
      PROVE  Progress(t)
  <2>1. \A u \in Tasks : got'[u] = IF asking[u] = k /\ got[u] = NoAnswer THEN outcome ELSE got[u]
    BY <1>1 DEF CP!Close, CP!Waiters
  <2>2. \A u \in Tasks : asking[u] = k => task[u].pc = "lookup"
    BY <1>0 DEF AskInv, At
  <2>3. ASSUME NEW u \in Tasks
        PROVE  \/ got'[u] = got[u]
               \/ Advances(task[u], got[u], task'[u], got'[u], Last(u))
    <3>1. CASE asking[u] = k /\ got[u] = NoAnswer
      <4>1. got'[u] # NoAnswer /\ task[u].pc = "lookup" /\ task'[u] = task[u]
        BY <1>0, <1>1, <2>1, <2>2, <3>1
      <4> QED BY <3>1, <4>1, Outcome
    <3>2. CASE ~(asking[u] = k /\ got[u] = NoAnswer)
      BY <2>1, <3>2
    <3> QED BY <3>1, <3>2
  <2> QED BY <1>0, <1>1, <2>3 DEF Progress
<1>2. CASE FetchSucceeds(t)
  <2>1. PICK found \in Found(asking[t]) : CP!FetchSucceeds(t, found) /\ asking' = asking
    BY <1>2 DEF FetchSucceeds, Cache!FetchSucceeds, CP!FetchSucceeds, Cache!Close, CP!Close,
               Cache!Waiters, CP!Waiters
  <2>2. \E k \in Keys : CP!Close(k, found)
    BY <2>1 DEF CP!FetchSucceeds
  <2>3. found # NoAnswer
    BY <1>0, FoundType
  <2> QED BY <1>0, <1>1, <2>1, <2>2, <2>3
<1>3. CASE FetchFails(t)
  <2>1. CP!FetchFails(t) /\ asking' = asking
    BY <1>3 DEF FetchFails, Cache!FetchFails, CP!FetchFails, Cache!Close, CP!Close,
               Cache!Waiters, CP!Waiters
  <2>2. \E k \in Keys : CP!Close(k, Failed)
    BY <2>1 DEF CP!FetchFails
  <2> QED BY <1>0, <1>1, <2>1, <2>2
<1>4. CASE WaiterGivesUp(t)
  <2>1. CP!WaiterGivesUp(t) /\ asking' = asking
    BY <1>4 DEF WaiterGivesUp, Cache!WaiterGivesUp, CP!WaiterGivesUp
  <2>2. task[t].pc = "lookup" /\ got[t] # GaveUp
    BY <2>1 DEF CP!WaiterGivesUp, AskInv, At
  <2>3. got'[t] = GaveUp /\ \A u \in Tasks \ {t} : got'[u] = got[u]
    BY <1>0, <2>1 DEF CP!WaiterGivesUp, CP!CacheTypeOK
  <2> QED BY <1>0, <2>1, <2>2, <2>3 DEF Progress, Advances
<1> QED BY <1>0, <1>2, <1>3, <1>4

\* A task leaves its lookup: for the next strategy, its item, or its end.
LEMMA ReturnProgress ==
  ASSUME IInv, AskInv, NEW t \in Tasks, LookupReturns(t)
  PROVE  /\ Progress(t) /\ asking'[t] = NoKey
         /\ task'[t].pc \in Entering => task'[t].pc = "match" /\ task'[t].step = task[t].step + 1
<1> DEFINE r == task[t]
           x == task'[t]
<1>1. /\ r.pc = "lookup" /\ r \in TaskState /\ CP!Return(t)
      /\ task \in [Tasks -> TaskState]
  BY ReturnFacts DEF IInv, TypeOK
<1>2. /\ \A u \in Tasks \ {t} : asking'[u] = asking[u] /\ got'[u] = got[u]
      /\ asking'[t] = NoKey
  BY <1>1 DEF CP!Return, IInv, CP!IInv, CP!CacheTypeOK
<1>3. ASSUME NEW st, Update(t, st)
      PROVE  x = st /\ \A u \in Tasks \ {t} : task'[u] = task[u]
  BY <1>1, <1>3 DEF Update
<1> DEFINE Left ==
             /\ \A u \in Tasks \ {t} : task'[u] = task[u]
             /\ \/ x.pc = "match" /\ x.step = r.step + 1 /\ x.attempt = r.attempt
                \/ x.pc \in {"end", "image", "info"}
<1>4. Left
  <2>1. ASSUME NEW error, Update(t, [r EXCEPT !.pc = "match", !.step = @ + 1, !.error = error])
        PROVE  Left
    <3> DEFINE st == [r EXCEPT !.pc = "match", !.step = @ + 1, !.error = error]
    <3>1. st.pc = "match" /\ st.step = r.step + 1 /\ st.attempt = r.attempt
      BY <1>1, LeftLookup
    <3>2. Update(t, st)
      BY <2>1
    <3> HIDE DEF st
    <3> QED BY <1>3, <3>1, <3>2
  <2>2. ASSUME NEW doubt, Update(t, [r EXCEPT !.pc = "match", !.step = @ + 1, !.ambiguous = doubt])
        PROVE  Left
    <3> DEFINE st == [r EXCEPT !.pc = "match", !.step = @ + 1, !.ambiguous = doubt]
    <3>1. st.pc = "match" /\ st.step = r.step + 1 /\ st.attempt = r.attempt
      BY <1>1, LeftLookup
    <3>2. Update(t, st)
      BY <2>2
    <3> HIDE DEF st
    <3> QED BY <1>3, <3>1, <3>2
  <2>3. ASSUME NEW p, Update(t, [r EXCEPT !.pc = "image", !.target = p])
        PROVE  Left
    <3> DEFINE st == [r EXCEPT !.pc = "image", !.target = p]
    <3>1. st.pc = "image"
      BY <1>1, LeftLookup
    <3>2. Update(t, st)
      BY <2>3
    <3> HIDE DEF st
    <3> QED BY <1>3, <3>1, <3>2
  <2>4. ASSUME NEW i, Update(t, [Goto(r, "info") EXCEPT !.target = i])
        PROVE  Left
    <3> DEFINE st == [Goto(r, "info") EXCEPT !.target = i]
    <3>1. st.pc = "info"
      BY <1>1, LeftLookup
    <3>2. Update(t, st)
      BY <2>4
    <3> HIDE DEF st
    <3> QED BY <1>3, <3>1, <3>2
  <2>5. ASSUME Update(t, End(r, "failed"))
        PROVE  Left
    BY <1>1, <1>3, <2>5, LeftLookup
  <2>6. \/ Update(t, End(r, "failed"))
        \/ \E error : Update(t, [r EXCEPT !.pc = "match", !.step = @ + 1, !.error = error])
        \/ \E p : Update(t, [r EXCEPT !.pc = "image", !.target = p])
        \/ \E i : Update(t, [Goto(r, "info") EXCEPT !.target = i])
        \/ \E doubt : Update(t, [r EXCEPT !.pc = "match", !.step = @ + 1, !.ambiguous = doubt])
    BY DEF LookupReturns
  <2> QED BY <2>1, <2>2, <2>3, <2>4, <2>5, <2>6
<1>5. Advances(r, got[t], x, got'[t], Last(t))
  BY <1>1, <1>4 DEF Advances, Entering
<1> QED BY <1>2, <1>4, <1>5 DEF Progress, Entering

\* No strategy is left, or the attempt is not started.
LEMMA MatchProgress ==
  ASSUME IInv, AskInv, NEW t \in Tasks, MatchEnds(t) \/ NotStarted(t)
  PROVE  /\ Progress(t) /\ asking' = asking
         /\ task'[t].pc \in Entering => task'[t].pc = "match" /\ task'[t].step = 1
<1> DEFINE r == task[t]
<1>1. /\ r.pc = "match" /\ UNCHANGED cache /\ r \in TaskState
      /\ t \in TasksOf(import) /\ import \in Imports
  BY EnteringFacts DEF MatchEnds, NotStarted, At, Entering
<1>2. ASSUME NEW status \in {"ambiguous", "unmatched", "failed"}, Update(t, End(r, status))
      PROVE  Progress(t) /\ asking' = asking /\ task'[t].pc \notin Entering
  <2>1. End(r, status) \in TaskState /\ End(r, status).pc \notin Entering
    BY <1>1, EndState DEF Entering
  <2>2. Advances(r, got[t], End(r, status), got[t], Last(t))
    BY <1>1, <2>1 DEF Advances, Entering
  <2> QED BY <1>1, <1>2, <2>1, <2>2, OwnProgress
<1>3. CASE /\ r.attempt < Attempts /\ r.step \notin DOMAIN Lookups(t, import)
           /\ Update(t, [r EXCEPT !.step = 1, !.error = None, !.attempt = @ + 1])
  <2> DEFINE st == [r EXCEPT !.step = 1, !.error = None, !.attempt = @ + 1]
  <2>1. r.step = Last(t) + 1
    <3>1. r.step \in Nat \ {0} /\ r.step <= Last(t) + 1
      BY <1>1 DEF TaskState, AskInv, Entering
    <3>2. Last(t) \in Nat /\ r.step \notin 1..Last(t)
      BY <1>1, <1>3, LookupsType
    <3> QED BY <3>1, <3>2
  <2>2. r.attempt = 1
    BY <1>1, <1>3 DEF TaskState, Attempts
  <2>3. st \in TaskState /\ st.pc = "match" /\ st.step = 1 /\ st.attempt = 2
    <3> HIDE DEF r
    <3>1. r \in TaskState /\ r.pc = "match" /\ r.attempt = 1
      BY <1>1, <2>2 DEF r
    <3>2. 1 \in Nat \ {0} /\ r.attempt + 1 \in 1..Attempts /\ r.attempt + 1 = 2
      BY <3>1 DEF Attempts
    <3> QED BY <3>1, <3>2 DEF TaskState
  <2> HIDE DEF st
  <2>4. Advances(r, got[t], st, got[t], Last(t))
    BY <1>1, <2>1, <2>2, <2>3 DEF Advances
  <2>5. Update(t, st)
    BY <1>3 DEF st
  <2> QED BY <1>1, <2>3, <2>4, <2>5, OwnProgress
<1> QED BY <1>2, <1>3 DEF MatchEnds, NotStarted

LEMMA InitAsk == Init => AskInv
<1> SUFFICES ASSUME Init, NEW t \in Tasks
             PROVE  /\ asking[t] = NoKey
                    /\ task[t].pc \in Entering => task[t].step <= Last(t) + 1
  BY DEF AskInv
<1>1. asking[t] = NoKey
  BY DEF Init, Cache!CacheInit
<1>2. task[t] = IF t \in TasksOf(import) THEN Fresh ELSE [Fresh EXCEPT !.pc = "end"]
  BY DEF Init
<1>3. CASE t \in TasksOf(import)
  <2>1. task[t].step = 1
    BY <1>2, <1>3 DEF Fresh
  <2>2. Last(t) \in Nat
    BY <1>3, LookupsType DEF Init
  <2> QED BY <1>1, <2>1, <2>2
<1>4. CASE t \notin TasksOf(import)
  BY <1>1, <1>2, <1>4 DEF Fresh, Entering
<1> QED BY <1>3, <1>4

\* Every step of a task brings those it concerns nearer to their ends.
LEMMA StepProgress ==
  ASSUME IInv, AskInv, NEW t \in Tasks, TaskStep(t) \/ WaiterGivesUp(t)
  PROVE  Progress(t) /\ AskInv'
<1> DEFINE Placing == /\ asking'[t] # NoKey => task'[t].pc = "lookup"
                      /\ task'[t].pc \in Entering => task'[t].step <= Last(t) + 1
<1>0. IInv' /\ import' = import /\ import \in Imports
  <2>1. Next
    BY DEF Next
  <2> QED BY <2>1, NextInv DEF IInv, TypeOK
<1>1. /\ asking[t] # NoKey => task[t].pc = "lookup"
      /\ task[t].pc \in Entering => /\ task[t].step \in Nat /\ task[t].step <= Last(t) + 1
                                    /\ t \in TasksOf(import) /\ Last(t) \in Nat
                                    /\ DOMAIN Lookups(t, import) = 1..Last(t)
  BY <1>0, EnteringFacts, LookupsType DEF AskInv, At, TaskState
<1>2. ASSUME Lookup(t) PROVE Progress(t) /\ Placing
  <2>1. task[t].pc \in Entering
    BY <1>2 DEF Lookup, At, Entering
  <2> QED BY <1>1, <1>2, <2>1, LookupProgress DEF Placing
<1>3. ASSUME FetchSucceeds(t) \/ FetchFails(t) \/ WaiterGivesUp(t)
      PROVE  Progress(t) /\ Placing
  BY <1>1, <1>3, FetchProgress
<1>4. ASSUME LookupReturns(t) PROVE Progress(t) /\ Placing
  <2>1. task[t].step \in Nat /\ Last(t) \in Nat /\ task[t].step \in 1..Last(t)
    BY <1>1, <1>4, ReturnFacts DEF Entering
  <2>2. task[t].step + 1 <= Last(t) + 1
    BY <2>1
  <2> QED BY <1>4, <2>2, ReturnProgress
<1>5. ASSUME MatchEnds(t) \/ NotStarted(t) PROVE Progress(t) /\ Placing
  <2>1. task[t].pc = "match"
    BY <1>5 DEF MatchEnds, NotStarted, At
  <2>2. asking[t] = NoKey /\ 1 <= Last(t) + 1
    BY <1>1, <2>1 DEF Entering
  <2> QED BY <1>5, <2>2, MatchProgress
<1>6. ASSUME \/ RequestAnswered(t) \/ RequestLost(t) \/ RequestFails(t) \/ RequestCancelled(t)
             \/ ReadInfo(t) \/ ImageNotSent(t)
      PROVE  Progress(t) /\ Placing
  <2>1. task[t].pc # "lookup"
    BY <1>6 DEF RequestAnswered, RequestLost, RequestFails, RequestCancelled, ReadInfo,
           ImageNotSent, Sending, Levels, At
  <2> QED BY <1>1, <1>6, <2>1, RequestProgress, WriteProgress
<1>7. Progress(t) /\ Placing
  BY <1>2, <1>3, <1>4, <1>5, <1>6 DEF TaskStep
<1>8. \A u \in Tasks : Last(u)' = Last(u)
  BY <1>0 DEF Last
<1> HIDE DEF Placing
<1>9. ASSUME NEW u \in Tasks
      PROVE  /\ asking'[u] # NoKey => task'[u].pc = "lookup"
             /\ task'[u].pc \in Entering => task'[u].step <= Last(u) + 1
  <2>1. CASE u = t
    BY <1>7, <2>1 DEF Placing
  <2>2. CASE u # t
    BY <1>7, <2>2 DEF Progress, AskInv, At
  <2> QED BY <2>1, <2>2
<1> QED BY <1>7, <1>8, <1>9 DEF AskInv, At

LEMMA NextAsk == IInv /\ AskInv /\ [Next]_vars => AskInv'
<1> SUFFICES ASSUME IInv, AskInv, [Next]_vars PROVE AskInv'
  OBVIOUS
<1>1. CASE Cancel \/ UNCHANGED vars
  <2>1. import' = import /\ task' = task /\ asking' = asking
    BY <1>1 DEF Cancel, vars, cache, environment
  <2> QED BY <2>1 DEF AskInv, At, Last
<1> QED BY <1>1, StepProgress DEF Next

\* A task of the import has a number of steps before it.
LEMMA AheadNat ==
  ASSUME IInv, AskInv, NEW t \in TasksOf(import)
  PROVE  /\ task[t] \in TaskState /\ Last(t) \in Nat
         /\ task[t].pc \in Entering => task[t].step <= Last(t) + 1
         /\ Ahead(task[t], got[t], Last(t)) \in 0..(8 * Last(t) + 23)
<1>1. import \in Imports /\ task \in [Tasks -> TaskState]
  BY DEF IInv, TypeOK
<1>2. t \in Tasks
  BY <1>1, ImportAssumption DEF TasksOf, Tasks
<1>3. Last(t) \in Nat
  BY <1>1, LookupsType
<1>4. /\ task[t] \in TaskState
      /\ task[t].pc \in Entering => task[t].step <= Last(t) + 1
  BY <1>1, <1>2 DEF AskInv
<1> QED BY <1>3, <1>4, AheadType

\* Every task of an import can go on until it ends: nobody waits for a request
\* that nobody can end (importLookupCache), whoever fails, gives up or stops.
THEOREM SomebodyGoesOn == Spec => []NobodyStuck
<1>1. IInv => NobodyStuck
  <2> SUFFICES ASSUME IInv, NEW t \in Tasks, ~At(t, "end"), ~CanGoOn(t)
               PROVE  \/ At(t, "lookup") /\ \E u \in Tasks : call[asking[t]] = u /\ CanFetch(u)
                      \/ /\ At(t, "match") /\ t \in Avatars
                         /\ import.dryRun \/ \E e \in Entries : ~At(e, "end")
    BY DEF NobodyStuck
  <2>1. At(t, "lookup") \/ At(t, "match")
    BY DEF IInv, TypeOK, TaskState, CanGoOn, Sending, At
  <2>2. CASE At(t, "match")
    BY <2>2 DEF CanGoOn, MayStart
  <2>3. CASE At(t, "lookup")
    <3>1. got[t] = NoAnswer
      BY <2>3 DEF CanGoOn
    <3>2. asking[t] \in Keys
      BY <2>3, LookupKeys DEF IInv, TypeOK, TaskInv, Placed, At
    <3>3. call[asking[t]] # NoCaller
      BY <3>1, <3>2, Sentinels DEF IInv, CP!IInv, CP!NobodyWaitsInVain, CP!SentinelsAssumption
    <3>4. call[asking[t]] \in Tasks
      BY <3>2, <3>3 DEF IInv, CP!IInv, CP!CacheTypeOK
    <3> QED BY <2>3, <3>2, <3>4 DEF CanFetch
  <2> QED BY <2>1, <2>2, <2>3
<1> QED BY <1>1, Invariant, PTL

\* A task of an import has at most 8 * Last(t) + 23 steps before it, and each one
\* takes something away: attempts, fallbacks and strategies come to an end
\* whatever the server answers (retryWithTimeout, findMatchWithCache).
THEOREM TaskStepsEnd == Spec => TasksRunOut /\ []AheadBounded
<1>1. IInv /\ AskInv => AheadBounded
  BY AheadNat DEF AheadBounded
<1>2. IInv /\ AskInv /\ [Next]_vars =>
        [\A t \in Tasks : <<task[t], got[t]>>' # <<task[t], got[t]>> =>
           Ahead(task[t], got[t], Last(t))' < Ahead(task[t], got[t], Last(t))]_vars
  <2> SUFFICES ASSUME IInv, AskInv, Next, NEW t \in Tasks,
                      <<task[t], got[t]>>' # <<task[t], got[t]>>
               PROVE  Ahead(task[t], got[t], Last(t))' < Ahead(task[t], got[t], Last(t))
    BY DEF vars
  <2>1. ~Cancel
    BY DEF Cancel, cache
  <2>2. PICK v \in Tasks : TaskStep(v) \/ WaiterGivesUp(v)
    BY <2>1 DEF Next
  <2>3. Advances(task[t], got[t], task'[t], got'[t], Last(t))
    BY <2>2, StepProgress DEF Progress
  <2>4. IInv' /\ AskInv' /\ import' = import /\ import \in Imports
    BY NextInv, NextAsk DEF IInv, TypeOK
  <2>5. task[t].pc # "end"
    <3>1. ASSUME task[t].pc = "end" PROVE FALSE
      <4>1. ~(Order(task'[t].pc) < 0)
        <5>1. PICK o \in 0..7 : o = Order(task'[t].pc)
          BY Orders
        <5> QED BY <5>1
      <4> QED BY <2>3, <3>1, <4>1, Orders DEF Advances, Entering
    <3> QED BY <3>1
  <2>6. t \in TasksOf(import)
    BY <2>5 DEF IInv, TaskInv, Placed
  <2>7. /\ task[t] \in TaskState /\ Last(t) \in Nat
        /\ task[t].pc \in Entering => task[t].step <= Last(t) + 1
    BY <2>6, AheadNat
  <2>8. /\ task'[t] \in TaskState
        /\ task'[t].pc \in Entering => task'[t].step <= Last(t) + 1
    BY <2>4 DEF IInv, TypeOK, AskInv, Last
  <2>9. PICK x \in TaskState : x = task'[t]
    BY <2>8
  <2>10. PICK h : h = got'[t]
    OBVIOUS
  <2>11. Ahead(x, h, Last(t)) < Ahead(task[t], got[t], Last(t))
    BY <2>3, <2>7, <2>8, <2>9, <2>10, AheadFalls
  <2>12. Ahead(task[t], got[t], Last(t))' = Ahead(x, h, Last(t))
    BY <2>4, <2>9, <2>10 DEF Ahead, Last, Waiting
  <2> QED BY <2>11, <2>12
<1>3. Spec => []AskInv
  BY InitAsk, NextAsk, Invariant, PTL DEF Spec
<1> QED BY <1>1, <1>2, <1>3, Invariant, PTL DEF Spec, TasksRunOut

=============================================================================
