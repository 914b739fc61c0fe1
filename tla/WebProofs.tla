------------------------------ MODULE WebProofs ------------------------------
(***************************************************************************)
(* Proofs about the web layer: SettingsStore, Accounts, LoginLimiter and   *)
(* TelegramNotify, which share no variable and call nothing of each other, *)
(* so that each has an invariant of its own here.                          *)
(*                                                                         *)
(* - Settings, for every set of clients, addresses, keys and profiles: the *)
(*   types, that no key leaves the address it was typed for and no id of   *)
(*   a server the address it is kept for, and that no save loses another   *)
(*   one.  Only the last needs a clock that tells two saves apart.         *)
(* - Accounts, for every number of requests, names, passwords and changes: *)
(*   no write of users.json undoes a change of the account, and once a     *)
(*   change is answered the credentials it replaced are dead.              *)
(* - Logins: however many run in parallel, and however long, they          *)
(*   overshoot the limit of failures by less than their own number.        *)
(* - Telegram: a job that is known is announced at most once.              *)
(***************************************************************************)
EXTENDS SettingsStore, Accounts, LoginLimiter, TelegramNotify, FiniteSetTheorems, TLAPS

-----------------------------------------------------------------------------
(* SettingsStore *)

(***************************************************************************)
(* The address book.                                                       *)
(***************************************************************************)
Book == [Ids -> Profile \cup {None}]

\* A server's id is none, the address' own, or one that was brought along for it.
IdAtHome(url, sid, g) == sid \in {url, Blank} \/ <<url, sid>> \in g

\* Every pair of an address and a key is one of g.
BookAtHome(ps, g) ==
    \A i \in Used(ps) : /\ <<ps[i].url, ps[i].key>> \in g
                        /\ IdAtHome(ps[i].url, ps[i].sid, g)

Pairs == Urls \X (Keys \cup Urls)

AtHome(s, g) ==
    /\ s.conn # None => <<s.conn.url, s.conn.key>> \in g
    /\ BookAtHome(s.profiles, g)

LEMMA EmptyLemma == Empty \in Settings /\ \A g : AtHome(Empty, g)
BY DEF Empty, Settings, AtHome, BookAtHome, Used

LEMMA UsedLemma == ASSUME SettingsAssumption, NEW ps \in Book, NEW i \in Used(ps)
                   PROVE  i \in Ids /\ ps[i] \in Profile
BY DEF Used, Book

LEMMA MigratedLemma ==
    ASSUME SettingsAssumption, NEW s \in Settings, NEW g, AtHome(s, g)
    PROVE  Migrated(s) \in Settings /\ AtHome(Migrated(s), g)
<1>1. CASE s.v2 \/ Used(s.profiles) # {} \/ s.conn = None
    BY <1>1 DEF Migrated
<1>2. CASE ~(s.v2 \/ Used(s.profiles) # {} \/ s.conn = None)
    <2> DEFINE id == Slug[s.conn.url]
               p == [url |-> s.conn.url, key |-> s.conn.key, sid |-> Blank]
               ps == [s.profiles EXCEPT ![id] = p]
    <2>1. s.conn \in Conn /\ s.profiles \in Book /\ id \in Ids /\ p \in Profile
        BY <1>2 DEF Settings, Conn, Book, Profile, SettingsAssumption
    <2>2. ps \in Book /\ \A i \in Used(ps) : i = id
        BY <1>2, <2>1 DEF Book, Used
    <2>3. Migrated(s) = [s EXCEPT !.profiles = ps, !.selected = id]
        BY <1>2, <2>1 DEF Migrated, Settings
    <2>4. ps[id] = p
        BY <2>1 DEF Book
    <2> HIDE DEF id, p, ps
    <2>5. /\ Migrated(s) \in Settings
          /\ Migrated(s).conn = s.conn /\ Migrated(s).profiles = ps
        BY <2>1, <2>2, <2>3 DEF Settings, Book
    <2>6. BookAtHome(ps, g)
        BY <1>2, <2>2, <2>4 DEF BookAtHome, IdAtHome, AtHome, p
    <2> QED
        BY <2>5, <2>6 DEF AtHome
<1> QED
    BY <1>1, <1>2

\* A key taken from the book for an address is one of that address.
LEMMA SavedLemma ==
    ASSUME SettingsAssumption, NEW s \in Settings, NEW g, AtHome(s, g),
           NEW u \in Urls, NEW k \in SavedKeys(s, u)
    PROVE  k \in Keys /\ <<u, k>> \in g
<1>1. CASE s.conn # None /\ s.conn.url = u
    BY <1>1 DEF SavedKeys, AtHome, Settings, Conn
<1>2. CASE ~(s.conn # None /\ s.conn.url = u)
    <2>1. PICK i \in AtUrl(s.profiles, u) : k = s.profiles[i].key
        BY <1>2 DEF SavedKeys
    <2>2. i \in Used(s.profiles) /\ s.profiles[i].url = u
        BY <2>1 DEF AtUrl
    <2>3. s.profiles[i] \in Profile
        BY <2>2, UsedLemma DEF Settings, Book
    <2> QED
        BY <2>1, <2>2, <2>3 DEF AtHome, BookAtHome, Profile
<1> QED
    BY <1>1, <1>2

\* Whatever profile a save writes, and under whatever id.
LEMMA UpsertedLemma ==
    ASSUME SettingsAssumption, NEW ps \in Book, NEW g, BookAtHome(ps, g),
           NEW id \in Ids \cup {Blank}, NEW url \in Urls,
           NEW key \in Keys \cup {Blank}, key # Blank => <<url, key>> \in g,
           NEW f \in Urls \cup {Blank}, IdAtHome(url, f, g), NEW qs \in Upserted(ps, id, url, key, f)
    PROVE  qs \in Book /\ BookAtHome(qs, g)
<1> DEFINE there == IF id \in AtUrl(ps, url) THEN {id} ELSE AtUrl(ps, url)
           ids == IF there # {} THEN there
                  ELSE IF id # Blank THEN {id} ELSE Ids \ Used(ps)
           sid(i) == IF f = Blank /\ i \in there THEN ps[i].sid ELSE f
<1>1. \A j \in there : j \in Used(ps) /\ ps[j].url = url
    BY DEF AtUrl
<1>2. \A j \in there : j \in Ids /\ ps[j] \in Profile
    BY <1>1, UsedLemma
<1>3. ids \subseteq Ids
    BY <1>2
<1> DEFINE keys == TypedOr(key, {ps[j].key : j \in there})
           written(i, k) == [ps EXCEPT ![i] = [url |-> url, key |-> k, sid |-> sid(i)]]
<1>4. PICK i \in ids, k \in keys : qs = written(i, k)
    <2>1. qs \in UNION {{written(i, k) : k \in keys} : i \in ids}
        BY Zenon DEF Upserted, UniqueProfileIDs
    <2> HIDE DEF ids, keys, written
    <2> QED
        BY <2>1
<1> HIDE DEF there, ids
<1>5. k \in Keys /\ <<url, k>> \in g
    <2>1. CASE key # Blank
        BY <1>4, <2>1 DEF TypedOr
    <2>2. CASE key = Blank
        <3>1. PICK j \in there : k = ps[j].key
            BY <1>4, <2>2 DEF TypedOr
        <3>2. ps[j].key \in Keys
            BY <1>2, <3>1 DEF Profile
        <3>3. <<ps[j].url, ps[j].key>> \in g
            BY <1>1, <3>1 DEF BookAtHome
        <3> QED
            BY <1>1, <3>1, <3>2, <3>3
    <2> QED
        BY <2>1, <2>2
<1>6. IdAtHome(url, sid(i), g) /\ sid(i) \in Urls \cup {Blank}
    BY <1>1, <1>2 DEF BookAtHome, Profile
<1> DEFINE p == [url |-> url, key |-> k, sid |-> sid(i)]
<1>7. p \in Profile
    BY <1>5, <1>6 DEF Profile
<1>8. p.url = url /\ p.key = k /\ IdAtHome(url, p.sid, g)
    BY <1>6
<1> HIDE DEF p
<1>9. qs = [ps EXCEPT ![i] = p]
    BY <1>4 DEF p
<1>10. i \in Ids
    BY <1>3, <1>4
<1> QED
    BY <1>5, <1>7, <1>8, <1>9, <1>10 DEF Book, BookAtHome, Used

LEMMA ReselectedLemma ==
    ASSUME NEW s \in Settings, NEW g, AtHome(s, g), NEW t \in Reselected(s)
    PROVE  t \in Settings /\ t.v2 = s.v2 /\ AtHome(t, g)
<1>1. \/ t = s
      \/ \E i \in Ids \cup {Blank} : t = [s EXCEPT !.selected = i]
    BY DEF Reselected, Used
<1> QED
    BY <1>1 DEF Settings, AtHome

(***************************************************************************)
(* The types, and who holds appSettingsMu.                                 *)
(***************************************************************************)
Mutex == \A c \in Clients :
    /\ writing[c] <=> appSettingsMu = c
    /\ stage[c] = "idle" => ~writing[c]
    /\ stage[c] = "saved" => writing[c]

Room == \A c \in Clients :
    writing[c] /\ stage[c] # "saved" => settingsSaves < MaxSettingsSaves

\* The file is never removed.
FileStays == \A c \in Clients :
    stage[c] \in {"lookup", "read", "fill", "saved"} => settingsFile # None

Copies ==
    /\ settingsFile # None => AtHome(settingsFile.val, given)
    /\ settingsCache # None => AtHome(settingsCache.val, given)
    /\ \A c \in Clients : AtHome(loaded[c], given)

SettingsIInv ==
    /\ SettingsAssumption /\ SettingsTypeOK /\ given \subseteq Pairs
    /\ Mutex /\ Room /\ FileStays /\ Copies

SettingsFile == [stamp : 0..MaxSettingsSaves, val : Settings]

SaveSomething(c) ==
    SaveConnection(c) \/ SaveProfile(c) \/ DeleteProfile(c) \/ SelectProfile(c)

\* What every save has in common.
LEMMA SaveLemma ==
    ASSUME SettingsIInv, NEW c \in Clients, SaveSomething(c)
    PROVE  /\ CanSave(c)
           /\ \E s \in Settings, typed \in SUBSET Pairs :
                Save(c, s, typed) /\ s.v2 /\ AtHome(s, given \cup typed)
<1> USE DEF SettingsIInv
<1>1. CanSave(c)
    BY DEF SaveSomething, SaveConnection, SaveProfile, DeleteProfile, SelectProfile
<1>2. loaded[c] \in Settings /\ AtHome(loaded[c], given) /\ loaded[c].profiles \in Book
    BY DEF SettingsTypeOK, Copies, Settings, Book
<1>3. \A t : AtHome(loaded[c], given \cup t)
    BY <1>2 DEF AtHome, BookAtHome, IdAtHome
<1>4. CASE SaveConnection(c)
    <2>1. PICK url \in Urls, purl \in Urls, key \in Keys \cup {Blank}, pkey \in Keys \cup {Blank},
               id \in Ids \cup {Blank}, sel \in Ids \cup {Blank} :
          \E k \in TypedOr(key, SavedKeys(loaded[c], url)), f \in Fetched(purl) :
          \E ps \in Upserted(loaded[c].profiles, id, purl, IF pkey = Blank /\ purl = url THEN k ELSE pkey, f) :
          \E s \in Reselected([v2 |-> TRUE, conn |-> [url |-> url, key |-> k],
                               profiles |-> ps,
                               selected |-> IF sel # Blank THEN sel ELSE loaded[c].selected]) :
            Save(c, s, Typed(url, key) \cup Typed(purl, pkey))
        BY <1>4 DEF SaveConnection
    <2>2. PICK k \in TypedOr(key, SavedKeys(loaded[c], url)), f \in Fetched(purl) :
          \E ps \in Upserted(loaded[c].profiles, id, purl, IF pkey = Blank /\ purl = url THEN k ELSE pkey, f) :
          \E s \in Reselected([v2 |-> TRUE, conn |-> [url |-> url, key |-> k],
                               profiles |-> ps,
                               selected |-> IF sel # Blank THEN sel ELSE loaded[c].selected]) :
            Save(c, s, Typed(url, key) \cup Typed(purl, pkey))
        BY <2>1
    <2>3. PICK ps \in Upserted(loaded[c].profiles, id, purl, IF pkey = Blank /\ purl = url THEN k ELSE pkey, f) :
          \E s \in Reselected([v2 |-> TRUE, conn |-> [url |-> url, key |-> k],
                               profiles |-> ps,
                               selected |-> IF sel # Blank THEN sel ELSE loaded[c].selected]) :
            Save(c, s, Typed(url, key) \cup Typed(purl, pkey))
        BY <2>2
    <2> DEFINE typed == Typed(url, key) \cup Typed(purl, pkey)
               g == given \cup typed
               selected == IF sel # Blank THEN sel ELSE loaded[c].selected
               r == [v2 |-> TRUE, conn |-> [url |-> url, key |-> k],
                     profiles |-> ps, selected |-> selected]
    <2>4. PICK s \in Reselected(r) : Save(c, s, typed)
        BY <2>3
    <2>5. typed \in SUBSET Pairs
        BY DEF Typed, Pairs
    <2>6. k \in Keys /\ <<url, k>> \in g
        <3>1. CASE key # Blank
            BY <2>2, <3>1 DEF TypedOr, Typed
        <3>2. CASE key = Blank
            BY <1>2, <2>2, <3>2, SavedLemma DEF TypedOr
        <3> QED
            BY <3>1, <3>2
    <2>7. BookAtHome(loaded[c].profiles, g)
        BY <1>3 DEF AtHome
    <2>8. pkey # Blank => <<purl, pkey>> \in g
        BY DEF Typed
    <2>9. selected \in Ids \cup {Blank}
        BY <1>2 DEF Settings
    <2> HIDE DEF g, selected, typed
    <2>10. ps \in Book /\ BookAtHome(ps, g)
        <3> DEFINE pk == IF pkey = Blank /\ purl = url THEN k ELSE pkey
        <3>1. pk \in Keys \cup {Blank} /\ (pk # Blank => <<purl, pk>> \in g)
            BY <2>6, <2>8
        <3>2. ps \in Upserted(loaded[c].profiles, id, purl, pk, f)
            BY <2>3
        <3>3. f \in Urls \cup {Blank} /\ IdAtHome(purl, f, g)
            BY <2>2 DEF Fetched, IdAtHome
        <3> HIDE DEF pk
        <3> QED
            BY <1>2, <2>7, <3>1, <3>2, <3>3, UpsertedLemma
    <2>11. r \in Settings /\ AtHome(r, g) /\ r.v2
        BY <1>2, <2>6, <2>10, <2>9 DEF Settings, Conn, Book, AtHome
    <2>12. s \in Settings /\ s.v2 /\ AtHome(s, g)
        BY <2>4, <2>11, ReselectedLemma
    <2> QED
        BY <1>1, <2>4, <2>5, <2>12 DEF g
<1>5. CASE SaveProfile(c)
    <2>1. PICK url \in Urls, key \in Keys \cup {Blank}, id \in Ids \cup {Blank},
               sid \in Urls \cup {Blank} :
          \E k \in TypedOr(key, SavedKeys(loaded[c], url)), f \in TypedOr(sid, Fetched(url)) :
          \E ps \in Upserted(loaded[c].profiles, id, url, k, f) :
          \E s \in Reselected([v2 |-> TRUE, profiles |-> ps, selected |-> loaded[c].selected,
                               conn |-> IF loaded[c].conn = None
                                        THEN [url |-> url, key |-> k] ELSE loaded[c].conn]) :
            Save(c, s, Typed(url, key) \cup Typed(url, sid))
        BY <1>5 DEF SaveProfile
    <2>2. PICK k \in TypedOr(key, SavedKeys(loaded[c], url)), f \in TypedOr(sid, Fetched(url)) :
          \E ps \in Upserted(loaded[c].profiles, id, url, k, f) :
          \E s \in Reselected([v2 |-> TRUE, profiles |-> ps, selected |-> loaded[c].selected,
                               conn |-> IF loaded[c].conn = None
                                        THEN [url |-> url, key |-> k] ELSE loaded[c].conn]) :
            Save(c, s, Typed(url, key) \cup Typed(url, sid))
        BY <2>1
    <2>3. PICK ps \in Upserted(loaded[c].profiles, id, url, k, f) :
          \E s \in Reselected([v2 |-> TRUE, profiles |-> ps, selected |-> loaded[c].selected,
                               conn |-> IF loaded[c].conn = None
                                        THEN [url |-> url, key |-> k] ELSE loaded[c].conn]) :
            Save(c, s, Typed(url, key) \cup Typed(url, sid))
        BY <2>2
    <2> DEFINE typed == Typed(url, key) \cup Typed(url, sid)
               g == given \cup typed
               conn == IF loaded[c].conn = None THEN [url |-> url, key |-> k] ELSE loaded[c].conn
               r == [v2 |-> TRUE, profiles |-> ps, selected |-> loaded[c].selected, conn |-> conn]
    <2>4. PICK s \in Reselected(r) : Save(c, s, typed)
        BY <2>3
    <2>5. typed \in SUBSET Pairs
        BY DEF Typed, Pairs
    <2>6. k \in Keys /\ <<url, k>> \in g
        <3>1. CASE key # Blank
            BY <2>2, <3>1 DEF TypedOr, Typed
        <3>2. CASE key = Blank
            BY <1>2, <2>2, <3>2, SavedLemma DEF TypedOr
        <3> QED
            BY <3>1, <3>2
    <2>7. AtHome(loaded[c], g)
        BY <1>3
    <2>8. f \in Urls \cup {Blank} /\ IdAtHome(url, f, g)
        BY <2>2 DEF TypedOr, Fetched, IdAtHome, Typed
    <2> HIDE DEF g, typed
    <2>9. ps \in Book /\ BookAtHome(ps, g)
        BY <1>2, <2>3, <2>6, <2>7, <2>8, UpsertedLemma DEF AtHome
    <2>10. conn \in Conn \cup {None} /\ (conn # None => <<conn.url, conn.key>> \in g)
        BY <1>2, <2>6, <2>7 DEF Settings, Conn, AtHome
    <2> HIDE DEF conn
    <2>11. r \in Settings /\ AtHome(r, g) /\ r.v2
        BY <1>2, <2>9, <2>10 DEF Settings, Book, AtHome
    <2>12. s \in Settings /\ s.v2 /\ AtHome(s, g)
        BY <2>4, <2>11, ReselectedLemma
    <2> QED
        BY <1>1, <2>4, <2>5, <2>12 DEF g
<1>6. CASE DeleteProfile(c)
    <2>1. PICK id \in Used(loaded[c].profiles) :
          \E s \in Reselected([loaded[c] EXCEPT !.v2 = TRUE, !.profiles[id] = None]) : Save(c, s, {})
        BY <1>6 DEF DeleteProfile
    <2> DEFINE ps == [loaded[c].profiles EXCEPT ![id] = None]
               r == [loaded[c] EXCEPT !.v2 = TRUE, !.profiles = ps]
    <2>2. [loaded[c] EXCEPT !.v2 = TRUE, !.profiles[id] = None] = r
        BY <1>2 DEF Settings
    <2>3. PICK s \in Reselected(r) : Save(c, s, {})
        BY <2>1, <2>2
    <2>4. id \in Ids
        BY DEF Used
    <2>5. ps \in Book /\ BookAtHome(ps, given)
        BY <1>2, <2>4 DEF Book, AtHome, BookAtHome, Used
    <2> HIDE DEF ps
    <2>6. r \in Settings /\ r.v2 /\ AtHome(r, given)
        BY <1>2, <2>5 DEF Settings, Book, AtHome
    <2>7. s \in Settings /\ s.v2 /\ AtHome(s, given)
        BY <2>3, <2>6, ReselectedLemma
    <2>8. given \cup {} = given
        OBVIOUS
    <2> QED
        BY <1>1, <2>3, <2>7, <2>8
<1>7. CASE SelectProfile(c)
    <2>1. PICK id \in Used(loaded[c].profiles) :
            Save(c, [loaded[c] EXCEPT !.v2 = TRUE, !.selected = id], {})
        BY <1>7 DEF SelectProfile
    <2> DEFINE s == [loaded[c] EXCEPT !.v2 = TRUE, !.selected = id]
    <2>2. id \in Ids
        BY DEF Used
    <2>3. s \in Settings /\ s.v2 /\ AtHome(s, given)
        BY <1>2, <2>2 DEF Settings, AtHome
    <2>4. given \cup {} = given
        OBVIOUS
    <2> QED
        BY <1>1, <2>1, <2>3, <2>4
<1> QED
    BY <1>4, <1>5, <1>6, <1>7 DEF SaveSomething

LEMMA SettingsInitInv == SettingsAssumption /\ SettingsInit => SettingsIInv
<1> SUFFICES ASSUME SettingsAssumption, SettingsInit PROVE SettingsIInv
    OBVIOUS
<1>1. \A x \in Conn : [Empty EXCEPT !.conn = x] \in Settings
    BY EmptyLemma DEF Empty, Settings
<1>2. settingsFile # None => \E x \in Conn : settingsFile = [stamp |-> 0, val |-> [Empty EXCEPT !.conn = x]]
    BY DEF SettingsInit
<1>3. settingsFile \in SettingsFile \cup {None}
    BY <1>1, <1>2 DEF SettingsFile, SettingsAssumption
<1>4. given \subseteq Pairs /\ (settingsFile # None => AtHome(settingsFile.val, given))
    <2>1. CASE settingsFile = None
        BY <2>1 DEF SettingsInit
    <2>2. CASE settingsFile # None
        <3>1. PICK x \in Conn : settingsFile = [stamp |-> 0, val |-> [Empty EXCEPT !.conn = x]]
            BY <1>2, <2>2
        <3>2. settingsFile.val.conn = x /\ settingsFile.val.profiles = Empty.profiles
            BY <3>1 DEF Empty
        <3>3. given = {<<x.url, x.key>>}
            BY <2>2, <3>2 DEF SettingsInit
        <3> QED
            BY <3>2, <3>3, EmptyLemma DEF AtHome, Conn, Pairs
    <2> QED
        BY <2>1, <2>2
<1>5. SettingsTypeOK
    <2>1. Empty \in Settings
        BY EmptyLemma
    <2> QED
        BY <1>3, <1>4, <2>1 DEF SettingsInit, SettingsTypeOK, SettingsFile, SettingsAssumption, Pairs
<1>6. Mutex /\ Room /\ FileStays
    BY DEF SettingsInit, Mutex, Room, FileStays, SettingsAssumption
<1>7. Copies
    BY <1>4, EmptyLemma DEF SettingsInit, Copies
<1> QED
    BY <1>4, <1>5, <1>6, <1>7 DEF SettingsIInv

\* Requests that arrive, look at the file and ask the cache.
LEMMA LookInv ==
    ASSUME SettingsIInv, NEW c \in Clients,
           BeginRead(c) \/ BeginWrite(c) \/ StatFile(c) \/ LookUp(c)
    PROVE  SettingsIInv'
<1> USE DEF SettingsIInv
<1>1. /\ settingsFile' = settingsFile /\ settingsCache' = settingsCache
      /\ settingsSaves' = settingsSaves /\ given' = given
    BY DEF BeginRead, BeginWrite, StatFile, LookUp
<1>2. SettingsTypeOK'
    BY EmptyLemma DEF SettingsTypeOK, BeginRead, BeginWrite, StatFile, LookUp, Moves, Hit
<1>3. Mutex' /\ Room'
    BY DEF SettingsTypeOK, Mutex, Room, BeginRead, BeginWrite, StatFile, LookUp, Moves, SettingsAssumption
<1>4. FileStays'
    BY DEF SettingsTypeOK, FileStays, BeginRead, BeginWrite, StatFile, LookUp, Moves
<1>5. \A d \in Clients : AtHome(loaded'[d], given)
    BY EmptyLemma DEF SettingsTypeOK, Copies, BeginRead, BeginWrite, StatFile, LookUp, Hit
<1> QED
    BY <1>1, <1>2, <1>3, <1>4, <1>5 DEF Copies

\* The file is parsed and its form is put into the cache.
LEMMA SettingsReadInv ==
    ASSUME SettingsIInv, NEW c \in Clients, ReadFile(c) \/ FillCache(c)
    PROVE  SettingsIInv'
<1> USE DEF SettingsIInv
<1>1. /\ settingsFile' = settingsFile /\ settingsSaves' = settingsSaves
      /\ given' = given /\ appSettingsMu' = appSettingsMu
      /\ writing' = writing /\ statSeen' = statSeen
    BY DEF ReadFile, FillCache
<1>2. \/ loaded' = loaded
      \/ loaded' = [loaded EXCEPT ![c] = Migrated(settingsFile.val)] /\ settingsFile # None
    BY DEF ReadFile, FillCache, Moves, FileStays
<1>3. /\ loaded' \in [Clients -> Settings]
      /\ \A d \in Clients : AtHome(loaded'[d], given)
    BY <1>2, MigratedLemma DEF SettingsTypeOK, Copies
<1>4. \/ settingsCache' = settingsCache
      \/ settingsCache' = [stamp |-> statSeen[c], val |-> loaded[c]]
    BY DEF ReadFile, FillCache
<1>5. /\ settingsCache' \in SettingsFile \cup {None}
      /\ settingsCache' # None => AtHome(settingsCache'.val, given)
    BY <1>4 DEF SettingsTypeOK, SettingsFile, Copies
<1>6. stage' \in [Clients -> {"idle", "stat", "lookup", "read", "fill", "loaded", "saved"}]
    BY DEF SettingsTypeOK, ReadFile, FillCache, Moves
<1>7. SettingsTypeOK'
    BY <1>1, <1>3, <1>5, <1>6 DEF SettingsTypeOK, SettingsFile
<1>8. Mutex' /\ Room' /\ FileStays'
    BY <1>1 DEF SettingsTypeOK, Mutex, Room, FileStays, ReadFile, FillCache, Moves
<1> QED
    BY <1>1, <1>3, <1>5, <1>7, <1>8 DEF Copies

\* A request ends, answered, refused or after its save.
LEMMA EndInv ==
    ASSUME SettingsIInv, NEW c \in Clients, Answer(c) \/ RefuseSave(c) \/ EndSave(c)
    PROVE  SettingsIInv'
<1> USE DEF SettingsIInv
<1>1. /\ settingsFile' = settingsFile /\ settingsSaves' = settingsSaves /\ given' = given
      /\ Ends(c, "loaded") \/ Ends(c, "saved")
    BY DEF Answer, RefuseSave, EndSave
<1>2. /\ stage' = [stage EXCEPT ![c] = "idle"] /\ writing' = [writing EXCEPT ![c] = FALSE]
      /\ statSeen' = [statSeen EXCEPT ![c] = 0] /\ loaded' = [loaded EXCEPT ![c] = Empty]
    BY <1>1 DEF Ends, Moves
<1>3. \/ appSettingsMu' = None /\ appSettingsMu = c
      \/ appSettingsMu' = appSettingsMu /\ ~writing[c]
    BY DEF Answer, RefuseSave, EndSave, Ends, Moves, Mutex
<1>4. \/ settingsCache' = settingsCache
      \/ settingsCache' = [stamp |-> settingsFile.stamp, val |-> loaded[c]] /\ settingsFile # None
    BY DEF Answer, RefuseSave, EndSave, Ends, Moves, FileStays
<1>5. /\ settingsCache' \in SettingsFile \cup {None}
      /\ settingsCache' # None => AtHome(settingsCache'.val, given)
    BY <1>4 DEF SettingsTypeOK, SettingsFile, Copies
<1>6. /\ loaded' \in [Clients -> Settings]
      /\ \A d \in Clients : AtHome(loaded'[d], given)
    BY <1>2, EmptyLemma DEF SettingsTypeOK, Copies
<1>7. SettingsTypeOK'
    BY <1>1, <1>2, <1>3, <1>5, <1>6 DEF SettingsTypeOK, SettingsFile, SettingsAssumption
<1>8. Mutex' /\ Room' /\ FileStays'
    BY <1>1, <1>2, <1>3 DEF SettingsTypeOK, Mutex, Room, FileStays, SettingsAssumption
<1> QED
    BY <1>1, <1>5, <1>6, <1>7, <1>8 DEF Copies

\* What a key was typed for is not forgotten.
LEMMA KeptLemma == \A s, g, t : AtHome(s, g) => AtHome(s, g \cup t)
BY DEF AtHome, BookAtHome, IdAtHome

LEMMA SaveInv ==
    ASSUME SettingsIInv, NEW c \in Clients, SaveSomething(c)
    PROVE  SettingsIInv'
<1> USE DEF SettingsIInv
<1>1. CanSave(c)
    BY SaveLemma
<1>2. PICK s \in Settings, typed \in SUBSET Pairs :
        Save(c, s, typed) /\ s.v2 /\ AtHome(s, given \cup typed)
    BY SaveLemma
<1>3. /\ stage[c] = "loaded" /\ writing[c] /\ appSettingsMu = c
      /\ settingsSaves < MaxSettingsSaves
    BY <1>1 DEF CanSave, Mutex, Room
<1>4. PICK t \in 0..MaxSettingsSaves : settingsFile' = [stamp |-> t, val |-> s]
    BY <1>2, <1>3 DEF Save, SettingsTypeOK, SettingsAssumption
<1>5. /\ stage' = [stage EXCEPT ![c] = "saved"] /\ settingsSaves' = settingsSaves + 1
      /\ loaded' = [loaded EXCEPT ![c] = s] /\ given' = given \cup typed
      /\ settingsCache' = settingsCache /\ appSettingsMu' = appSettingsMu
      /\ writing' = writing /\ statSeen' = statSeen
    BY <1>2 DEF Save, Moves
<1>6. settingsFile' \in SettingsFile /\ settingsFile'.val = s /\ settingsFile' # None
    BY <1>4 DEF SettingsFile, SettingsAssumption
<1>7. SettingsTypeOK'
    BY <1>3, <1>5, <1>6 DEF SettingsTypeOK, SettingsFile, SettingsAssumption, Pairs
<1>8. Mutex' /\ Room' /\ FileStays'
    BY <1>3, <1>5, <1>6 DEF SettingsTypeOK, Mutex, Room, FileStays
<1>9. /\ settingsCache' # None => AtHome(settingsCache'.val, given')
      /\ \A d \in Clients : AtHome(loaded'[d], given')
      /\ AtHome(settingsFile'.val, given')
    BY <1>2, <1>5, <1>6, KeptLemma DEF Copies, SettingsTypeOK
<1>10. given' \subseteq Pairs
    BY <1>5
<1> QED
    BY <1>7, <1>8, <1>9, <1>10 DEF Copies

LEMMA SettingsNextInv == SettingsIInv /\ [SettingsNext]_settingsVars => SettingsIInv'
<1> SUFFICES ASSUME SettingsIInv, [SettingsNext]_settingsVars PROVE SettingsIInv'
    OBVIOUS
<1>1. CASE UNCHANGED settingsVars
    BY <1>1 DEF settingsVars, SettingsIInv, SettingsTypeOK, Mutex, Room, FileStays, Copies
<1>2. CASE SettingsNext
    <2>1. PICK c \in Clients :
            \/ BeginRead(c) \/ BeginWrite(c) \/ StatFile(c) \/ LookUp(c)
            \/ ReadFile(c) \/ FillCache(c)
            \/ Answer(c) \/ RefuseSave(c) \/ EndSave(c) \/ SaveSomething(c)
        BY <1>2 DEF SettingsNext, SaveSomething
    <2> QED
        BY <2>1, LookInv, SettingsReadInv, EndInv, SaveInv
<1> QED
    BY <1>1, <1>2

\* Loads, saves and checks of the settings, in any interleaving, keep the
\* invariant of file, cache and requests.
THEOREM SettingsInvariant ==
    ASSUME SettingsAssumption
    PROVE  SettingsSpec => []SettingsIInv
<1>1. SettingsInit => SettingsIInv
    BY SettingsInitInv
<1> QED
    BY <1>1, SettingsNextInv, PTL DEF SettingsSpec

\* No key leaves the address it was typed for, wherever the settings are kept
\* and whatever address a job asks a key for, and the id of a server does not move
\* along with a profile: it is the one of the server that answered at the address,
\* or was named for this address by a request, which is not checked (settings.go,
\* normalizedProfileFromSave, savedAPIKeyForBaseURL, resolveEmbyConnection).
THEOREM KeysStay ==
    ASSUME SettingsAssumption
    PROVE  SettingsSpec => []KeysStayHome
<1>1. SettingsIInv => KeysStayHome
    <2> SUFFICES ASSUME SettingsIInv PROVE KeysStayHome
        OBVIOUS
    <2> USE DEF SettingsIInv
    <2>1. \A s : AtHome(s, given) => KeysAtHome(s)
        BY DEF AtHome, BookAtHome, IdAtHome, KeysAtHome
    <2>2. \A c \in Clients, u \in Urls :
            ResolvedKeys(loaded[c], u) \subseteq {k \in Keys : <<u, k>> \in given}
        BY SavedLemma DEF ResolvedKeys, Copies, SettingsTypeOK
    <2> QED
        BY <2>1, <2>2 DEF KeysStayHome, Copies
<1> QED
    BY <1>1, SettingsInvariant, PTL

(***************************************************************************)
(* Lost updates.  A stamp older than the file's stays older, so whatever a *)
(* slow reader puts into the cache is never found under the file's stamp,  *)
(* unless two saves share a stamp.                                         *)
(***************************************************************************)
Kept == IF settingsFile = None THEN Empty ELSE Migrated(settingsFile.val)

Stamps ==
    /\ settingsFile # None => settingsFile.stamp = settingsSaves
    /\ settingsCache # None => settingsFile # None /\ settingsCache.stamp <= settingsSaves
    /\ \A c \in Clients : stage[c] \in {"lookup", "read", "fill"} =>
         /\ statSeen[c] <= settingsSaves
         /\ writing[c] => statSeen[c] = settingsSaves

Loads == \A c \in Clients :
    /\ stage[c] = "fill" /\ statSeen[c] = settingsSaves => loaded[c] = Kept
    /\ writing[c] /\ stage[c] = "loaded" => loaded[c] = Kept
    /\ stage[c] = "saved" => loaded[c] = settingsFile.val /\ loaded[c].v2

ClockInv == Stamps /\ Loads /\ CacheIsTrue

LEMMA ClockInit == SettingsAssumption /\ SettingsInit => ClockInv
<1> SUFFICES ASSUME SettingsAssumption, SettingsInit PROVE ClockInv
    OBVIOUS
<1>1. settingsFile # None => settingsFile.stamp = 0
    BY DEF SettingsInit
<1> QED
    BY <1>1 DEF SettingsInit, ClockInv, Stamps, Loads, CacheIsTrue

\* A step that keeps the file and does not fill the cache.
LEMMA ClockLook ==
    ASSUME SettingsIInv, ClockInv, NEW c \in Clients,
           \/ BeginRead(c) \/ BeginWrite(c) \/ StatFile(c) \/ LookUp(c)
           \/ ReadFile(c) \/ Answer(c) \/ RefuseSave(c)
    PROVE  ClockInv'
<1> USE DEF SettingsIInv, ClockInv
<1>1. /\ settingsFile' = settingsFile /\ settingsCache' = settingsCache
      /\ settingsSaves' = settingsSaves
    BY DEF BeginRead, BeginWrite, StatFile, LookUp, ReadFile, Answer, RefuseSave
<1>2. Kept' = Kept /\ CacheIsTrue'
    BY <1>1 DEF Kept, CacheIsTrue
<1>3. \A d \in Clients \ {c} :
        stage'[d] = stage[d] /\ writing'[d] = writing[d] /\ statSeen'[d] = statSeen[d] /\ loaded'[d] = loaded[d]
    BY DEF BeginRead, BeginWrite, StatFile, LookUp, ReadFile, Answer, RefuseSave, Ends, Moves, SettingsTypeOK
<1>4. /\ stage'[c] # "saved"
      /\ stage'[c] \in {"lookup", "read", "fill"} => statSeen'[c] <= settingsSaves
      /\ stage'[c] \in {"lookup", "read", "fill"} /\ writing'[c] => statSeen'[c] = settingsSaves
    BY DEF BeginRead, BeginWrite, StatFile, LookUp, ReadFile, Answer, RefuseSave, Ends, Moves,
           SettingsTypeOK, Stamps
<1>5. stage'[c] = "fill" => loaded'[c] = Kept
    BY DEF BeginRead, BeginWrite, StatFile, LookUp, ReadFile, Answer, RefuseSave, Ends, Moves,
           SettingsTypeOK, FileStays, Kept
<1>6. stage'[c] = "loaded" /\ writing'[c] => loaded'[c] = Kept
    <2>1. CASE LookUp(c)
        <3>1. SUFFICES ASSUME Hit(c), stage[c] = "lookup", writing[c]
                       PROVE  settingsCache.val = Kept
            BY <2>1 DEF LookUp, Moves, SettingsTypeOK
        <3>2. /\ settingsFile # None /\ settingsCache # None
              /\ settingsCache.stamp = settingsFile.stamp
            BY <3>1 DEF Hit, Stamps, FileStays
        <3> QED
            BY <3>2 DEF Kept, CacheIsTrue
    <2>2. CASE StatFile(c)
        BY <2>2 DEF StatFile, Moves, SettingsTypeOK, Kept
    <2> QED
        BY <2>1, <2>2 DEF BeginRead, BeginWrite, ReadFile, Answer, RefuseSave, Ends, Moves, SettingsTypeOK
<1>7. Stamps'
    BY <1>1, <1>3, <1>4 DEF Stamps
<1>8. Loads'
    BY <1>1, <1>2, <1>3, <1>4, <1>5, <1>6 DEF Loads
<1> QED
    BY <1>2, <1>7, <1>8

LEMMA ClockFill ==
    ASSUME SettingsIInv, ClockInv, NEW c \in Clients, FillCache(c) \/ EndSave(c)
    PROVE  ClockInv'
<1> USE DEF SettingsIInv, ClockInv
<1>1. /\ settingsFile' = settingsFile /\ settingsSaves' = settingsSaves /\ settingsFile # None
      /\ stage[c] \in {"fill", "saved"}
    BY DEF FillCache, EndSave, Ends, Moves, FileStays
<1>2. Kept' = Kept
    BY <1>1 DEF Kept
<1>3. \A d \in Clients \ {c} :
        stage'[d] = stage[d] /\ writing'[d] = writing[d] /\ statSeen'[d] = statSeen[d] /\ loaded'[d] = loaded[d]
    BY DEF FillCache, EndSave, Ends, Moves, SettingsTypeOK
<1>4. stage'[c] \in {"loaded", "idle"} /\ (stage'[c] = "idle" => ~writing'[c])
    BY DEF FillCache, EndSave, Ends, Moves, SettingsTypeOK
<1>5. stage'[c] = "loaded" /\ writing'[c] => loaded'[c] = Kept
    BY DEF FillCache, EndSave, Ends, Moves, SettingsTypeOK, Stamps, Loads
<1>6. \/ /\ settingsCache' = [stamp |-> statSeen[c], val |-> loaded[c]]
         /\ statSeen[c] <= settingsSaves
         /\ statSeen[c] = settingsSaves => loaded[c] = Kept
      \/ /\ settingsCache' = [stamp |-> settingsFile.stamp, val |-> loaded[c]]
         /\ loaded[c] = Kept
    <2>1. CASE FillCache(c)
        BY <2>1 DEF FillCache, Moves, Stamps, Loads
    <2>2. CASE EndSave(c)
        <3>1. loaded[c] = settingsFile.val /\ loaded[c].v2
            BY <2>2 DEF EndSave, Ends, Moves, Loads
        <3> QED
            BY <1>1, <2>2, <3>1 DEF EndSave, Kept, Migrated
    <2> QED
        BY <2>1, <2>2
<1>7. /\ settingsFile.stamp = settingsSaves
      /\ settingsCache'.stamp <= settingsSaves
      /\ settingsCache'.stamp = settingsSaves => settingsCache'.val = Kept
    BY <1>1, <1>6 DEF Stamps, SettingsTypeOK, SettingsAssumption
<1>8. Stamps'
    BY <1>1, <1>3, <1>4, <1>7 DEF Stamps
<1>9. Loads' /\ CacheIsTrue'
    BY <1>1, <1>2, <1>3, <1>4, <1>5, <1>7 DEF Loads, CacheIsTrue, Kept
<1> QED
    BY <1>8, <1>9

LEMMA ClockSave ==
    ASSUME SettingsIInv, ClockInv, ~CoarseClock, NEW c \in Clients, SaveSomething(c)
    PROVE  ClockInv' /\ loaded[c] = Kept /\ \A d \in Clients \ {c} : stage'[d] = stage[d]
<1> USE DEF SettingsIInv, ClockInv
<1>1. stage[c] = "loaded" /\ writing[c] /\ appSettingsMu = c
    BY SaveLemma DEF CanSave, Mutex
<1>2. PICK s \in Settings, typed \in SUBSET Pairs : Save(c, s, typed) /\ s.v2
    BY SaveLemma
<1>3. /\ stage' = [stage EXCEPT ![c] = "saved"] /\ settingsSaves' = settingsSaves + 1
      /\ loaded' = [loaded EXCEPT ![c] = s]
      /\ settingsCache' = settingsCache /\ writing' = writing /\ statSeen' = statSeen
    BY <1>2 DEF Save, Moves
<1>4. settingsFile' = [stamp |-> settingsSaves + 1, val |-> s]
    BY <1>2 DEF Save
<1>5. settingsFile' # None /\ settingsFile'.stamp = settingsSaves + 1 /\ settingsFile'.val = s
    <2>1. settingsSaves + 1 \in 0..MaxSettingsSaves
        BY <1>1 DEF Room, SettingsTypeOK, SettingsAssumption
    <2> QED
        BY <1>4, <2>1 DEF SettingsAssumption
<1>6. \A d \in Clients \ {c} : ~writing[d] /\ stage[d] # "saved"
    BY <1>1 DEF Mutex
<1>7. loaded[c] = Kept
    BY <1>1 DEF Loads
<1>8. settingsSaves \in Nat /\ statSeen \in [Clients -> Nat] /\ (settingsCache # None => settingsCache.stamp \in Nat)
    BY DEF SettingsTypeOK, SettingsAssumption
<1>9. \A d \in Clients \ {c} : stage'[d] = stage[d] /\ loaded'[d] = loaded[d]
    BY <1>3 DEF SettingsTypeOK
<1>10. stage'[c] = "saved" /\ loaded'[c] = s
    BY <1>3 DEF SettingsTypeOK
<1>11. Stamps'
    BY <1>3, <1>5, <1>6, <1>8, <1>9, <1>10 DEF Stamps
<1>12. Loads'
    <2> SUFFICES ASSUME NEW d \in Clients
                 PROVE  /\ stage'[d] = "fill" /\ statSeen'[d] = settingsSaves' => loaded'[d] = Kept'
                        /\ writing'[d] /\ stage'[d] = "loaded" => loaded'[d] = Kept'
                        /\ stage'[d] = "saved" => loaded'[d] = settingsFile'.val /\ loaded'[d].v2
        BY DEF Loads
    <2>1. CASE d = c
        BY <1>2, <1>5, <1>10, <2>1
    <2>2. CASE d # c
        BY <1>3, <1>6, <1>8, <1>9, <2>2 DEF Stamps
    <2> QED
        BY <2>1, <2>2
<1>13. CacheIsTrue'
    BY <1>3, <1>5, <1>8 DEF Stamps, CacheIsTrue
<1> QED
    BY <1>7, <1>9, <1>11, <1>12, <1>13

LEMMA ClockNext == ~CoarseClock /\ SettingsIInv /\ ClockInv /\ [SettingsNext]_settingsVars => ClockInv'
<1> SUFFICES ASSUME ~CoarseClock, SettingsIInv, ClockInv, [SettingsNext]_settingsVars PROVE ClockInv'
    OBVIOUS
<1>1. CASE UNCHANGED settingsVars
    BY <1>1 DEF settingsVars, ClockInv, Stamps, Loads, CacheIsTrue, Kept
<1>2. CASE SettingsNext
    <2>1. PICK c \in Clients :
            \/ BeginRead(c) \/ BeginWrite(c) \/ StatFile(c) \/ LookUp(c)
            \/ ReadFile(c) \/ FillCache(c)
            \/ Answer(c) \/ RefuseSave(c) \/ EndSave(c) \/ SaveSomething(c)
        BY <1>2 DEF SettingsNext, SaveSomething
    <2> QED
        BY <2>1, ClockLook, ClockFill, ClockSave
<1> QED
    BY <1>1, <1>2

\* A save starts from what the file holds at that moment, whatever readers put
\* into the cache meanwhile, as long as no two saves leave the same time and
\* size (settings.go, loadAppSettings and updateAppSettings).
THEOREM NoUpdateIsLost ==
    ASSUME SettingsAssumption, ~CoarseClock
    PROVE  SettingsSpec => NoLostUpdate
<1>1. SettingsInit => ClockInv
    BY ClockInit
<1>2. SettingsIInv /\ ClockInv /\ [SettingsNext]_settingsVars => ClockInv'
    BY ClockNext
<1>3. SettingsIInv /\ ClockInv /\ [SettingsNext]_settingsVars =>
        [\A c \in Clients :
           settingsFile' # settingsFile /\ stage'[c] # stage[c] =>
             loaded[c] = IF settingsFile = None THEN Empty
                         ELSE Migrated(settingsFile.val)]_settingsVars
    <2> SUFFICES ASSUME SettingsIInv, ClockInv, SettingsNext, NEW c \in Clients,
                        settingsFile' # settingsFile, stage'[c] # stage[c]
                 PROVE  loaded[c] = Kept
        BY DEF settingsVars, Kept
    <2>1. PICK d \in Clients : SaveSomething(d)
        BY DEF SettingsNext, SaveSomething, BeginRead, BeginWrite, StatFile, LookUp, ReadFile,
               FillCache, Answer, RefuseSave, EndSave
    <2>2. d = c
        BY <2>1, ClockSave
    <2> QED
        BY <2>1, <2>2, ClockSave
<1> QED
    BY <1>1, <1>2, <1>3, SettingsInvariant, PTL DEF SettingsSpec, NoLostUpdate

-----------------------------------------------------------------------------
(* Accounts *)

Normal(a) == Normalized(a) = a

\* A name and a password as the history has them for their session version.
Known(a)      == Version(a) \in DOMAIN creds /\ creds[Version(a)] = <<a.name, a.pw>>
KnownToken(t) == t.sv \in DOMAIN creds /\ creds[t.sv] = <<t.name, t.pw>>

Loading == {"normalize", "restat", "fill"}
Viewing == Loading \cup {"loaded", "clear"}

Locks == \A c \in Clients :
    /\ step[c] \in Loading <=> usersConfigMu = c
    /\ usersWriteMu = c <=> op[c] \in {"change", "upgrade"} /\ step[c] # "wait"
    /\ step[c] = "idle" <=> op[c] = "none"
    /\ step[c] \in {"wait", "clear"} => op[c] \in {"change", "upgrade"}

\* The file is never removed, and its stamp counts the writes.
Files ==
    /\ usersFile # None => usersFile.stamp = usersSaves
    /\ usersFile = None => usersSaves = 0
    /\ usersCache # None => usersFile # None /\ usersCache.stamp <= usersSaves
    /\ \A c \in Clients : seen[c] <= usersSaves
    /\ \A c \in Clients : step[c] \in Loading \cup {"lock", "clear"} => usersFile # None

\* Until the file has its normal form nobody gets past the load, so that the
\* reader who normalizes it writes over nobody's change.
Unnormal ==
    /\ usersFile # None /\ ~Normal(usersFile.acc) =>
         /\ usersSaves = 0 /\ usersCache = None
         /\ \A c \in Clients : step[c] \in {"idle", "wait", "stat", "lock", "normalize"}
    /\ \A c \in Clients :
         /\ step[c] = "normalize" =>
              ~Normal(usersFile.acc) /\ view[c] = Normalized(usersFile.acc)
         /\ step[c] = "restat" =>
              /\ view[c] = usersFile.acc /\ usersSaves = 1 /\ usersCache = None
              /\ \A d \in Clients \ {c} : step[d] \in {"idle", "wait", "stat", "lock"}

\* What is kept under the stamp of the file is the file.
Fresh ==
    /\ usersCache # None => (usersCache.stamp = usersSaves => usersCache.acc = usersFile.acc)
    /\ \A r \in Clients : step[r] = "fill" /\ seen[r] = usersSaves => view[r] = usersFile.acc

\* The file was normalized and not changed since.
OnlyNormalized ==
    /\ usersSaves = 1 /\ Normal(usersFile.acc)
    /\ usersCache # None => usersCache.acc = usersFile.acc
    /\ \A r \in Clients : step[r] = "fill" => view[r] = usersFile.acc

\* Who holds usersWriteMu has loaded what the file holds; the normalization of
\* a reader, which can pass between its look and its load, changes nothing.
Holder == \A h \in Clients : usersWriteMu = h =>
    /\ step[h] = "lock" => seen[h] = usersSaves \/ OnlyNormalized
    /\ step[h] = "fill" => view[h] = usersFile.acc
    /\ step[h] = "loaded" => view[h] = InForce(usersFile)
    /\ step[h] = "clear" /\ op[h] = "change" => view[h] = usersFile.acc

Versions ==
    /\ DOMAIN creds = 1..Version(InForce(usersFile))
    /\ Known(InForce(usersFile))
    /\ usersCache # None => Known(usersCache.acc)
    /\ \A c \in Clients : step[c] \in Viewing => Known(view[c])
    /\ \A t \in tokens : KnownToken(t)
    /\ \A c \in Clients : op[c] \in {"upgrade", "request"} => KnownToken(shown[c])
    /\ completed <= Version(InForce(usersFile))
    /\ \A c \in Clients : base[c] <= completed

\* Whatever a request may find in the cache under the stamp it has seen is at
\* least as new as the last change completed when it began.
Recent == \A c \in Clients :
    /\ step[c] = "lock" =>
         /\ usersCache # None => (usersCache.stamp = seen[c] => Version(usersCache.acc) >= base[c])
         /\ \A r \in Clients : step[r] = "fill" /\ seen[r] = seen[c] => Version(view[r]) >= base[c]
    /\ step[c] \in Loading \cup {"loaded"} => Version(view[c]) >= base[c]

Valid == /\ AccountTypeOK
         /\ \A c \in Clients : op[c] \in {"login", "change"} => shown[c] \in Claim
         /\ \A c \in Clients : op[c] \in {"upgrade", "request"} => shown[c] \in Session

AccountIInv ==
    /\ AccountsAssumption /\ Valid /\ Locks /\ Files /\ Unnormal /\ Fresh
    /\ Holder /\ Versions /\ Recent

----------------------------------------------------------------------------
LEMMA Ordered == \A x, y, z \in Nat : x <= y /\ y <= z => x <= z /\ z >= x
OBVIOUS

AccountFile == [stamp : 0..MaxUsersSaves, acc : Account]

LEMMA AccountLemma ==
    ASSUME AccountsAssumption, NEW a \in Account
    PROVE  /\ Version(a) \in 1..MaxVersion
           /\ Normalized(a) \in Account /\ Normal(Normalized(a))
           /\ Version(Normalized(a)) = Version(a)
           /\ Normalized(a).name = a.name /\ Normalized(a).pw = a.pw
           /\ Known(a) => Known(Normalized(a))
<1>1. Version(a) \in 1..MaxVersion
    <2>1. a.sv \in 0..MaxVersion /\ MaxVersion \in Nat \ {0}
        BY DEF AccountsAssumption, Account
    <2>2. CASE a.sv = 0
        BY <2>1, <2>2 DEF Version
    <2>3. CASE a.sv # 0
        BY <2>1, <2>3 DEF Version
    <2> QED
        BY <2>2, <2>3
<1>2. /\ Normalized(a) \in Account
      /\ Normalized(a).sv = Version(a) /\ Normalized(a).name = a.name /\ Normalized(a).pw = a.pw
      /\ Normalized(a).form = IF a.form = "plain" THEN "bcrypt" ELSE a.form
    <2> DEFINE v == Version(a)
               f == IF a.form = "plain" THEN "bcrypt" ELSE a.form
    <2>1. v \in 0..MaxVersion /\ f \in {"plain", "sha", "bcrypt"}
        BY <1>1 DEF AccountsAssumption, Account
    <2>2. Normalized(a) = [a EXCEPT !.sv = v, !.form = f]
        BY DEF Normalized
    <2> HIDE DEF v, f
    <2>3. /\ Normalized(a) \in Account
          /\ Normalized(a).sv = v /\ Normalized(a).name = a.name /\ Normalized(a).pw = a.pw
          /\ Normalized(a).form = f
        BY <2>1, <2>2 DEF Account
    <2> QED
        BY <2>3 DEF v, f
<1>3. Version(Normalized(a)) = Version(a)
    BY <1>1, <1>2 DEF Version
<1>4. Normal(Normalized(a))
    <2> DEFINE b == Normalized(a)
    <2>1. b \in Account /\ b.sv = Version(b) /\ b.form # "plain"
        BY <1>2, <1>3
    <2> HIDE DEF b
    <2>2. Normalized(b) = b
        BY <2>1 DEF Normalized, Account
    <2> QED
        BY <2>2 DEF b, Normal
<1> QED
    BY <1>1, <1>2, <1>3, <1>4 DEF Known

\* The account in force, and that of the configuration.
LEMMA InForceLemma ==
    ASSUME AccountsAssumption, AccountTypeOK
    PROVE  /\ InForce(usersFile) \in Account /\ InForce(None) \in Account
           /\ Version(InForce(None)) = 1 /\ Normal(InForce(None))
<1>1. InForce(None) \in Account /\ InForce(None).sv = 1 /\ InForce(None).form = "bcrypt"
    BY DEF InForce, Account, AccountsAssumption
<1>2. InForce(usersFile) \in Account
    BY <1>1 DEF InForce, AccountTypeOK
<1>3. Version(InForce(None)) = 1
    BY <1>1 DEF Version
<1>4. Normal(InForce(None))
    BY <1>1, <1>3 DEF Normal, Normalized, Account
<1> QED
    BY <1>1, <1>2, <1>3, <1>4

LEMMA AccountInitInv == AccountsAssumption /\ AccountInit => AccountIInv
<1> SUFFICES ASSUME AccountsAssumption, AccountInit PROVE AccountIInv
    OBVIOUS
<1>1. usersFile = None \/ \E v \in {0, 1}, f \in {"plain", "sha", "bcrypt"} :
        usersFile = [stamp |-> 0, acc |-> [name |-> Admin, pw |-> Default, sv |-> v, form |-> f]]
    BY DEF AccountInit
<1>2. usersFile \in AccountFile \cup {None} /\ (usersFile # None => usersFile.stamp = 0)
    BY <1>1 DEF AccountFile, Account, AccountsAssumption
<1>3. InForce(None) \in Account
    BY DEF InForce, Account, AccountsAssumption
<1>4. Valid
    <2>1. 0 \in 0..MaxUsersSaves /\ 1 \in 1..MaxVersion
        BY DEF AccountsAssumption
    <2>2. AccountTypeOK
        BY <1>2, <1>3, <2>1 DEF AccountInit, AccountTypeOK, AccountFile
    <2> QED
        BY <2>2 DEF AccountInit, Valid
<1>5. /\ Version(InForce(usersFile)) = 1
      /\ InForce(usersFile).name = Admin /\ InForce(usersFile).pw = Default
    BY <1>1 DEF InForce, Version
<1>6. DOMAIN creds = {1} /\ creds[1] = <<Admin, Default>>
    BY DEF AccountInit
<1>7. 1..1 = {1}
    OBVIOUS
<1>8. Versions
    BY <1>5, <1>6, <1>7 DEF AccountInit, Versions, Known, KnownToken, Viewing, Loading
<1>9. Locks /\ Files /\ Unnormal /\ Fresh /\ Holder /\ Recent
    BY <1>2 DEF AccountInit, Locks, Files, Unnormal, Fresh, Holder, Recent, Loading, AccountsAssumption
<1> QED
    BY <1>4, <1>8, <1>9 DEF AccountIInv

----------------------------------------------------------------------------
\* What a step of c leaves of the other requests.
Rest(c) == \A d \in Clients \ {c} :
    /\ step'[d] = step[d] /\ op'[d] = op[d] /\ shown'[d] = shown[d]
    /\ seen'[d] = seen[d] /\ view'[d] = view[d] /\ base'[d] = base[d]

Files0 == <<usersFile, usersSaves, creds>>

Steps == {"idle", "wait", "stat", "lock", "normalize", "restat", "fill", "loaded", "clear"}
Ops   == {"none", "login", "request", "change", "upgrade"}

\* The end of a request, whatever it releases, issues or reports as completed.
LEMMA EndsInv ==
    ASSUME AccountIInv, NEW c \in Clients, NEW from \in Steps, Finishes(c, from), UNCHANGED Files0,
           usersCache' \in {usersCache, None},
           usersConfigMu' = IF usersConfigMu = c THEN None ELSE usersConfigMu,
           usersWriteMu' = IF usersWriteMu = c THEN None ELSE usersWriteMu,
           tokens' \subseteq Session, \A t \in tokens' : KnownToken(t),
           completed' \in completed..Version(InForce(usersFile))
    PROVE  AccountIInv'
<1> USE DEF AccountIInv
<1>1. /\ usersFile' = usersFile /\ usersSaves' = usersSaves /\ creds' = creds
    BY DEF Files0
<1>2. /\ step' = [step EXCEPT ![c] = "idle"] /\ op' = [op EXCEPT ![c] = "none"]
      /\ shown' = [shown EXCEPT ![c] = None] /\ seen' = [seen EXCEPT ![c] = 0]
      /\ view' = [view EXCEPT ![c] = InForce(None)] /\ base' = [base EXCEPT ![c] = 1]
    BY DEF Finishes, Goes
<1>3. Rest(c) /\ step'[c] = "idle" /\ op'[c] = "none" /\ base'[c] = 1 /\ seen'[c] = 0
    BY <1>2 DEF Rest, Valid, AccountTypeOK
<1>4. Version(InForce(usersFile)) \in 1..MaxVersion /\ InForce(None) \in Account
    BY InForceLemma, AccountLemma DEF Valid
<1>5. completed \in 1..MaxVersion /\ completed' \in 1..MaxVersion /\ completed <= completed'
    BY <1>4 DEF Valid, AccountTypeOK, AccountsAssumption
<1>6. Valid'
    <2>1. 0 \in 0..MaxUsersSaves /\ 1 \in 1..MaxVersion
        BY DEF AccountsAssumption
    <2>2. usersConfigMu' \in Clients \cup {None} /\ usersWriteMu' \in Clients \cup {None}
        BY DEF Valid, AccountTypeOK
    <2>3. AccountTypeOK'
        BY <1>1, <1>2, <1>4, <1>5, <2>1, <2>2 DEF Valid, AccountTypeOK
    <2> QED
        BY <1>3, <2>3 DEF Rest, Valid
<1>7. Locks'
    <2>1. /\ usersConfigMu' # c /\ usersWriteMu' # c
          /\ \A d \in Clients \ {c} : /\ usersConfigMu' = d <=> usersConfigMu = d
                                      /\ usersWriteMu' = d <=> usersWriteMu = d
        BY DEF AccountsAssumption
    <2> QED
        BY <1>3, <2>1 DEF Locks, Rest, Loading
<1>8. Files' /\ Unnormal' /\ Fresh'
    <2>1. Files'
        BY <1>1, <1>3 DEF Files, Rest, Loading, Valid, AccountTypeOK
    <2> QED
        BY <1>1, <1>3, <2>1 DEF Unnormal, Fresh, Rest, Loading
<1>9. Holder'
    BY <1>1, <1>3, <1>7 DEF Holder, OnlyNormalized, Rest, Locks, AccountsAssumption
<1>10. Versions'
    <2>1. \A d \in Clients : base'[d] <= completed'
        <3>1. \A d \in Clients : base[d] \in Nat /\ base[d] <= completed
            BY DEF Versions, Valid, AccountTypeOK
        <3>2. completed \in Nat /\ completed' \in Nat /\ 1 <= completed'
            BY <1>5 DEF AccountsAssumption
        <3> QED
            BY <1>3, <1>5, <3>1, <3>2 DEF Rest
    <2>2. completed' <= Version(InForce(usersFile'))
        BY <1>1, <1>4, <1>5 DEF AccountsAssumption
    <2>3. \A a : Known(a)' <=> Known(a)
        BY <1>1 DEF Known
    <2>4. \A t : KnownToken(t)' <=> KnownToken(t)
        BY <1>1 DEF KnownToken
    <2> QED
        BY <1>1, <1>3, <2>1, <2>2, <2>3, <2>4 DEF Versions, Rest, Viewing, Loading
<1>11. Recent'
    BY <1>3 DEF Recent, Rest, Loading
<1> QED
    BY <1>1, <1>6, <1>7, <1>8, <1>9, <1>10, <1>11

\* A request arrives, takes its turn or, an upgrade, starts over.
LEMMA BeginInv ==
    ASSUME AccountIInv, NEW c \in Clients,
           \/ BeginLogin(c) \/ BeginRequest(c) \/ BeginChange(c)
           \/ TakeWriteMu(c) \/ BeginUpgrade(c)
    PROVE  AccountIInv'
<1> USE DEF AccountIInv
<1>1. /\ usersFile' = usersFile /\ usersSaves' = usersSaves /\ creds' = creds
      /\ usersCache' = usersCache /\ usersConfigMu' = usersConfigMu
      /\ tokens' = tokens /\ completed' = completed /\ seen' = seen /\ view' = view
    BY DEF BeginLogin, BeginRequest, BeginChange, Arrives, TakeWriteMu, BeginUpgrade
<1>2. Rest(c) /\ step'[c] \in {"stat", "wait"} /\ step[c] \in {"idle", "wait", "loaded"}
    <2>1. CASE TakeWriteMu(c)
        BY <2>1 DEF TakeWriteMu, Goes, Rest, Valid, AccountTypeOK
    <2>2. CASE BeginUpgrade(c)
        BY <2>2 DEF BeginUpgrade, Goes, Rest, Valid, AccountTypeOK
    <2>3. ASSUME NEW what, NEW with, NEW to \in {"stat", "wait"}, Arrives(c, what, with, to)
          PROVE  Rest(c) /\ step'[c] \in {"stat", "wait"} /\ step[c] \in {"idle", "wait", "loaded"}
        BY <2>3 DEF Arrives, Goes, Rest, Valid, AccountTypeOK
    <2> QED
        BY <2>1, <2>2, <2>3 DEF BeginLogin, BeginRequest, BeginChange
<1>3. /\ base' \in [Clients -> 1..MaxVersion] /\ base'[c] <= completed
    <2>1. base' = base \/ base' = [base EXCEPT ![c] = completed]
        BY DEF BeginLogin, BeginRequest, BeginChange, Arrives, TakeWriteMu, BeginUpgrade
    <2>2. completed \in 1..MaxVersion /\ completed <= completed
        BY DEF Valid, AccountTypeOK, AccountsAssumption
    <2> QED
        BY <2>1, <2>2 DEF Valid, AccountTypeOK, Versions
<1>4. /\ op' \in [Clients -> Ops] /\ op'[c] # "none"
      /\ step' \in [Clients -> Steps]
      /\ step'[c] = "wait" <=> op'[c] \in {"change", "upgrade"} /\ step'[c] = "wait"
    BY DEF BeginLogin, BeginRequest, BeginChange, Arrives, TakeWriteMu, BeginUpgrade, Goes,
           Valid, AccountTypeOK, Locks, Steps, Ops
<1>5. /\ shown' \in [Clients -> Claim \cup Session \cup {None}]
      /\ op'[c] \in {"login", "change"} => shown'[c] \in Claim
      /\ op'[c] \in {"upgrade", "request"} => shown'[c] \in Session /\ KnownToken(shown'[c])
    <2>1. CASE BeginLogin(c) \/ BeginChange(c)
        BY <2>1 DEF BeginLogin, BeginChange, Arrives, Valid, AccountTypeOK, Claim
    <2>2. CASE BeginRequest(c)
        BY <2>2 DEF BeginRequest, Arrives, Valid, AccountTypeOK, Versions
    <2>3. CASE TakeWriteMu(c)
        BY <2>3 DEF TakeWriteMu, Valid, AccountTypeOK, Versions
    <2>4. CASE BeginUpgrade(c)
        <3>1. /\ step[c] = "loaded" /\ op[c] = "login" /\ shown' = [shown EXCEPT ![c] = Token(c, view[c])]
              /\ Verifies(view[c], shown[c].name, shown[c].pw)
              /\ op' = [op EXCEPT ![c] = "upgrade"]
            BY <2>4 DEF BeginUpgrade, Goes
        <3>2. view[c] \in Account /\ shown[c] \in Claim /\ Known(view[c])
            BY <3>1 DEF Valid, AccountTypeOK, Versions, Viewing
        <3>3. Version(view[c]) \in 1..MaxVersion
            BY <3>2, AccountLemma
        <3>4. Token(c, view[c]) \in Session /\ KnownToken(Token(c, view[c]))
            BY <3>1, <3>2, <3>3 DEF Token, Session, Account, Claim, Verifies, Known, KnownToken
        <3> QED
            BY <3>1, <3>4 DEF Valid, AccountTypeOK
    <2> QED
        BY <2>1, <2>2, <2>3, <2>4
<1>6. /\ usersWriteMu' \in Clients \cup {None}
      /\ usersWriteMu' = c <=> op'[c] \in {"change", "upgrade"} /\ step'[c] # "wait"
      /\ \A d \in Clients \ {c} : usersWriteMu' = d <=> usersWriteMu = d
    BY DEF BeginLogin, BeginRequest, BeginChange, Arrives, TakeWriteMu, BeginUpgrade, Goes,
           Valid, AccountTypeOK, Locks, AccountsAssumption
<1>7. Valid'
    <2>1. AccountTypeOK'
        BY <1>1, <1>3, <1>4, <1>5, <1>6 DEF Valid, AccountTypeOK, Steps, Ops
    <2> QED
        BY <1>2, <1>5, <2>1 DEF Valid, Rest
<1>8. Locks'
    BY <1>1, <1>2, <1>4, <1>6 DEF Locks, Rest, Loading
<1>9. Files' /\ Unnormal' /\ Fresh'
    BY <1>1, <1>2 DEF Files, Unnormal, Fresh, Rest, Loading
<1>10. Holder'
    BY <1>1, <1>2, <1>6 DEF Holder, OnlyNormalized, Rest
<1>11. Versions'
    <2>1. \A d \in Clients : step'[d] \in Viewing => step[d] \in Viewing /\ view'[d] = view[d]
        BY <1>1, <1>2 DEF Rest, Viewing, Loading
    <2>2. \A d \in Clients : op'[d] \in {"upgrade", "request"} => KnownToken(shown'[d])
        BY <1>2, <1>5 DEF Versions, Rest
    <2> QED
        BY <1>1, <1>2, <1>3, <1>5, <2>1, <2>2 DEF Versions, Known, KnownToken, Rest
<1>12. Recent'
    BY <1>1, <1>2 DEF Recent, Rest, Loading
<1> QED
    BY <1>7, <1>8, <1>9, <1>10, <1>11, <1>12

----------------------------------------------------------------------------
\* loadUsersConfig.
LEMMA StatInv ==
    ASSUME AccountIInv, NEW c \in Clients, StatUsers(c)
    PROVE  AccountIInv'
<1> USE DEF AccountIInv
<1>1. /\ usersFile' = usersFile /\ usersSaves' = usersSaves /\ creds' = creds
      /\ usersCache' = usersCache /\ usersConfigMu' = usersConfigMu /\ usersWriteMu' = usersWriteMu
      /\ tokens' = tokens /\ completed' = completed /\ op' = op /\ shown' = shown /\ base' = base
    BY DEF StatUsers
<1>2. Rest(c) /\ step[c] = "stat"
    BY DEF StatUsers, Goes, Rest, Valid, AccountTypeOK
<1>3. \/ /\ usersFile = None /\ step' = [step EXCEPT ![c] = "loaded"]
         /\ view' = [view EXCEPT ![c] = InForce(None)] /\ seen' = seen
      \/ /\ usersFile # None /\ step' = [step EXCEPT ![c] = "lock"]
         /\ seen' = [seen EXCEPT ![c] = usersSaves] /\ view' = view
    BY DEF StatUsers, Goes, Files
<1>4. Valid'
    <2>1. InForce(None) \in Account
        BY InForceLemma DEF Valid
    <2>2. AccountTypeOK'
        BY <1>1, <1>3, <2>1 DEF Valid, AccountTypeOK
    <2> QED
        BY <1>1, <2>2 DEF Valid
<1>5. Locks' /\ Files'
    BY <1>1, <1>2, <1>3 DEF Valid, AccountTypeOK, Locks, Files, Rest, Loading
<1>6. Unnormal' /\ Fresh'
    BY <1>1, <1>2, <1>3 DEF Valid, AccountTypeOK, Unnormal, Fresh, Files, Rest
<1>7. Holder'
    BY <1>1, <1>2, <1>3 DEF Valid, AccountTypeOK, Holder, OnlyNormalized, Rest, InForce
<1>8. Versions'
    <2>1. step'[c] \in Viewing => Known(view'[c])
        BY <1>3 DEF Valid, AccountTypeOK, Versions, Viewing, Loading
    <2>2. \A a : Known(a)' <=> Known(a)
        BY <1>1 DEF Known
    <2>3. \A t : KnownToken(t)' <=> KnownToken(t)
        BY <1>1 DEF KnownToken
    <2> QED
        BY <1>1, <1>2, <2>1, <2>2, <2>3 DEF Versions, Rest
<1>9. Recent'
    <2>1. base[c] <= Version(InForce(usersFile))
        <3>1. base[c] <= completed /\ completed <= Version(InForce(usersFile))
            BY DEF Versions
        <3>2. base[c] \in Nat /\ completed \in Nat /\ Version(InForce(usersFile)) \in Nat
            BY InForceLemma, AccountLemma DEF Valid, AccountTypeOK
        <3> QED
            BY <3>1, <3>2, Ordered
    <2>2. step'[c] = "lock" =>
            /\ usersCache # None => (usersCache.stamp = seen'[c] => Version(usersCache.acc) >= base[c])
            /\ \A r \in Clients : step[r] = "fill" /\ seen[r] = seen'[c] => Version(view[r]) >= base[c]
        BY <1>3, <2>1 DEF Valid, AccountTypeOK, Fresh, InForce
    <2>3. step'[c] \in Loading \cup {"loaded"} => Version(view'[c]) >= base[c]
        BY <1>3, <2>1 DEF Valid, AccountTypeOK, Loading
    <2> QED
        BY <1>1, <1>2, <1>3, <2>2, <2>3 DEF Recent, Rest, Valid, AccountTypeOK, Loading
<1> QED
    BY <1>4, <1>5, <1>6, <1>7, <1>8, <1>9

\* A view comes from the cache or from the file.
LEMMA AccountReadInv ==
    ASSUME AccountIInv, NEW c \in Clients, FromCache(c) \/ ReadUsers(c)
    PROVE  AccountIInv'
<1> USE DEF AccountIInv
<1>1. /\ usersFile' = usersFile /\ usersSaves' = usersSaves /\ creds' = creds
      /\ usersCache' = usersCache /\ usersWriteMu' = usersWriteMu /\ usersConfigMu = None
      /\ tokens' = tokens /\ completed' = completed /\ op' = op /\ shown' = shown
      /\ seen' = seen /\ base' = base
    BY DEF FromCache, ReadUsers
<1>2. Rest(c) /\ step[c] = "lock" /\ usersFile # None /\ usersFile.acc \in Account
    BY DEF FromCache, ReadUsers, Goes, Rest, Files, Valid, AccountTypeOK
<1>3. \A d \in Clients : step[d] \notin Loading
    BY <1>1 DEF Locks, AccountsAssumption
<1>4. \/ /\ step' = [step EXCEPT ![c] = "loaded"] /\ usersConfigMu' = None
         /\ view' = [view EXCEPT ![c] = usersCache.acc]
         /\ usersCache # None /\ usersCache.stamp = seen[c] /\ usersCache.acc \in Account
      \/ /\ Normal(usersFile.acc) /\ step' = [step EXCEPT ![c] = "fill"] /\ usersConfigMu' = c
         /\ view' = [view EXCEPT ![c] = usersFile.acc]
      \/ /\ ~Normal(usersFile.acc) /\ step' = [step EXCEPT ![c] = "normalize"] /\ usersConfigMu' = c
         /\ view' = [view EXCEPT ![c] = Normalized(usersFile.acc)]
    <2>1. CASE FromCache(c)
        BY <1>1, <2>1 DEF FromCache, CacheHit, Goes, Valid, AccountTypeOK
    <2>2. CASE ReadUsers(c)
        <3>1. CASE Normal(usersFile.acc)
            BY <2>2, <3>1 DEF ReadUsers, Goes, Normal
        <3>2. CASE ~Normal(usersFile.acc)
            BY <2>2, <3>2 DEF ReadUsers, Goes, Normal
        <3> QED
            BY <3>1, <3>2
    <2> QED
        BY <2>1, <2>2
<1>5. Normalized(usersFile.acc) \in Account /\ Version(Normalized(usersFile.acc)) = Version(usersFile.acc)
    BY <1>2, AccountLemma
<1>6. Valid'
    <2>1. AccountTypeOK'
        BY <1>1, <1>2, <1>4, <1>5 DEF Valid, AccountTypeOK
    <2> QED
        BY <1>1, <2>1 DEF Valid
<1>7. Locks'
    <2>1. step'[c] \in Loading <=> usersConfigMu' = c
        BY <1>4 DEF Valid, AccountTypeOK, Loading, AccountsAssumption
    <2>2. \A d \in Clients \ {c} : usersConfigMu' # d
        BY <1>4 DEF AccountsAssumption
    <2>3. step'[c] \in {"loaded", "fill", "normalize"}
        BY <1>4 DEF Valid, AccountTypeOK
    <2> QED
        BY <1>1, <1>2, <1>3, <2>1, <2>2, <2>3 DEF Locks, Rest
<1>8. Files'
    BY <1>1, <1>2 DEF Files, Rest
<1>9. Unnormal'
    <2>1. usersFile # None /\ ~Normal(usersFile.acc) => usersCache = None /\ step'[c] = "normalize"
        BY <1>4 DEF Unnormal, Valid, AccountTypeOK
    <2>2. step'[c] = "normalize" => ~Normal(usersFile.acc) /\ view'[c] = Normalized(usersFile.acc)
        BY <1>4 DEF Valid, AccountTypeOK
    <2>3. \A d \in Clients : step'[d] # "restat"
        BY <1>2, <1>3, <1>4 DEF Valid, AccountTypeOK, Rest, Loading
    <2>4. \A d \in Clients \ {c} : step'[d] # "normalize"
        BY <1>2, <1>3 DEF Rest, Loading
    <2> QED
        BY <1>1, <1>2, <2>1, <2>2, <2>3, <2>4 DEF Unnormal, Rest
<1>10. step'[c] = "fill" => view'[c] = usersFile.acc
    BY <1>4 DEF Valid, AccountTypeOK
<1>11. Fresh'
    BY <1>1, <1>2, <1>10 DEF Fresh, Rest
<1>12. Holder'
    <2>1. OnlyNormalized => OnlyNormalized'
        BY <1>1, <1>2, <1>10 DEF OnlyNormalized, Rest
    <2>2. ASSUME usersWriteMu = c, step'[c] = "loaded"
          PROVE  view'[c] = InForce(usersFile)
        <3>1. /\ usersCache # None /\ usersCache.stamp = seen[c] /\ view'[c] = usersCache.acc
            BY <1>4, <2>2 DEF Valid, AccountTypeOK
        <3>2. seen[c] = usersSaves \/ OnlyNormalized
            BY <1>2, <2>2 DEF Holder
        <3>3. usersCache.acc = usersFile.acc
            BY <3>1, <3>2 DEF Fresh, OnlyNormalized
        <3> QED
            BY <1>2, <3>1, <3>3 DEF InForce
    <2>3. step'[c] \in {"loaded", "fill", "normalize"}
        BY <1>4 DEF Valid, AccountTypeOK
    <2> QED
        BY <1>1, <1>2, <1>10, <2>1, <2>2, <2>3 DEF Holder, Rest
<1>13. Versions'
    <2>1. Known(view'[c])
        <3>1. Known(usersFile.acc) /\ (usersCache # None => Known(usersCache.acc))
            BY <1>2 DEF Versions, InForce
        <3>2. Known(Normalized(usersFile.acc))
            BY <1>2, <3>1, AccountLemma
        <3> QED
            BY <1>4, <3>1, <3>2 DEF Valid, AccountTypeOK
    <2>2. \A a : Known(a)' <=> Known(a)
        BY <1>1 DEF Known
    <2>3. \A t : KnownToken(t)' <=> KnownToken(t)
        BY <1>1 DEF KnownToken
    <2> QED
        BY <1>1, <1>2, <2>1, <2>2, <2>3 DEF Versions, Rest
<1>14. Recent'
    <2>1. \A d \in Clients : base[d] <= Version(usersFile.acc)
        <3>1. \A d \in Clients : base[d] <= completed /\ completed <= Version(usersFile.acc)
            BY <1>2 DEF Versions, InForce
        <3>2. \A d \in Clients : base[d] \in Nat /\ completed \in Nat /\ Version(usersFile.acc) \in Nat
            BY <1>2, AccountLemma DEF Valid, AccountTypeOK
        <3> QED
            BY <3>1, <3>2, Ordered
    <2>2. \A d \in Clients : step'[c] = "fill" => Version(view'[c]) >= base[d]
        <3>1. Version(usersFile.acc) \in Nat /\ \A d \in Clients : base[d] \in Nat
            BY <1>2, AccountLemma DEF Valid, AccountTypeOK
        <3> QED
            BY <1>10, <2>1, <3>1
    <2>3. Version(view'[c]) >= base[c]
        <3>1. Version(usersFile.acc) \in Nat /\ base[c] \in Nat
            BY <1>2, AccountLemma DEF Valid, AccountTypeOK
        <3>2. CASE view'[c] = usersCache.acc /\ usersCache # None /\ usersCache.stamp = seen[c]
            BY <1>2, <3>2 DEF Recent
        <3>3. CASE view'[c] \in {usersFile.acc, Normalized(usersFile.acc)}
            BY <1>5, <2>1, <3>1, <3>3
        <3> QED
            BY <1>4, <3>2, <3>3 DEF Valid, AccountTypeOK
    <2>4. \A d \in Clients \ {c} : step[d] \notin Loading
        BY <1>3
    <2>5. step'[c] # "lock"
        BY <1>4 DEF Valid, AccountTypeOK
    <2> QED
        BY <1>1, <1>2, <2>2, <2>3, <2>5 DEF Recent, Rest
<1> QED
    BY <1>6, <1>7, <1>8, <1>9, <1>11, <1>12, <1>13, <1>14

\* A reader writes the normal form back: the file was not changed meanwhile,
\* as nobody has loaded it in its old form.
LEMMA NormalizeInv ==
    ASSUME AccountIInv, NEW c \in Clients, Normalize(c)
    PROVE  AccountIInv'
<1> USE DEF AccountIInv
<1>1. /\ usersCache' = usersCache /\ usersConfigMu' = usersConfigMu /\ usersWriteMu' = usersWriteMu
      /\ creds' = creds /\ tokens' = tokens /\ completed' = completed /\ op' = op
      /\ shown' = shown /\ seen' = seen /\ view' = view /\ base' = base
      /\ usersSaves < MaxUsersSaves /\ usersSaves' = usersSaves + 1
      /\ usersFile' = [stamp |-> usersSaves + 1, acc |-> view[c]]
      /\ step' = [step EXCEPT ![c] = "restat"] /\ step[c] = "normalize"
    BY DEF Normalize, Writes, Goes
<1>2. Rest(c) /\ step'[c] = "restat"
    BY <1>1 DEF Rest, Valid, AccountTypeOK
<1>3. /\ usersFile # None /\ usersFile.acc \in Account /\ ~Normal(usersFile.acc)
      /\ usersSaves = 0 /\ usersCache = None
      /\ \A d \in Clients : step[d] \in {"idle", "wait", "stat", "lock", "normalize"}
      /\ view[c] = Normalized(usersFile.acc)
    BY <1>1 DEF Unnormal, Files, Valid, AccountTypeOK, Loading
<1>4. \A d \in Clients \ {c} : step[d] \notin Loading
    BY <1>1 DEF Locks, Loading
<1>5. usersFile' \in AccountFile /\ usersFile' # None /\ usersFile'.stamp = 1 /\ usersFile'.acc = view[c]
    BY <1>1, <1>3 DEF AccountFile, Valid, AccountTypeOK, AccountsAssumption
<1>6. /\ Normal(view[c]) /\ Version(view[c]) = Version(usersFile.acc)
      /\ view[c].name = usersFile.acc.name /\ view[c].pw = usersFile.acc.pw
    BY <1>3, AccountLemma
<1>7. InForce(usersFile) = usersFile.acc /\ InForce(usersFile') = view[c]
    BY <1>3, <1>5 DEF InForce
<1>8. Valid'
    <2>1. AccountTypeOK'
        BY <1>1, <1>5 DEF Valid, AccountTypeOK, AccountFile, AccountsAssumption
    <2> QED
        BY <1>1, <2>1 DEF Valid
<1>9. Locks'
    BY <1>1, <1>2 DEF Locks, Rest, Loading
<1>10. Files'
    BY <1>1, <1>2, <1>3, <1>5 DEF Files, Rest, Valid, AccountTypeOK
<1>11. Unnormal'
    <2>1. \A d \in Clients \ {c} : step'[d] \in {"idle", "wait", "stat", "lock"}
        BY <1>2, <1>3, <1>4 DEF Rest, Loading
    <2> QED
        BY <1>1, <1>2, <1>3, <1>5, <1>6, <2>1 DEF Unnormal
<1>12. Fresh'
    BY <1>1, <1>2, <1>3, <1>4 DEF Fresh, Rest, Loading
<1>13. Holder'
    BY <1>1, <1>2, <1>3, <1>4, <1>5, <1>6 DEF Holder, OnlyNormalized, Rest, Loading
<1>14. Versions'
    <2>1. \A a : Known(a)' <=> Known(a)
        BY <1>1 DEF Known
    <2>2. \A t : KnownToken(t)' <=> KnownToken(t)
        BY <1>1 DEF KnownToken
    <2>3. Known(view[c])
        BY <1>1 DEF Versions, Viewing, Loading
    <2> QED
        BY <1>1, <1>2, <1>6, <1>7, <2>1, <2>2, <2>3 DEF Versions, Rest, Viewing, Loading
<1>15. Recent'
    BY <1>1, <1>2 DEF Recent, Rest, Loading
<1> QED
    BY <1>8, <1>9, <1>10, <1>11, <1>12, <1>13, <1>14, <1>15

LEMMA RestatInv ==
    ASSUME AccountIInv, NEW c \in Clients, Restat(c)
    PROVE  AccountIInv'
<1> USE DEF AccountIInv
<1>1. /\ usersFile' = usersFile /\ usersSaves' = usersSaves /\ usersCache' = usersCache
      /\ usersConfigMu' = usersConfigMu /\ usersWriteMu' = usersWriteMu /\ creds' = creds
      /\ tokens' = tokens /\ completed' = completed /\ op' = op /\ shown' = shown
      /\ view' = view /\ base' = base
      /\ seen' = [seen EXCEPT ![c] = usersFile.stamp]
      /\ step' = [step EXCEPT ![c] = "fill"] /\ step[c] = "restat"
    BY DEF Restat, Goes
<1>2. Rest(c) /\ step'[c] = "fill" /\ seen'[c] = usersFile.stamp
    BY <1>1 DEF Rest, Valid, AccountTypeOK
<1>3. /\ usersFile # None /\ usersFile.stamp = usersSaves /\ view[c] = usersFile.acc
      /\ usersCache = None
      /\ \A d \in Clients \ {c} : step[d] \in {"idle", "wait", "stat", "lock"}
    BY <1>1 DEF Unnormal, Files, Loading
<1>4. Valid'
    <2>1. AccountTypeOK'
        BY <1>1, <1>3 DEF Valid, AccountTypeOK
    <2> QED
        BY <1>1, <2>1 DEF Valid
<1>5. Normal(usersFile.acc)
    BY <1>1, <1>3 DEF Unnormal
<1>6. Locks' /\ Files'
    BY <1>1, <1>2, <1>3 DEF Locks, Files, Rest, Loading, Valid, AccountTypeOK
<1>7. Unnormal' /\ Fresh'
    BY <1>1, <1>2, <1>3, <1>5 DEF Unnormal, Fresh, Rest
<1>8. Holder'
    BY <1>1, <1>2, <1>3 DEF Holder, OnlyNormalized, Rest
<1>9. Versions'
    <2>1. \A a : Known(a)' <=> Known(a)
        BY <1>1 DEF Known
    <2>2. \A t : KnownToken(t)' <=> KnownToken(t)
        BY <1>1 DEF KnownToken
    <2> QED
        BY <1>1, <1>2, <2>1, <2>2 DEF Versions, Rest, Viewing, Loading
<1>10. Recent'
    <2>1. \A d \in Clients : Version(view[c]) >= base[d]
        <3>1. \A d \in Clients : base[d] <= completed /\ completed <= Version(view[c])
            BY <1>3 DEF Versions, InForce
        <3>2. \A d \in Clients : base[d] \in Nat /\ completed \in Nat /\ Version(view[c]) \in Nat
            BY AccountLemma DEF Valid, AccountTypeOK
        <3> QED
            BY <3>1, <3>2, Ordered
    <2> QED
        BY <1>1, <1>2, <1>3, <2>1 DEF Recent, Rest, Loading
<1> QED
    BY <1>4, <1>6, <1>7, <1>8, <1>9, <1>10

LEMMA FillInv ==
    ASSUME AccountIInv, NEW c \in Clients, FillUsersCache(c)
    PROVE  AccountIInv'
<1> USE DEF AccountIInv
<1>1. /\ usersFile' = usersFile /\ usersSaves' = usersSaves /\ usersWriteMu' = usersWriteMu
      /\ creds' = creds /\ tokens' = tokens /\ completed' = completed /\ op' = op
      /\ shown' = shown /\ seen' = seen /\ view' = view /\ base' = base
      /\ usersConfigMu' = None /\ usersCache' = [stamp |-> seen[c], acc |-> view[c]]
      /\ step' = [step EXCEPT ![c] = "loaded"] /\ step[c] = "fill"
    BY DEF FillUsersCache, Goes
<1>2. Rest(c) /\ step'[c] = "loaded"
    BY <1>1 DEF Rest, Valid, AccountTypeOK
<1>3. usersFile # None /\ usersConfigMu = c
    BY <1>1 DEF Files, Locks, Loading
<1>4. \A d \in Clients \ {c} : step[d] \notin Loading
    BY <1>3 DEF Locks
<1>5. usersCache' \in AccountFile /\ usersCache'.stamp = seen[c] /\ usersCache'.acc = view[c]
    BY <1>1 DEF AccountFile, Valid, AccountTypeOK
<1>6. Valid'
    <2>1. AccountTypeOK'
        BY <1>1, <1>5 DEF Valid, AccountTypeOK, AccountFile
    <2> QED
        BY <1>1, <2>1 DEF Valid
<1>7. Locks' /\ Files'
    BY <1>1, <1>2, <1>3, <1>4 DEF Locks, Files, Rest, Loading, AccountsAssumption
<1>8. Normal(usersFile.acc)
    BY <1>1, <1>3 DEF Unnormal
<1>9. Unnormal' /\ Fresh'
    BY <1>1, <1>2, <1>4, <1>5, <1>8 DEF Unnormal, Fresh, Rest, Loading
<1>10. Holder'
    <2>1. OnlyNormalized => OnlyNormalized'
        BY <1>1, <1>2, <1>4, <1>5 DEF OnlyNormalized, Rest, Loading
    <2> QED
        BY <1>1, <1>2, <1>3, <2>1 DEF Holder, Rest, InForce
<1>11. Versions'
    <2>1. \A a : Known(a)' <=> Known(a)
        BY <1>1 DEF Known
    <2>2. \A t : KnownToken(t)' <=> KnownToken(t)
        BY <1>1 DEF KnownToken
    <2>3. Known(view[c])
        BY <1>1 DEF Versions, Viewing, Loading
    <2> QED
        BY <1>1, <1>2, <1>5, <2>1, <2>2, <2>3 DEF Versions, Rest, Viewing, Loading
<1>12. Recent'
    BY <1>1, <1>2, <1>4, <1>5 DEF Recent, Rest, Loading
<1> QED
    BY <1>6, <1>7, <1>9, <1>10, <1>11, <1>12

----------------------------------------------------------------------------
\* Changes of the account and upgrades of the hash: what replaces the file was
\* made from what the file holds.
LEMMA WriteLemma ==
    ASSUME AccountIInv, NEW c \in Clients, NEW b \in Account, Writes(b), Goes(c, "loaded", "clear"),
           op[c] \in {"change", "upgrade"}
    PROVE  /\ usersWriteMu = c /\ view[c] = InForce(usersFile) /\ view[c] \in Account
           /\ Normal(view[c]) /\ Known(view[c])
           /\ usersFile' \in AccountFile /\ usersFile' # None
           /\ usersFile'.stamp = usersSaves' /\ usersFile'.acc = b
           /\ usersSaves' = usersSaves + 1 /\ usersSaves' \in 0..MaxUsersSaves
           /\ step' = [step EXCEPT ![c] = "clear"] /\ step[c] = "loaded" /\ step'[c] = "clear"
           /\ \A d \in Clients : step[d] \notin {"normalize", "restat"}
           /\ \A d \in Clients : usersWriteMu = d => d = c
<1> USE DEF AccountIInv
<1>1. step[c] = "loaded" /\ step' = [step EXCEPT ![c] = "clear"] /\ step'[c] = "clear"
    BY DEF Goes, Valid, AccountTypeOK
<1>2. usersWriteMu = c
    BY <1>1 DEF Locks
<1>3. view[c] = InForce(usersFile) /\ view[c] \in Account /\ Known(view[c])
    BY <1>1, <1>2 DEF Holder, Versions, Viewing, Valid, AccountTypeOK
<1>4. usersFile # None => Normal(usersFile.acc)
    BY <1>1 DEF Unnormal
<1>5. Normal(view[c])
    BY <1>3, <1>4, InForceLemma DEF InForce, Valid
<1>6. \A d \in Clients : step[d] \notin {"normalize", "restat"}
    BY <1>1, <1>4 DEF Unnormal, Files, Loading
<1>7. usersSaves' = usersSaves + 1 /\ usersSaves' \in 0..MaxUsersSaves
    BY DEF Writes, Valid, AccountTypeOK, AccountsAssumption
<1>8. usersFile' = [stamp |-> usersSaves', acc |-> b]
    BY <1>7 DEF Writes
<1>9. usersFile' \in AccountFile /\ usersFile' # None
    BY <1>7, <1>8 DEF AccountFile, AccountsAssumption
<1> QED
    BY <1>1, <1>2, <1>3, <1>5, <1>6, <1>7, <1>8, <1>9

LEMMA UpgradeInv ==
    ASSUME AccountIInv, NEW c \in Clients, Upgrade(c)
    PROVE  AccountIInv'
<1> USE DEF AccountIInv
<1> DEFINE b == [view[c] EXCEPT !.form = "bcrypt"]
<1>1. /\ usersCache' = usersCache /\ usersConfigMu' = usersConfigMu /\ usersWriteMu' = usersWriteMu
      /\ creds' = creds /\ tokens' = tokens /\ completed' = completed /\ op' = op
      /\ shown' = shown /\ seen' = seen /\ view' = view /\ base' = base
      /\ Writes(b) /\ Goes(c, "loaded", "clear") /\ op[c] = "upgrade"
    BY DEF Upgrade
<1>2. /\ b \in Account /\ b.sv = view[c].sv /\ b.name = view[c].name /\ b.pw = view[c].pw
      /\ b.form = "bcrypt" /\ Version(b) = Version(view[c])
    BY DEF Valid, AccountTypeOK, Account, Version
<1>3. /\ usersWriteMu = c /\ view[c] = InForce(usersFile) /\ view[c] \in Account
      /\ Normal(view[c]) /\ Known(view[c])
      /\ usersFile' \in AccountFile /\ usersFile' # None
      /\ usersFile'.stamp = usersSaves' /\ usersFile'.acc = b
      /\ usersSaves' = usersSaves + 1 /\ usersSaves' \in 0..MaxUsersSaves
      /\ step' = [step EXCEPT ![c] = "clear"] /\ step[c] = "loaded" /\ step'[c] = "clear"
      /\ \A d \in Clients : step[d] \notin {"normalize", "restat"}
      /\ \A d \in Clients : usersWriteMu = d => d = c
    BY <1>1, <1>2, WriteLemma
<1>4. Normal(b)
    <2>1. view[c].sv = Version(view[c])
        BY <1>3 DEF Normal, Normalized, Account
    <2> QED
        BY <1>2, <2>1 DEF Normal, Normalized, Account
<1>5. Rest(c) /\ InForce(usersFile') = b
    BY <1>1, <1>3 DEF Rest, Valid, AccountTypeOK, InForce
<1> HIDE DEF b
<1>6. Valid'
    <2>1. AccountTypeOK'
        BY <1>1, <1>3 DEF Valid, AccountTypeOK, AccountFile
    <2> QED
        BY <1>1, <2>1 DEF Valid
<1>7. Locks' /\ Files'
    BY <1>1, <1>3, <1>5 DEF Locks, Files, Rest, Loading, Valid, AccountTypeOK
<1>8. Unnormal' /\ Fresh'
    BY <1>1, <1>3, <1>4, <1>5 DEF Unnormal, Fresh, Files, Rest, Valid, AccountTypeOK
<1>9. Holder'
    BY <1>1, <1>3 DEF Holder
<1>10. Versions'
    <2>1. \A a : Known(a)' <=> Known(a)
        BY <1>1 DEF Known
    <2>2. \A t : KnownToken(t)' <=> KnownToken(t)
        BY <1>1 DEF KnownToken
    <2>3. Known(b)
        BY <1>2, <1>3 DEF Known
    <2> QED
        BY <1>1, <1>2, <1>3, <1>5, <2>1, <2>2, <2>3 DEF Versions, Rest, Viewing
<1>11. Recent'
    BY <1>1, <1>3, <1>5 DEF Recent, Rest, Loading
<1> QED
    BY <1>6, <1>7, <1>8, <1>9, <1>10, <1>11

\* The account after a change: its session version is the next one.
LEMMA ChangeLemma ==
    ASSUME AccountIInv, NEW c \in Clients, Change(c)
    PROVE  \E b \in Account :
             /\ op[c] = "change" /\ Goes(c, "loaded", "clear") /\ Writes(b)
             /\ view' = [view EXCEPT ![c] = b]
             /\ b.sv = Version(view[c]) + 1 /\ Version(b) = Version(view[c]) + 1 /\ Normal(b)
             /\ creds' = [v \in DOMAIN creds \cup {b.sv} |->
                            IF v = b.sv THEN <<b.name, b.pw>> ELSE creds[v]]
             /\ UNCHANGED <<usersCache, usersConfigMu, usersWriteMu, op, shown,
                            seen, tokens, completed, base>>
<1> USE DEF AccountIInv
<1>1. PICK name \in Names, pw \in Passwords \cup {None} :
        LET a == view[c]
            b == [name |-> name, pw |-> IF pw = None THEN a.pw ELSE pw,
                  sv |-> Version(a) + 1,
                  form |-> IF pw = None THEN a.form ELSE "bcrypt"]
        IN  /\ op[c] = "change"
            /\ Verifies(a, shown[c].name, shown[c].pw)
            /\ name # shown[c].name \/ pw # None
            /\ b.sv <= MaxVersion
            /\ Goes(c, "loaded", "clear")
            /\ Writes(b)
            /\ view' = [view EXCEPT ![c] = b]
            /\ creds' = [v \in DOMAIN creds \cup {b.sv} |->
                           IF v = b.sv THEN <<b.name, b.pw>> ELSE creds[v]]
            /\ UNCHANGED <<usersCache, usersConfigMu, usersWriteMu, op, shown,
                           seen, tokens, completed, base>>
    BY DEF Change
<1> DEFINE b == [name |-> name, pw |-> IF pw = None THEN view[c].pw ELSE pw,
                 sv |-> Version(view[c]) + 1,
                 form |-> IF pw = None THEN view[c].form ELSE "bcrypt"]
<1>2. view[c] \in Account /\ step[c] = "loaded" /\ op[c] = "change"
    BY <1>1 DEF Valid, AccountTypeOK, Goes
<1>3. Version(view[c]) \in 1..MaxVersion
    BY <1>2, AccountLemma
<1>4. /\ b.sv = Version(view[c]) + 1 /\ b.sv \in 0..MaxVersion /\ b.sv # 0
      /\ b.name \in Names /\ b.pw \in Passwords
      /\ b.form \in {"plain", "sha", "bcrypt"}
    BY <1>1, <1>2, <1>3 DEF Account, AccountsAssumption
<1>5. b \in Account
    BY <1>4 DEF Account
<1>6. Version(b) = b.sv
    BY <1>4 DEF Version
<1>7. Normal(view[c])
    <2>1. usersWriteMu = c
        BY <1>2 DEF Locks
    <2>2. view[c] = InForce(usersFile)
        BY <1>2, <2>1 DEF Holder
    <2>3. usersFile # None => Normal(usersFile.acc)
        BY <1>2 DEF Unnormal
    <2> QED
        BY <2>2, <2>3, InForceLemma DEF InForce, Valid
<1>8. view[c].form # "plain"
    BY <1>2, <1>7 DEF Normal, Normalized, Account
<1>9. b.form # "plain"
    BY <1>8
<1>10. Normal(b)
    BY <1>5, <1>6, <1>9 DEF Normal, Normalized, Account
<1>11. /\ op[c] = "change" /\ Goes(c, "loaded", "clear") /\ Writes(b)
       /\ view' = [view EXCEPT ![c] = b]
       /\ creds' = [v \in DOMAIN creds \cup {b.sv} |->
                      IF v = b.sv THEN <<b.name, b.pw>> ELSE creds[v]]
       /\ UNCHANGED <<usersCache, usersConfigMu, usersWriteMu, op, shown,
                      seen, tokens, completed, base>>
    BY <1>1
<1> HIDE DEF b
<1> QED
    BY <1>4, <1>5, <1>6, <1>10, <1>11

LEMMA ChangeInv ==
    ASSUME AccountIInv, NEW c \in Clients, Change(c)
    PROVE  AccountIInv'
<1> USE DEF AccountIInv
<1>1. PICK b \in Account :
        /\ op[c] = "change" /\ Goes(c, "loaded", "clear") /\ Writes(b)
        /\ view' = [view EXCEPT ![c] = b]
        /\ b.sv = Version(view[c]) + 1 /\ Version(b) = Version(view[c]) + 1 /\ Normal(b)
        /\ creds' = [v \in DOMAIN creds \cup {b.sv} |->
                       IF v = b.sv THEN <<b.name, b.pw>> ELSE creds[v]]
        /\ UNCHANGED <<usersCache, usersConfigMu, usersWriteMu, op, shown,
                       seen, tokens, completed, base>>
    BY ChangeLemma
<1>2. /\ usersCache' = usersCache /\ usersConfigMu' = usersConfigMu /\ usersWriteMu' = usersWriteMu
      /\ tokens' = tokens /\ completed' = completed /\ op' = op
      /\ shown' = shown /\ seen' = seen /\ base' = base
    BY <1>1
<1>3. /\ usersWriteMu = c /\ view[c] = InForce(usersFile) /\ view[c] \in Account
      /\ usersFile' \in AccountFile /\ usersFile' # None
      /\ usersFile'.stamp = usersSaves' /\ usersFile'.acc = b
      /\ usersSaves' = usersSaves + 1 /\ usersSaves' \in 0..MaxUsersSaves
      /\ step' = [step EXCEPT ![c] = "clear"] /\ step[c] = "loaded" /\ step'[c] = "clear"
      /\ \A d \in Clients : step[d] \notin {"normalize", "restat"}
      /\ \A d \in Clients : usersWriteMu = d => d = c
    BY <1>1, WriteLemma
<1>4. /\ \A d \in Clients \ {c} : view'[d] = view[d]
      /\ view'[c] = b
    BY <1>1 DEF Valid, AccountTypeOK
<1>5. Rest(c) /\ InForce(usersFile') = b
    BY <1>2, <1>3, <1>4 DEF Rest, Valid, AccountTypeOK, InForce
<1>6. Valid'
    <2>1. AccountTypeOK'
        BY <1>1, <1>2, <1>3 DEF Valid, AccountTypeOK, AccountFile
    <2> QED
        BY <1>2, <2>1 DEF Valid
<1>7. Locks' /\ Files'
    BY <1>1, <1>2, <1>3, <1>5 DEF Locks, Files, Rest, Loading, Valid, AccountTypeOK
<1>8. Unnormal' /\ Fresh'
    BY <1>1, <1>2, <1>3, <1>5 DEF Unnormal, Fresh, Files, Rest, Valid, AccountTypeOK
<1>9. Holder'
    BY <1>2, <1>3, <1>4 DEF Holder
<1>10. Versions'
    <2>1. DOMAIN creds = 1..Version(view[c]) /\ Version(view[c]) \in Nat
        BY <1>3, AccountLemma DEF Versions
    <2>2. DOMAIN creds' = 1..Version(b) /\ b.sv \notin DOMAIN creds
        BY <1>1, <2>1
    <2>3. /\ \A v \in DOMAIN creds : v \in DOMAIN creds' /\ creds'[v] = creds[v]
          /\ b.sv \in DOMAIN creds' /\ creds'[b.sv] = <<b.name, b.pw>>
        BY <1>1, <2>2
    <2>4. \A a : Known(a) => Known(a)'
        BY <2>3 DEF Known
    <2>5. \A t : KnownToken(t) => KnownToken(t)'
        BY <2>3 DEF KnownToken
    <2>6. Known(b)'
        BY <1>1, <2>3 DEF Known
    <2>7. completed <= Version(b)
        <3>1. completed <= Version(view[c]) /\ completed \in Nat
            BY <1>3 DEF Versions, Valid, AccountTypeOK
        <3> QED
            BY <1>1, <2>1, <3>1
    <2> QED
        BY <1>2, <1>3, <1>4, <1>5, <2>2, <2>4, <2>5, <2>6, <2>7 DEF Versions, Rest, Viewing
<1>11. Recent'
    BY <1>2, <1>3, <1>5 DEF Recent, Rest, Loading
<1> QED
    BY <1>6, <1>7, <1>8, <1>9, <1>10, <1>11

----------------------------------------------------------------------------
LEMMA FinishInv ==
    ASSUME AccountIInv, NEW c \in Clients,
           NormalizeFails(c) \/ LogIn(c) \/ SkipUpgrade(c) \/ Respond(c) \/ ClearCache(c)
    PROVE  AccountIInv'
<1> USE DEF AccountIInv
<1>1. Version(InForce(usersFile)) \in Nat /\ completed \in Nat /\ completed <= Version(InForce(usersFile))
    BY InForceLemma, AccountLemma DEF Valid, AccountTypeOK, Versions
<1>2. /\ completed \in completed..Version(InForce(usersFile))
      /\ \A t \in tokens : KnownToken(t)
      /\ tokens \subseteq Session
    BY <1>1 DEF Versions, Valid, AccountTypeOK
<1>3. CASE NormalizeFails(c)
    <2>1. step[c] = "normalize" /\ usersConfigMu = c
        BY <1>3 DEF NormalizeFails, Finishes, Goes, Locks, Loading
    <2> QED
        BY <1>2, <1>3, <2>1, EndsInv DEF NormalizeFails, Files0, Steps
<1>4. CASE LogIn(c) \/ Respond(c)
    <2>1. step[c] = "loaded" /\ usersConfigMu # c
        BY <1>4 DEF LogIn, Respond, Finishes, Goes, Locks, Loading
    <2>2. CASE Respond(c)
        BY <1>2, <2>1, <2>2, EndsInv DEF Respond, Files0, Steps
    <2>3. CASE LogIn(c)
        <3>1. /\ op[c] = "login" /\ tokens' = tokens \cup {Token(c, view[c])}
              /\ Verifies(view[c], shown[c].name, shown[c].pw)
            BY <2>3 DEF LogIn
        <3>2. view[c] \in Account /\ shown[c] \in Claim /\ Known(view[c])
            BY <2>1, <3>1 DEF Valid, AccountTypeOK, Versions, Viewing
        <3>3. Version(view[c]) \in 1..MaxVersion
            BY <3>2, AccountLemma
        <3>4. Token(c, view[c]) \in Session /\ KnownToken(Token(c, view[c]))
            BY <3>1, <3>2, <3>3 DEF Token, Session, Account, Claim, Verifies, Known, KnownToken
        <3>5. tokens' \subseteq Session /\ \A t \in tokens' : KnownToken(t)
            BY <1>2, <3>1, <3>4
        <3>6. usersWriteMu # c
            BY <3>1 DEF Locks
        <3> QED
            BY <1>2, <2>1, <2>3, <3>5, <3>6, EndsInv DEF LogIn, Files0, Steps
    <2> QED
        BY <1>4, <2>2, <2>3
<1>5. CASE SkipUpgrade(c)
    <2>1. /\ step[c] = "loaded" /\ usersConfigMu # c /\ usersWriteMu = c
          /\ shown[c] \in Session /\ KnownToken(shown[c])
        BY <1>5 DEF SkipUpgrade, Finishes, Goes, Locks, Loading, Versions, Valid
    <2>2. tokens' \subseteq Session /\ \A t \in tokens' : KnownToken(t)
        BY <1>2, <1>5, <2>1 DEF SkipUpgrade
    <2> QED
        BY <1>2, <1>5, <2>1, <2>2, EndsInv DEF SkipUpgrade, Files0, Steps
<1>6. CASE ClearCache(c)
    <2>1. step[c] = "clear" /\ usersConfigMu = None /\ usersWriteMu = c /\ usersFile # None
        BY <1>6 DEF ClearCache, Finishes, Goes, Locks, Files, Loading
    <2>2. op[c] = "change" => Version(view[c]) = Version(InForce(usersFile))
        BY <2>1 DEF Holder, InForce
    <2>3. completed' \in completed..Version(InForce(usersFile))
        BY <1>1, <1>6, <2>2 DEF ClearCache
    <2>4. op[c] = "upgrade" => shown[c] \in Session /\ KnownToken(shown[c])
        BY DEF Valid, Versions
    <2>5. tokens' \subseteq Session /\ \A t \in tokens' : KnownToken(t)
        BY <1>2, <1>6, <2>4 DEF ClearCache
    <2>6. c # None
        BY DEF AccountsAssumption
    <2> QED
        BY <1>6, <2>1, <2>3, <2>5, <2>6, EndsInv DEF ClearCache, Files0, Steps
<1> QED
    BY <1>3, <1>4, <1>5, <1>6

LEMMA AccountNextInv == AccountIInv /\ [AccountNext]_accountVars => AccountIInv'
<1> SUFFICES ASSUME AccountIInv, [AccountNext]_accountVars PROVE AccountIInv'
    OBVIOUS
<1>1. CASE UNCHANGED accountVars
    BY <1>1 DEF accountVars, AccountIInv, Valid, AccountTypeOK, Locks, Files, Unnormal, Fresh, Holder,
                OnlyNormalized, Versions, Known, KnownToken, Recent
<1>2. CASE AccountNext
    BY <1>2, BeginInv, StatInv, AccountReadInv, NormalizeInv, RestatInv, FillInv, UpgradeInv,
       ChangeInv, FinishInv DEF AccountNext
<1> QED
    BY <1>1, <1>2

\* Logins, requests and changes of the account, in any interleaving, keep the
\* invariant of users.json, its cache and the locks.
THEOREM AccountInvariant ==
    ASSUME AccountsAssumption
    PROVE  AccountSpec => []AccountIInv
<1>1. AccountInit => AccountIInv
    BY AccountInitInv
<1> QED
    BY <1>1, AccountNextInv, PTL DEF AccountSpec

\* Once a change of the account is answered, whoever logs in or shows a token
\* after that is accepted only for credentials the account had since (users.go,
\* changeCurrentAccount, principalActive, authenticateConfiguredUser).
THEOREM OldCredentials ==
    ASSUME AccountsAssumption
    PROVE  AccountSpec => []OldCredentialsEnd
<1>1. AccountIInv => OldCredentialsEnd
    <2> SUFFICES ASSUME AccountIInv, NEW c \in Clients, step[c] = "loaded"
                 PROVE  /\ op[c] = "request" /\ Active(view[c], shown[c]) =>
                             HeldSince(shown[c].name, shown[c].pw, base[c])
                        /\ op[c] = "login" /\ Verifies(view[c], shown[c].name, shown[c].pw) =>
                             HeldSince(shown[c].name, shown[c].pw, base[c])
        BY DEF OldCredentialsEnd
    <2>1. Known(view[c]) /\ Version(view[c]) >= base[c]
        BY DEF AccountIInv, Versions, Recent, Viewing
    <2>2. op[c] = "request" => KnownToken(shown[c])
        BY DEF AccountIInv, Versions
    <2> QED
        BY <2>1, <2>2 DEF Known, KnownToken, Active, Verifies, HeldSince
<1> QED
    BY <1>1, AccountInvariant, PTL

\* No write of users.json undoes a change: not the normalization of a reader,
\* not the upgrade of a hash by a login that began before it, not another
\* change (users.go, loadUsersConfig, upgradePasswordHash,
\* changeCurrentAccount).
THEOREM ChangesStay ==
    ASSUME AccountsAssumption
    PROVE  AccountSpec => ChangesSurvive
<1>1. AccountIInv /\ [AccountNext]_accountVars =>
        [usersFile' # usersFile =>
           \/ Version(InForce(usersFile')) > Version(InForce(usersFile))
           \/ /\ Version(InForce(usersFile')) = Version(InForce(usersFile))
              /\ InForce(usersFile').name = InForce(usersFile).name
              /\ InForce(usersFile').pw = InForce(usersFile).pw]_accountVars
    <2> SUFFICES ASSUME AccountIInv, AccountNext, usersFile' # usersFile
                 PROVE  \/ Version(InForce(usersFile')) > Version(InForce(usersFile))
                        \/ /\ Version(InForce(usersFile')) = Version(InForce(usersFile))
                           /\ InForce(usersFile').name = InForce(usersFile).name
                           /\ InForce(usersFile').pw = InForce(usersFile).pw
        BY DEF accountVars
    <2>1. PICK c \in Clients : Normalize(c) \/ Upgrade(c) \/ Change(c)
        BY DEF AccountNext, BeginLogin, BeginRequest, BeginChange, Arrives, TakeWriteMu, StatUsers,
               FromCache, ReadUsers, Restat, FillUsersCache, NormalizeFails, LogIn, BeginUpgrade,
               SkipUpgrade, Respond, ClearCache
    <2>2. CASE Normalize(c)
        <3>1. /\ usersFile' = [stamp |-> usersSaves + 1, acc |-> view[c]] /\ step[c] = "normalize"
              /\ usersSaves < MaxUsersSaves
            BY <2>2 DEF Normalize, Writes, Goes
        <3>2. /\ usersFile # None /\ usersFile.acc \in Account
              /\ view[c] = Normalized(usersFile.acc) /\ view[c] \in Account
            BY <3>1 DEF AccountIInv, Unnormal, Files, Valid, AccountTypeOK, Loading
        <3>3. usersFile' # None /\ usersFile'.acc = view[c]
            BY <3>1, <3>2 DEF AccountIInv, Valid, AccountTypeOK, AccountsAssumption
        <3>4. InForce(usersFile) = usersFile.acc /\ InForce(usersFile') = view[c]
            BY <3>2, <3>3 DEF InForce
        <3> QED
            BY <3>2, <3>4, AccountLemma DEF AccountIInv
    <2>3. CASE Upgrade(c)
        <3> DEFINE b == [view[c] EXCEPT !.form = "bcrypt"]
        <3>1. Writes(b) /\ Goes(c, "loaded", "clear") /\ op[c] = "upgrade"
            BY <2>3 DEF Upgrade
        <3>2. /\ b \in Account /\ b.name = view[c].name /\ b.pw = view[c].pw
              /\ Version(b) = Version(view[c])
            BY DEF AccountIInv, Valid, AccountTypeOK, Account, Version
        <3> HIDE DEF b
        <3>3. view[c] = InForce(usersFile) /\ usersFile' # None /\ usersFile'.acc = b
            BY <3>1, <3>2, WriteLemma
        <3> QED
            BY <3>2, <3>3 DEF InForce
    <2>4. CASE Change(c)
        <3>1. PICK b \in Account : /\ op[c] = "change" /\ Goes(c, "loaded", "clear") /\ Writes(b)
                                   /\ Version(b) = Version(view[c]) + 1
            BY <2>4, ChangeLemma
        <3>2. view[c] = InForce(usersFile) /\ view[c] \in Account /\ usersFile' # None /\ usersFile'.acc = b
            BY <3>1, WriteLemma
        <3>3. Version(view[c]) \in Nat
            BY <3>2, AccountLemma DEF AccountIInv
        <3> QED
            BY <3>1, <3>2, <3>3 DEF InForce
    <2> QED
        BY <2>1, <2>2, <2>3, <2>4
<1> QED
    BY <1>1, AccountInvariant, PTL DEF AccountSpec, ChangesSurvive

-----------------------------------------------------------------------------
(* LoginLimiter *)

\* The count of a window began in the past.
LimiterIInv == LimiterTypeOK /\ first <= now /\ FailuresBounded

\* What cleanupLoginAttemptsLocked leaves is what there was, or nothing.
LEMMA CleanedLemma ==
    ASSUME LimiterAssumption, LimiterIInv
    PROVE  \/ Cleaned = [failures |-> failures, first |-> first, until |-> until]
           \/ Cleaned = [failures |-> 0, first |-> 0, until |-> 0]
BY DEF Cleaned, NoAttempt, Attempt

\* A login that begins or ends changes the number of those under way by one.
LEMMA CheckingLemma ==
    ASSUME LimiterAssumption, LimiterIInv, NEW c \in Logins
    PROVE  /\ Cardinality(checking) \in Nat /\ Cardinality(Logins) \in Nat \ {0}
           /\ Cardinality(checking) <= Cardinality(Logins)
           /\ c \notin checking =>
                /\ Cardinality(checking \cup {c}) = Cardinality(checking) + 1
                /\ Cardinality(checking) + 1 <= Cardinality(Logins)
           /\ c \in checking =>
                /\ Cardinality(checking \ {c}) = Cardinality(checking) - 1
                /\ Cardinality(checking) >= 1
<1>1. IsFiniteSet(Logins) /\ checking \subseteq Logins
    BY DEF LimiterAssumption, LimiterIInv, LimiterTypeOK
<1>2. IsFiniteSet(checking) /\ Cardinality(checking) <= Cardinality(Logins)
    BY <1>1, FS_Subset
<1>3. Cardinality(checking) \in Nat /\ Cardinality(Logins) \in Nat
    BY <1>1, <1>2, FS_CardinalityType
<1>4. Cardinality(Logins) # 0
    BY <1>1, FS_EmptySet
<1>5. ASSUME c \notin checking
      PROVE  /\ Cardinality(checking \cup {c}) = Cardinality(checking) + 1
             /\ Cardinality(checking) + 1 <= Cardinality(Logins)
    <2>1. Cardinality(checking \cup {c}) = Cardinality(checking) + 1
        BY <1>2, <1>5, FS_AddElement
    <2>2. checking \cup {c} \subseteq Logins
        BY <1>1
    <2>3. Cardinality(checking \cup {c}) <= Cardinality(Logins)
        BY <1>1, <2>2, FS_Subset
    <2> QED
        BY <2>1, <2>3
<1>6. ASSUME c \in checking
      PROVE  /\ Cardinality(checking \ {c}) = Cardinality(checking) - 1
             /\ Cardinality(checking) >= 1
    <2>1. Cardinality(checking \ {c}) = Cardinality(checking) - 1
        BY <1>2, <1>6, FS_RemoveElement
    <2>2. Cardinality(checking) # 0
        BY <1>2, <1>6, FS_EmptySet
    <2> QED
        BY <1>3, <2>1, <2>2
<1> QED
    BY <1>2, <1>3, <1>4, <1>5, <1>6

LEMMA LimiterInitInv == LimiterAssumption /\ LimiterInit => LimiterIInv
<1> SUFFICES ASSUME LimiterAssumption, LimiterInit PROVE LimiterIInv
    OBVIOUS
<1>1. LimiterTypeOK
    BY DEF LimiterInit, LimiterTypeOK, LimiterAssumption
<1>2. Cardinality(checking) = 0
    BY FS_EmptySet DEF LimiterInit
<1>3. Cardinality(Logins) \in Nat
    BY FS_CardinalityType DEF LimiterAssumption
<1> QED
    BY <1>1, <1>2, <1>3 DEF LimiterInit, LimiterIInv, FailuresBounded, LimiterAssumption

\* Refuse and Pass: the block that is over takes its count along, and a count
\* that does not block is below the limit.
LEMMA AskInv ==
    ASSUME LimiterAssumption, LimiterIInv, NEW c \in Logins, Refuse(c) \/ Pass(c)
    PROVE  LimiterIInv'
<1> USE DEF LimiterAssumption, LimiterIInv
<1>1. \/ failures' = failures /\ first' = first /\ until' = until
      \/ failures' = 0 /\ first' = 0 /\ until' = 0
    BY CleanedLemma DEF Refuse, Pass, Becomes, NoAttempt, Attempt
<1>2. now' = now /\ lastCleanup' \in {now, lastCleanup}
    BY DEF Refuse, Pass, Becomes
<1>3. checking' \subseteq Logins
    BY DEF Refuse, Pass, LimiterTypeOK
<1>4. LimiterTypeOK' /\ (first <= now)'
    BY <1>1, <1>2, <1>3 DEF LimiterTypeOK
<1>5. CASE Refuse(c)
    <2>1. checking' = checking
        BY <1>5 DEF Refuse
    <2>2. /\ Cardinality(checking) \in Nat /\ Cardinality(Logins) \in Nat \ {0}
          /\ Cardinality(checking) <= Cardinality(Logins)
        BY CheckingLemma
    <2>3. CASE failures' = failures /\ first' = first /\ until' = until
        BY <1>4, <2>1, <2>3 DEF FailuresBounded
    <2>4. CASE failures' = 0 /\ first' = 0 /\ until' = 0
        <3>1. Cardinality(checking') = Cardinality(checking)
            BY <2>1
        <3> QED
            BY <1>4, <2>2, <2>4, <3>1 DEF FailuresBounded
    <2> QED
        BY <1>1, <2>3, <2>4
<1>6. CASE Pass(c)
    <2>1. failures' < MaxFailures
        <3>1. failures' = 0 \/ (failures' = failures /\ until = 0)
            BY <1>6, CleanedLemma DEF Pass, Becomes, NoAttempt, Attempt
        <3> QED
            BY <3>1 DEF FailuresBounded, LimiterTypeOK
    <2>2. Cardinality(checking') = Cardinality(checking) + 1 /\ Cardinality(checking) + 1 <= Cardinality(Logins)
        BY <1>6, CheckingLemma DEF Pass
    <2>3. failures' \in Nat /\ Cardinality(checking) \in Nat /\ Cardinality(Logins) \in Nat
        BY <1>4, CheckingLemma DEF LimiterTypeOK
    <2>4. /\ failures' + Cardinality(checking') < MaxFailures + Cardinality(Logins)
          /\ ~(failures' >= MaxFailures)
        BY <2>1, <2>2, <2>3
    <2> QED
        BY <1>4, <2>4 DEF FailuresBounded
<1> QED
    BY <1>5, <1>6

\* Fail: the sum of failures and logins under way does not grow, and the count
\* that reaches the limit blocks from now on.
LEMMA FailInv ==
    ASSUME LimiterAssumption, LimiterIInv, NEW c \in Logins, Fail(c)
    PROVE  LimiterIInv'
<1> USE DEF LimiterAssumption, LimiterIInv
<1> DEFINE fresh == Cleaned.first = 0 \/ now - Cleaned.first >= Window
           n == IF fresh THEN 1 ELSE failures + 1
<1>1. ~fresh => Cleaned = [failures |-> failures, first |-> first, until |-> until]
    BY CleanedLemma
<1>2. /\ Counted.failures = n
      /\ Counted.first = IF fresh THEN now ELSE first
      /\ Counted.until = IF n >= MaxFailures THEN now + Window ELSE IF fresh THEN 0 ELSE until
    BY <1>1 DEF Counted, Attempt, LimiterTypeOK
<1>3. /\ failures' = n /\ now' = now /\ lastCleanup' \in {now, lastCleanup}
      /\ first' = IF fresh THEN now ELSE first
      /\ until' = IF n >= MaxFailures THEN now + Window ELSE IF fresh THEN 0 ELSE until
    BY <1>2 DEF Fail, Becomes
<1>4. c \in checking /\ checking' = checking \ {c}
    BY DEF Fail
<1> HIDE DEF fresh
<1>5. LimiterTypeOK' /\ (first <= now)'
    BY <1>3, <1>4 DEF LimiterTypeOK
<1>6. FailuresBounded'
    BY <1>3, <1>4, <1>5, CheckingLemma DEF FailuresBounded, LimiterTypeOK
<1> QED
    BY <1>5, <1>6

LEMMA OtherInv ==
    ASSUME LimiterAssumption, LimiterIInv, Tick \/ \E c \in Logins : Succeed(c) \/ Abort(c)
    PROVE  LimiterIInv'
<1> USE DEF LimiterAssumption, LimiterIInv
<1>1. CASE Tick
    BY <1>1 DEF Tick, LimiterTypeOK, FailuresBounded
<1>2. ASSUME NEW c \in Logins, Succeed(c) \/ Abort(c)
      PROVE  LimiterIInv'
    <2>1. \/ failures' = failures /\ first' = first /\ until' = until
          \/ failures' = 0 /\ first' = 0 /\ until' = 0
        BY <1>2 DEF Succeed, Abort
    <2>2. now' = now /\ lastCleanup' = lastCleanup /\ c \in checking /\ checking' = checking \ {c}
        BY <1>2 DEF Succeed, Abort
    <2>3. LimiterTypeOK' /\ (first <= now)'
        BY <2>1, <2>2 DEF LimiterTypeOK
    <2>4. FailuresBounded'
        BY <2>1, <2>2, <2>3, CheckingLemma DEF FailuresBounded, LimiterTypeOK
    <2> QED
        BY <2>3, <2>4
<1> QED
    BY <1>1, <1>2

\* The failures counted in a window, with the logins that may still fail in it,
\* stay below the limit and the number of parallel logins together, and a
\* count that reached the limit blocks (auth.go, loginBlocked and
\* recordLoginFailure).
THEOREM Bounded ==
    ASSUME LimiterAssumption
    PROVE  LimiterSpec => []FailuresBounded
<1>1. LimiterInit => LimiterIInv
    BY LimiterInitInv
<1>2. ASSUME LimiterIInv, [LimiterNext]_limiterVars PROVE LimiterIInv'
    <2>1. CASE LimiterNext
        BY <1>2, <2>1, AskInv, FailInv, OtherInv DEF LimiterNext
    <2>2. CASE UNCHANGED limiterVars
        BY <1>2, <2>2 DEF limiterVars, LimiterIInv, LimiterTypeOK, FailuresBounded
    <2> QED
        BY <1>2, <2>1, <2>2
<1>3. LimiterIInv /\ [LimiterNext]_limiterVars => LimiterIInv'
    BY <1>2
<1>4. LimiterIInv => FailuresBounded
    BY DEF LimiterIInv
<1> QED
    BY <1>1, <1>3, <1>4, PTL DEF LimiterSpec

-----------------------------------------------------------------------------
(***************************************************************************)
(* TelegramNotify: a report of a job the manager knows that holds the      *)
(* marker, or has sent, is the only one, and the marker is there. A job    *)
(* that was pruned may lose its marker, and never comes back.              *)
(***************************************************************************)
Holding(j, r) == notice[j][r] \in {"marked", "sending", "sent"}

NoticeType == notice \in [Jobs -> [Reporters -> Notices]] /\ known \subseteq Jobs

MarkerInv ==
    \A j \in known : \A r, s \in Reporters :
        Holding(j, r) => j \in marker /\ (Holding(j, s) => s = r)

NoticeInv == NoticeType /\ MarkerInv

\* What Reports does to the reports of every job.
LEMMA ReportsOne ==
    ASSUME NoticeType, NEW j \in Jobs, NEW r \in Reporters, NEW from,
           NEW to \in Notices, Reports(j, r, from, to)
    PROVE  /\ notice' \in [Jobs -> [Reporters -> Notices]]
           /\ notice[j][r] = from
           /\ notice'[j][r] = to
           /\ \A i \in Jobs, s \in Reporters :
                i # j \/ s # r => notice'[i][s] = notice[i][s]
<1>1. notice[j][r] = from /\ notice' = [notice EXCEPT ![j][r] = to]
  BY DEF Reports
<1>2. notice[j] \in [Reporters -> Notices]
  BY DEF NoticeType
<1>3. notice' = [notice EXCEPT ![j] = [notice[j] EXCEPT ![r] = to]]
  BY <1>1
<1>4. [notice[j] EXCEPT ![r] = to] \in [Reporters -> Notices]
  BY <1>2
<1> QED BY <1>1, <1>2, <1>3, <1>4 DEF NoticeType

\* A report that begins or ends without the marker disturbs no other.
LEMMA QuietReport ==
    ASSUME NoticeInv, NEW j \in Jobs, NEW r \in Reporters, NEW from,
           NEW to \in Notices, Reports(j, r, from, to),
           to \notin {"marked", "sending", "sent"},
           known' \subseteq known, marker' = marker
    PROVE  NoticeInv'
<1>1. /\ notice' \in [Jobs -> [Reporters -> Notices]]
      /\ notice'[j][r] = to
      /\ \A i \in Jobs, s \in Reporters :
           i # j \/ s # r => notice'[i][s] = notice[i][s]
  BY ReportsOne DEF NoticeInv
<1>2. \A i \in Jobs, s \in Reporters : Holding(i, s)' => Holding(i, s)
  BY <1>1 DEF Holding
<1> QED BY <1>1, <1>2 DEF NoticeInv, NoticeType, MarkerInv

LEMMA NoticeNext == NoticeInv /\ [TelegramNext]_telegramVars => NoticeInv'
<1> SUFFICES ASSUME NoticeInv, [TelegramNext]_telegramVars PROVE NoticeInv'
  OBVIOUS
<1> USE DEF NoticeInv
<1>1. ASSUME NEW j \in Jobs, Stop(j) \/ Return(j) PROVE NoticeInv'
  <2>1. PICK r \in Reporters : Reports(j, r, "none", "due")
    BY <1>1 DEF Stop, Return, Reporters
  <2>2. known' = known /\ marker' = marker
    BY <1>1 DEF Stop, Return
  <2> QED BY <2>1, <2>2, QuietReport DEF Notices
<1>2. ASSUME NEW j \in Jobs, Forget(j) PROVE NoticeInv'
  BY <1>2 DEF Forget, NoticeType, MarkerInv, Holding
<1>3. ASSUME NEW j \in Jobs, NEW r \in Reporters,
             \/ Mark(j, r) \/ Drop(j, r) \/ Prune(j, r)
             \/ Deliver(j, r) \/ FailToDeliver(j, r)
      PROVE  NoticeInv'
  <2>1. CASE Mark(j, r)
    <3>1. /\ notice' \in [Jobs -> [Reporters -> Notices]]
          /\ \A i \in Jobs, s \in Reporters :
               i # j \/ s # r => notice'[i][s] = notice[i][s]
      BY <2>1, ReportsOne DEF Mark, Notices
    <3>2. j \notin marker /\ marker' = marker \cup {j} /\ known' = known
      BY <2>1 DEF Mark, jobVars
    <3>3. j \in known => \A s \in Reporters : ~ Holding(j, s)
      BY <3>2 DEF MarkerInv
    <3>4. \A i \in Jobs, s \in Reporters : i # j \/ s # r => (Holding(i, s)' <=> Holding(i, s))
      BY <3>1 DEF Holding
    <3> QED BY <3>1, <3>2, <3>3, <3>4 DEF NoticeType, MarkerInv
  <2>2. CASE Drop(j, r)
    BY <2>2, QuietReport DEF Drop, jobVars, Notices
  <2>3. CASE Prune(j, r) \/ Deliver(j, r)
    <3>1. PICK from, to \in {"marked", "sending", "sent"} : Reports(j, r, from, to)
      BY <2>3 DEF Prune, Deliver
    <3>2. to \in Notices
      BY DEF Notices
    <3>3. /\ notice' \in [Jobs -> [Reporters -> Notices]]
          /\ notice[j][r] = from /\ notice'[j][r] = to
          /\ \A i \in Jobs, s \in Reporters :
               i # j \/ s # r => notice'[i][s] = notice[i][s]
      BY <3>1, <3>2, ReportsOne
    <3>4. \A i \in Jobs, s \in Reporters : Holding(i, s)' <=> Holding(i, s)
      BY <3>3 DEF Holding
    <3>5. known' = known /\ marker \cap known \subseteq marker'
      BY <2>3 DEF Prune, Deliver, jobVars
    <3> QED BY <3>3, <3>4, <3>5 DEF NoticeType, MarkerInv
  <2>4. CASE FailToDeliver(j, r)
    <3>1. /\ notice' \in [Jobs -> [Reporters -> Notices]]
          /\ notice[j][r] = "sending" /\ notice'[j][r] = "failed"
          /\ \A i \in Jobs, s \in Reporters :
               i # j \/ s # r => notice'[i][s] = notice[i][s]
      BY <2>4, ReportsOne DEF FailToDeliver, Notices
    <3>2. known' = known /\ marker' = marker \ {j}
      BY <2>4 DEF FailToDeliver, jobVars
    <3>3. j \in known => \A s \in Reporters : ~ Holding(j, s)'
      BY <3>1 DEF MarkerInv, Holding
    <3>4. \A i \in Jobs, s \in Reporters : i # j => (Holding(i, s)' <=> Holding(i, s))
      BY <3>1 DEF Holding
    <3> QED BY <3>1, <3>2, <3>3, <3>4 DEF NoticeType, MarkerInv
  <2> QED BY <1>3, <2>1, <2>2, <2>3, <2>4
<1>4. ASSUME NEW c \in Clients,
             TypeToken(c) \/ LeaveBlank(c) \/ FailToSave(c) \/ WriteSettings(c)
      PROVE  NoticeInv'
  <2>1. known' = known /\ marker' = marker /\ notice' = notice
    BY <1>4 DEF TypeToken, LeaveBlank, BeginSave, FailToSave, WriteSettings, jobVars
  <2> QED BY <2>1 DEF NoticeType, MarkerInv, Holding
<1>5. CASE UNCHANGED telegramVars
  BY <1>5 DEF telegramVars, NoticeType, MarkerInv, Holding
<1> QED BY <1>1, <1>2, <1>3, <1>4, <1>5 DEF TelegramNext

\* A known job is announced at most once, whenever its two reports come, their
\* attempts fail, and whatever is pruned in between.
THEOREM OneMessage == TelegramSpec => []OneMessagePerJob
<1>1. TelegramInit => NoticeInv
  BY DEF TelegramInit, NoticeInv, NoticeType, MarkerInv, Holding, Notices
<1>2. NoticeInv => OneMessagePerJob
  <2> SUFFICES ASSUME NoticeInv, NEW j \in known
               PROVE  Cardinality({r \in Reporters : notice[j][r] = "sent"}) <= 1
    BY DEF OneMessagePerJob
  <2> DEFINE S == {r \in Reporters : notice[j][r] = "sent"}
  <2>1. \A r, s \in S : s = r
    BY DEF NoticeInv, MarkerInv, Holding
  <2>2. S = {} \/ \E r \in S : S = {r}
    BY <2>1
  <2> HIDE DEF S
  <2>3. Cardinality(S) <= 1
    BY <2>2, FS_EmptySet, FS_Singleton
  <2> QED BY <2>3 DEF S
<1> QED BY <1>1, <1>2, NoticeNext, PTL DEF TelegramSpec

=============================================================================
