--------------------------- MODULE SettingsStore ---------------------------
(***************************************************************************)
(* The application settings of internal/web/settings.go: settings.json,    *)
(* the cache of its parsed form and the requests that read and change it.  *)
(*                                                                         *)
(* A reader looks at the file (os.Stat), asks the cache under that stamp,  *)
(* reads the file when the cache holds another stamp and then fills the    *)
(* cache, all without a lock between the steps.  A writer does the same    *)
(* load and then replaces the file, all of it under appSettingsMu.         *)
(*                                                                         *)
(* A stamp stands for the modification time and size that the cache        *)
(* compares.  A profile is its address, its key and the id of the server   *)
(* that answered there; a server's id is written as its address.  The one  *)
(* selection stands for the current source and the current target, which   *)
(* the code treats alike.  Addresses are normalized ones.                  *)
(***************************************************************************)
EXTENDS Naturals, WebRequests

CONSTANTS
    Urls, Keys,   \* normalized base addresses, API keys
    Ids,          \* profile ids
    Slug,         \* profileIDFromBaseURL: the id derived from an address
    Blank,        \* an empty field
    CoarseClock,  \* whether two saves may leave the same time and size
    MaxSettingsSaves  \* bound: how often the file is replaced

VARIABLES
    settingsFile,   \* settings.json with its stamp, or None
    settingsCache,  \* appSettingsCache: settings under a stamp, or None
    appSettingsMu,  \* the client that holds appSettingsMu, or None
    stage,          \* where each client's request stands
    writing,        \* whether it is a writer
    statSeen,       \* the stamp its os.Stat returned
    loaded,         \* what its loadAppSettings returned
    settingsSaves,  \* how often the file was replaced
    given           \* history: the <<address, key>> and <<address, server id>>
                    \* pairs that requests brought along

settingsVars == <<settingsFile, settingsCache, appSettingsMu, stage, writing,
                  statSeen, loaded, settingsSaves, given>>

\* What the file holds.
Conn    == [url : Urls, key : Keys]
Profile == [url : Urls, key : Keys, sid : Urls \cup {Blank}]
Settings ==
    [v2 : BOOLEAN, conn : Conn \cup {None},
     profiles : [Ids -> Profile \cup {None}], selected : Ids \cup {Blank}]

\* What the constants have to be.
SettingsAssumption ==
    /\ Blank \notin Urls \cup Keys \cup Ids /\ Keys \cap Urls = {}
    /\ None \notin Clients \cup Ids
    /\ None \notin [url : Urls, key : Keys]
    /\ None \notin [url : Urls, key : Keys, sid : Urls \cup {Blank}]
    /\ None \notin [stamp : 0..MaxSettingsSaves, val : Settings]
    /\ Slug \in [Urls -> Ids]
    /\ CoarseClock \in BOOLEAN
    /\ MaxSettingsSaves \in Nat

Empty == [v2 |-> FALSE, conn |-> None, profiles |-> [i \in Ids |-> None],
          selected |-> Blank]

(***************************************************************************)
(* The address book.                                                       *)
(***************************************************************************)
Used(ps) == {i \in Ids : ps[i] # None}

AtUrl(ps, u) == {i \in Used(ps) : ps[i].url = u}

\* migrateLegacyProfile: a file of the first version gets its one profile.
Migrated(s) ==
    IF s.v2 \/ Used(s.profiles) # {} \/ s.conn = None THEN s
    ELSE [s EXCEPT
            !.profiles[Slug[s.conn.url]] =
                [url |-> s.conn.url, key |-> s.conn.key, sid |-> Blank],
            !.selected = Slug[s.conn.url]]

\* savedAPIKeyForBaseURL: the connection's key goes before the profile's.
SavedKeys(s, u) ==
    IF s.conn # None /\ s.conn.url = u THEN {s.conn.key}
    ELSE {s.profiles[i].key : i \in AtUrl(s.profiles, u)}

\* A key that was typed, or else a saved one: no element is the refusal. So with
\* a server's id, or else the fetched one.
TypedOr(typed, others) == IF typed # Blank THEN {typed} ELSE others

\* ensureProfileSelections; which of the profiles comes first is left open.
Reselected(s) ==
    LET used == Used(s.profiles)
    IN  IF used = {} THEN {[s EXCEPT !.selected = Blank]}
        ELSE IF s.selected \in used THEN {s}
        ELSE {[s EXCEPT !.selected = i] : i \in used}

\* uniqueProfileID: a new profile gets an id that no other has.
UniqueProfileIDs(ps) == Ids \ Used(ps)

\* With a fault: the address of a named profile is changed under its key.
UpsertedUnderKey(ps, id, url, key, server) ==
    LET there == IF id \in Used(ps) THEN {id} ELSE AtUrl(ps, url)
        ids   == IF there # {} THEN there
                 ELSE IF id # Blank THEN {id} ELSE UniqueProfileIDs(ps)
        sid(i) == IF server = Blank /\ i \in there THEN ps[i].sid ELSE server
    IN  UNION {{[ps EXCEPT ![i] = [url |-> url, key |-> k, sid |-> sid(i)]] :
                    k \in TypedOr(key, {ps[j].key : j \in there})} : i \in ids}

\* normalizedProfileFromSave and upsertProfile.  The profile already kept for
\* the address is updated, whatever id was asked for; else the asked id is
\* taken, over a profile that had it for another address; else a new id.
Upserted(ps, id, url, key, server) ==
    LET there == IF id \in AtUrl(ps, url) THEN {id} ELSE AtUrl(ps, url)
        ids   == IF there # {} THEN there
                 ELSE IF id # Blank THEN {id} ELSE UniqueProfileIDs(ps)
        sid(i) == IF server = Blank /\ i \in there THEN ps[i].sid ELSE server
    IN  UNION {{[ps EXCEPT ![i] = [url |-> url, key |-> k, sid |-> sid(i)]] :
                    k \in TypedOr(key, {ps[j].key : j \in there})} : i \in ids}

\* fetchServerIdentity: the id of the server at the address, or no answer.
Fetched(url) == {url, Blank}

\* resolveEmbyConnection for an address without a key.
ResolvedKeys(s, url) == SavedKeys(s, url)

----------------------------------------------------------------------------
(***************************************************************************)
(* The initial file: none, or one of the first version.                    *)
(***************************************************************************)
SettingsInit ==
    /\ settingsFile \in {None} \cup
           {[stamp |-> 0, val |-> [Empty EXCEPT !.conn = c]] : c \in Conn}
    /\ settingsCache = None /\ appSettingsMu = None /\ settingsSaves = 0
    /\ stage = [c \in Clients |-> "idle"]
    /\ writing = [c \in Clients |-> FALSE]
    /\ statSeen = [c \in Clients |-> 0]
    /\ loaded = [c \in Clients |-> Empty]
    /\ given = IF settingsFile = None THEN {}
               ELSE {<<settingsFile.val.conn.url, settingsFile.val.conn.key>>}

Moves(c, from, to) == stage[c] = from /\ stage' = [stage EXCEPT ![c] = to]

\* A request ends, and what it had loaded is forgotten.
Ends(c, from) ==
    /\ Moves(c, from, "idle")
    /\ writing' = [writing EXCEPT ![c] = FALSE]
    /\ statSeen' = [statSeen EXCEPT ![c] = 0]
    /\ loaded' = [loaded EXCEPT ![c] = Empty]

\* A request arrives; a writer first takes appSettingsMu.
BeginRead(c) ==
    /\ Moves(c, "idle", "stat")
    /\ writing' = [writing EXCEPT ![c] = FALSE]
    /\ UNCHANGED <<settingsFile, settingsCache, appSettingsMu, statSeen,
                   loaded, settingsSaves, given>>

BeginWrite(c) ==
    /\ settingsSaves < MaxSettingsSaves
    /\ appSettingsMu = None /\ appSettingsMu' = c
    /\ Moves(c, "idle", "stat")
    /\ writing' = [writing EXCEPT ![c] = TRUE]
    /\ UNCHANGED <<settingsFile, settingsCache, statSeen, loaded,
                   settingsSaves, given>>

\* os.Stat of loadAppSettings.
StatFile(c) ==
    /\ \/ /\ settingsFile = None /\ Moves(c, "stat", "loaded")
          /\ loaded' = [loaded EXCEPT ![c] = Empty]
          /\ UNCHANGED statSeen
       \/ /\ settingsFile # None /\ Moves(c, "stat", "lookup")
          /\ statSeen' = [statSeen EXCEPT ![c] = settingsFile.stamp]
          /\ UNCHANGED loaded
    /\ UNCHANGED <<settingsFile, settingsCache, appSettingsMu, writing,
                   settingsSaves, given>>

Hit(c) == settingsCache # None /\ settingsCache.stamp = statSeen[c]

LookUp(c) ==
    /\ \/ /\ Hit(c)
          /\ Moves(c, "lookup", "loaded")
          /\ loaded' = [loaded EXCEPT ![c] = settingsCache.val]
       \/ /\ ~Hit(c)
          /\ Moves(c, "lookup", "read")
          /\ UNCHANGED loaded
    /\ UNCHANGED <<settingsFile, settingsCache, appSettingsMu, writing,
                   statSeen, settingsSaves, given>>

ReadFile(c) ==
    /\ Moves(c, "read", "fill")
    /\ loaded' = [loaded EXCEPT ![c] = Migrated(settingsFile.val)]
    /\ UNCHANGED <<settingsFile, settingsCache, appSettingsMu, writing,
                   statSeen, settingsSaves, given>>

\* With a fault: the file is looked at again before the cache is filled.
FillCacheLate(c) ==
    /\ Moves(c, "fill", "loaded")
    /\ settingsCache' = [stamp |-> settingsFile.stamp, val |-> loaded[c]]
    /\ UNCHANGED <<settingsFile, appSettingsMu, writing, statSeen, loaded,
                   settingsSaves, given>>

\* The cache gets the stamp looked at before the read, not the one of now.
FillCache(c) ==
    /\ Moves(c, "fill", "loaded")
    /\ settingsCache' = [stamp |-> statSeen[c], val |-> loaded[c]]
    /\ UNCHANGED <<settingsFile, appSettingsMu, writing, statSeen, loaded,
                   settingsSaves, given>>

Answer(c) ==
    /\ ~writing[c] /\ Ends(c, "loaded")
    /\ UNCHANGED <<settingsFile, settingsCache, appSettingsMu, settingsSaves,
                   given>>

\* saveAppSettings: the new file is renamed into place.
Save(c, s, typed) ==
    /\ Moves(c, "loaded", "saved")
    /\ settingsSaves' = settingsSaves + 1
    /\ \E t \in IF CoarseClock /\ settingsFile # None
                THEN {settingsFile.stamp, settingsSaves + 1}
                ELSE {settingsSaves + 1} :
         settingsFile' = [stamp |-> t, val |-> s]
    /\ loaded' = [loaded EXCEPT ![c] = s]
    /\ given' = given \cup typed
    /\ UNCHANGED <<settingsCache, appSettingsMu, writing, statSeen>>

CanSave(c) == writing[c] /\ stage[c] = "loaded"

Typed(url, field) == IF field = Blank THEN {} ELSE {<<url, field>>}

\* buildAppSettingsFromRequest.  Without a profile in the request the one
\* named after the address is written (id = Slug[url], purl = url); a profile
\* of the connection's address inherits the connection's key.  The server's id
\* that a profile of this request may name is not passed on.
SaveConnection(c) == CanSave(c) /\
    \E url, purl \in Urls, key, pkey \in Keys \cup {Blank}, id, sel \in Ids \cup {Blank} :
    \E k \in TypedOr(key, SavedKeys(loaded[c], url)), f \in Fetched(purl) :
    \E ps \in Upserted(loaded[c].profiles, id, purl,
                       IF pkey = Blank /\ purl = url THEN k ELSE pkey, f) :
    \E s \in Reselected([v2 |-> TRUE, conn |-> [url |-> url, key |-> k],
                         profiles |-> ps,
                         selected |-> IF sel # Blank THEN sel ELSE loaded[c].selected]) :
        Save(c, s, Typed(url, key) \cup Typed(purl, pkey))

\* saveProfileFromRequest.  The first profile also becomes the connection.  The
\* server is asked for its id only if the request names none; one that it does
\* name, which the front end never does, is stored as it is.
SaveProfile(c) == CanSave(c) /\
    \E url \in Urls, key \in Keys \cup {Blank}, id \in Ids \cup {Blank}, sid \in Urls \cup {Blank} :
    \E k \in TypedOr(key, SavedKeys(loaded[c], url)), f \in TypedOr(sid, Fetched(url)) :
    \E ps \in Upserted(loaded[c].profiles, id, url, k, f) :
    \E s \in Reselected([v2 |-> TRUE, profiles |-> ps,
                         selected |-> loaded[c].selected,
                         conn |-> IF loaded[c].conn = None
                                  THEN [url |-> url, key |-> k]
                                  ELSE loaded[c].conn]) :
        Save(c, s, Typed(url, key) \cup Typed(url, sid))

\* deleteProfile.
DeleteProfile(c) == CanSave(c) /\
    \E id \in Used(loaded[c].profiles) :
    \E s \in Reselected([loaded[c] EXCEPT !.v2 = TRUE, !.profiles[id] = None]) :
        Save(c, s, {})

\* selectProfiles.
SelectProfile(c) == CanSave(c) /\
    \E id \in Used(loaded[c].profiles) :
        Save(c, [loaded[c] EXCEPT !.v2 = TRUE, !.selected = id], {})

\* The request is refused, or the file cannot be written.
RefuseSave(c) ==
    /\ writing[c] /\ Ends(c, "loaded")
    /\ appSettingsMu' = None
    /\ UNCHANGED <<settingsFile, settingsCache, settingsSaves, given>>

\* The writer looks at its new file, fills the cache and unlocks.
EndSave(c) ==
    /\ Ends(c, "saved")
    /\ settingsCache' = [stamp |-> settingsFile.stamp, val |-> loaded[c]]
    /\ appSettingsMu' = None
    /\ UNCHANGED <<settingsFile, settingsSaves, given>>

SettingsNext == \E c \in Clients :
    \/ BeginRead(c) \/ BeginWrite(c) \/ StatFile(c) \/ LookUp(c) \/ ReadFile(c)
    \/ FillCache(c) \/ Answer(c) \/ SaveConnection(c) \/ SaveProfile(c)
    \/ DeleteProfile(c) \/ SelectProfile(c) \/ RefuseSave(c) \/ EndSave(c)

SettingsSpec == SettingsInit /\ [][SettingsNext]_settingsVars

----------------------------------------------------------------------------
SettingsTypeOK ==
    /\ settingsFile \in [stamp : 0..MaxSettingsSaves, val : Settings] \cup {None}
    /\ settingsCache \in [stamp : 0..MaxSettingsSaves, val : Settings] \cup {None}
    /\ appSettingsMu \in Clients \cup {None}
    /\ stage \in [Clients ->
          {"idle", "stat", "lookup", "read", "fill", "loaded", "saved"}]
    /\ writing \in [Clients -> BOOLEAN]
    /\ statSeen \in [Clients -> 0..MaxSettingsSaves]
    /\ loaded \in [Clients -> Settings]
    /\ settingsSaves \in 0..MaxSettingsSaves
    /\ given \subseteq Urls \X (Keys \cup Urls)

\* What is kept in one copy of the settings: every key is kept for an address
\* it was typed for, every server id for the address that answered with it or for
\* which a request named it.
KeysAtHome(s) ==
    /\ s.conn # None => <<s.conn.url, s.conn.key>> \in given
    /\ \A i \in Used(s.profiles) :
         LET p == s.profiles[i]
         IN  /\ <<p.url, p.key>> \in given
             /\ p.sid \in {p.url, Blank} \/ <<p.url, p.sid>> \in given

\* No key is ever kept or used for another address than the one it was typed
\* for, however profiles are moved, renamed, merged and saved with the key
\* left blank; nor does the id of a server, which the database apply relies on,
\* come along when they are.  An id that a request names for an address itself
\* is stored unchecked and may be another server's (normalizedProfileFromSave,
\* savedAPIKeyForBaseURL, resolveEmbyConnection).
KeysStayHome ==
    /\ settingsFile # None => KeysAtHome(settingsFile.val)
    /\ settingsCache # None => KeysAtHome(settingsCache.val)
    /\ \A c \in Clients : KeysAtHome(loaded[c])
    /\ \A c \in Clients, u \in Urls :
         ResolvedKeys(loaded[c], u) \subseteq {k \in Keys : <<u, k>> \in given}

\* What the cache holds under the stamp of the file is the file.
CacheIsTrue ==
    settingsFile # None /\ settingsCache # None =>
      (settingsCache.stamp = settingsFile.stamp =>
         settingsCache.val = Migrated(settingsFile.val))

\* "appSettingsMu serializes whole read-modify-write cycles [...] so
\* concurrent saves cannot lose updates": a save starts from the settings the
\* file holds at that moment, whatever readers put into the cache meanwhile.
NoLostUpdate ==
    [][\A c \in Clients :
         settingsFile' # settingsFile /\ stage'[c] # stage[c] =>
           loaded[c] = IF settingsFile = None THEN Empty
                       ELSE Migrated(settingsFile.val)]_settingsVars
=============================================================================
