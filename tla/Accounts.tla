------------------------------ MODULE Accounts ------------------------------
(***************************************************************************)
(* The user account of internal/web/users.go with the logins and sessions  *)
(* of auth.go: users.json, the cache of its parsed form, and the requests  *)
(* that log in, show a session token or change the account.                *)
(*                                                                         *)
(* loadUsersConfig looks at the file before it takes usersConfigMu; under  *)
(* the lock it answers from the cache or reads the file, and a file still  *)
(* in an old form is normalized, written back and looked at again.  A      *)
(* change of the account and the upgrade of an old password hash replace   *)
(* the file under usersWriteMu only and then clear the cache.              *)
(*                                                                         *)
(* One account is modelled: the roles and the names of other users do not  *)
(* take part in these steps.  A stamp stands for the modification time and *)
(* size that the cache compares, and every write has another one.          *)
(***************************************************************************)
EXTENDS Naturals, FiniteSets, WebRequests

CONSTANTS
    Names, Passwords,
    Admin, Default,   \* the account that counts while there is no users.json
    MaxVersion,       \* bound: the highest session version
    MaxTokens,        \* bound: logins begin while fewer tokens are issued
    MaxUsersSaves     \* bound: how often the file is replaced

VARIABLES
    usersFile,      \* users.json with its stamp, or None
    usersCache,     \* usersCache, or None
    usersConfigMu,  \* the client that holds usersConfigMu, or None
    usersWriteMu,   \* the client that holds usersWriteMu, or None
    step, op,       \* where each client's request stands, and what it asks for
    shown,          \* the name and password typed, or the token shown
    seen,           \* the stamp its os.Stat returned
    view,           \* the account its loadUsersConfig returned
    usersSaves,     \* how often the file was replaced
    tokens,         \* the session tokens issued, with the password that earned them
    creds,          \* history: the name and password of every session version
    completed,      \* history: the session version of the last completed change
    base            \* history: completed, when the client's request began

accountVars == <<usersFile, usersCache, usersConfigMu, usersWriteMu, step, op,
                 shown, seen, view, usersSaves, tokens, creds, completed,
                 base>>

\* What a login or a change types; a session token.
Claim   == [name : Names, pw : Passwords]
Session == [name : Names, sv : 1..MaxVersion, pw : Passwords]

\* The form of the stored password: plain text, the old hash, bcrypt.
Account == [name : Names, pw : Passwords, sv : 0..MaxVersion,
            form : {"plain", "sha", "bcrypt"}]

\* What the constants have to be.
AccountsAssumption ==
    /\ Admin \in Names /\ Default \in Passwords
    /\ None \notin Clients \cup Names \cup Passwords
    /\ MaxVersion \in Nat \ {0} /\ MaxUsersSaves \in Nat
    /\ MaxTokens \in Nat
    /\ None \notin [stamp : 0..MaxUsersSaves, acc : Account]

\* normalizedSessionVersion.
Version(a) == IF a.sv = 0 THEN 1 ELSE a.sv

\* The account in force: without users.json the one of the configuration.
InForce(f) == IF f = None
              THEN [name |-> Admin, pw |-> Default, sv |-> 1,
                    form |-> "bcrypt"]
              ELSE f.acc

\* normalizeUsersConfig, and whether it changes anything.
Normalized(a) == [a EXCEPT !.sv = Version(a),
                           !.form = IF @ = "plain" THEN "bcrypt" ELSE @]

\* verifyPassword for the account of that name.
Verifies(a, name, pw) == a.name = name /\ a.pw = pw

\* principalActive.
Active(a, token) == a.name = token.name /\ Version(a) = token.sv

----------------------------------------------------------------------------
AccountInit ==
    /\ usersFile \in {None} \cup
           [stamp : {0}, acc : [name : {Admin}, pw : {Default}, sv : {0, 1},
                                form : {"plain", "sha", "bcrypt"}]]
    /\ usersCache = None /\ usersConfigMu = None /\ usersWriteMu = None
    /\ step = [c \in Clients |-> "idle"]
    /\ op = [c \in Clients |-> "none"]
    /\ shown = [c \in Clients |-> None]
    /\ seen = [c \in Clients |-> 0]
    /\ view = [c \in Clients |-> InForce(None)]
    /\ usersSaves = 0 /\ tokens = {}
    /\ creds = [v \in {1} |-> <<Admin, Default>>]
    /\ completed = 1
    /\ base = [c \in Clients |-> 1]

Goes(c, from, to) == step[c] = from /\ step' = [step EXCEPT ![c] = to]

\* A request arrives with what it shows.
Arrives(c, what, with, at) ==
    /\ Goes(c, "idle", at)
    /\ op' = [op EXCEPT ![c] = what]
    /\ shown' = [shown EXCEPT ![c] = with]
    /\ base' = [base EXCEPT ![c] = completed]
    /\ UNCHANGED <<usersFile, usersCache, usersConfigMu, usersWriteMu, seen,
                   view, usersSaves, tokens, creds, completed>>

\* A request ends, and what it had loaded is forgotten.
Finishes(c, from) ==
    /\ Goes(c, from, "idle")
    /\ op' = [op EXCEPT ![c] = "none"]
    /\ shown' = [shown EXCEPT ![c] = None]
    /\ seen' = [seen EXCEPT ![c] = 0]
    /\ view' = [view EXCEPT ![c] = InForce(None)]
    /\ base' = [base EXCEPT ![c] = 1]

BeginLogin(c) == Cardinality(tokens) < MaxTokens /\ \E name \in Names, pw \in Passwords :
    Arrives(c, "login", [name |-> name, pw |-> pw], "stat")

BeginRequest(c) == \E t \in tokens : Arrives(c, "request", t, "stat")

\* changeCurrentAccount first waits for usersWriteMu.
BeginChange(c) == \E name \in Names, pw \in Passwords :
    Arrives(c, "change", [name |-> name, pw |-> pw], "wait")

TakeWriteMu(c) ==
    /\ usersWriteMu = None /\ usersWriteMu' = c
    /\ Goes(c, "wait", "stat")
    /\ UNCHANGED <<usersFile, usersCache, usersConfigMu, op, shown, seen, view,
                   usersSaves, tokens, creds, completed, base>>

(***************************************************************************)
(* loadUsersConfig.                                                        *)
(***************************************************************************)
StatUsers(c) ==
    /\ \/ /\ usersFile = None /\ Goes(c, "stat", "loaded")
          /\ view' = [view EXCEPT ![c] = InForce(None)]
          /\ UNCHANGED seen
       \/ /\ usersFile # None /\ Goes(c, "stat", "lock")
          /\ seen' = [seen EXCEPT ![c] = usersFile.stamp]
          /\ UNCHANGED view
    /\ UNCHANGED <<usersFile, usersCache, usersConfigMu, usersWriteMu, op,
                   shown, usersSaves, tokens, creds, completed, base>>

CacheHit(c) == usersCache # None /\ usersCache.stamp = seen[c]

FromCache(c) ==
    /\ usersConfigMu = None /\ CacheHit(c)
    /\ Goes(c, "lock", "loaded")
    /\ view' = [view EXCEPT ![c] = usersCache.acc]
    /\ UNCHANGED <<usersFile, usersCache, usersConfigMu, usersWriteMu, op,
                   shown, seen, usersSaves, tokens, creds, completed, base>>

ReadUsers(c) ==
    /\ usersConfigMu = None /\ ~CacheHit(c) /\ usersConfigMu' = c
    /\ Goes(c, "lock", IF Normalized(usersFile.acc) = usersFile.acc
                        THEN "fill" ELSE "normalize")
    /\ view' = [view EXCEPT ![c] = Normalized(usersFile.acc)]
    /\ UNCHANGED <<usersFile, usersCache, usersWriteMu, op, shown, seen,
                   usersSaves, tokens, creds, completed, base>>

\* writeUsersConfig: the new file is renamed into place.
Writes(a) == /\ usersSaves < MaxUsersSaves /\ usersSaves' = usersSaves + 1
             /\ usersFile' = [stamp |-> usersSaves + 1, acc |-> a]

Normalize(c) ==
    /\ Goes(c, "normalize", "restat")
    /\ Writes(view[c])
    /\ UNCHANGED <<usersCache, usersConfigMu, usersWriteMu, op, shown, seen,
                   view, tokens, creds, completed, base>>

Restat(c) ==
    /\ Goes(c, "restat", "fill")
    /\ seen' = [seen EXCEPT ![c] = usersFile.stamp]
    /\ UNCHANGED <<usersFile, usersCache, usersConfigMu, usersWriteMu, op,
                   shown, view, usersSaves, tokens, creds, completed, base>>

FillUsersCache(c) ==
    /\ Goes(c, "fill", "loaded")
    /\ usersCache' = [stamp |-> seen[c], acc |-> view[c]]
    /\ usersConfigMu' = None
    /\ UNCHANGED <<usersFile, usersWriteMu, op, shown, seen, view, usersSaves,
                   tokens, creds, completed, base>>

\* The file cannot be written back: the load fails, and the request with it.
NormalizeFails(c) ==
    /\ Finishes(c, "normalize")
    /\ usersConfigMu' = None
    /\ usersWriteMu' = IF usersWriteMu = c THEN None ELSE usersWriteMu
    /\ UNCHANGED <<usersFile, usersCache, usersSaves, tokens, creds,
                   completed>>

(***************************************************************************)
(* Logins and sessions.                                                    *)
(***************************************************************************)
\* With a fault: the token carries the session version of the moment.
TokenNow(c, a) ==
    [name |-> a.name, sv |-> Version(InForce(usersFile)), pw |-> shown[c].pw]

Token(c, a) == [name |-> a.name, sv |-> Version(a), pw |-> shown[c].pw]

\* authenticateConfiguredUser and newSessionToken: the token carries the
\* session version of the account the password was compared with.
LogIn(c) ==
    /\ op[c] = "login" /\ view[c].form # "sha"
    /\ Verifies(view[c], shown[c].name, shown[c].pw)
    /\ tokens' = tokens \cup {Token(c, view[c])}
    /\ Finishes(c, "loaded")
    /\ UNCHANGED <<usersFile, usersCache, usersConfigMu, usersWriteMu,
                   usersSaves, creds, completed>>

\* With a fault: the upgrade writes the configuration the login had loaded.
BeginUpgradeUnread(c) ==
    /\ op[c] = "login" /\ view[c].form = "sha"
    /\ Verifies(view[c], shown[c].name, shown[c].pw)
    /\ op' = [op EXCEPT ![c] = "upgrade"]
    /\ shown' = [shown EXCEPT ![c] = Token(c, view[c])]
    /\ UNCHANGED <<usersFile, usersCache, usersConfigMu, usersWriteMu, step,
                   seen, view, usersSaves, tokens, creds, completed, base>>

\* The password fits an old hash: upgradePasswordHash takes usersWriteMu and
\* loads again.
BeginUpgrade(c) ==
    /\ op[c] = "login" /\ view[c].form = "sha"
    /\ Verifies(view[c], shown[c].name, shown[c].pw)
    /\ Goes(c, "loaded", "wait")
    /\ op' = [op EXCEPT ![c] = "upgrade"]
    /\ shown' = [shown EXCEPT ![c] = Token(c, view[c])]
    /\ UNCHANGED <<usersFile, usersCache, usersConfigMu, usersWriteMu, seen,
                   view, usersSaves, tokens, creds, completed, base>>

Upgradable(c) == /\ view[c].form = "sha"
                 /\ Verifies(view[c], shown[c].name, shown[c].pw)

Upgrade(c) ==
    /\ op[c] = "upgrade" /\ Upgradable(c)
    /\ Goes(c, "loaded", "clear")
    /\ Writes([view[c] EXCEPT !.form = "bcrypt"])
    /\ UNCHANGED <<usersCache, usersConfigMu, usersWriteMu, op, shown, seen,
                   view, tokens, creds, completed, base>>

\* Somebody else upgraded or changed the account meanwhile.
SkipUpgrade(c) ==
    /\ op[c] = "upgrade" /\ ~Upgradable(c)
    /\ tokens' = tokens \cup {shown[c]}
    /\ usersWriteMu' = None
    /\ Finishes(c, "loaded")
    /\ UNCHANGED <<usersFile, usersCache, usersConfigMu, usersSaves, creds,
                   completed>>

\* A login or a change is refused, a request is answered, a write fails.
Respond(c) ==
    /\ op[c] = "login" => ~Verifies(view[c], shown[c].name, shown[c].pw)
    /\ op[c] = "upgrade" => Upgradable(c)
    /\ usersWriteMu' = IF usersWriteMu = c THEN None ELSE usersWriteMu
    /\ Finishes(c, "loaded")
    /\ UNCHANGED <<usersFile, usersCache, usersConfigMu, usersSaves, tokens,
                   creds, completed>>

(***************************************************************************)
(* changeCurrentAccount: another name, another password or both.           *)
(***************************************************************************)
Change(c) ==
    \E name \in Names, pw \in Passwords \cup {None} :
      LET a == view[c]
          b == [name |-> name, pw |-> IF pw = None THEN a.pw ELSE pw,
                sv |-> Version(a) + 1,
                form |-> IF pw = None THEN a.form ELSE "bcrypt"]
      IN  /\ op[c] = "change"
          /\ Verifies(a, shown[c].name, shown[c].pw)
          /\ name # shown[c].name \/ pw # None
          /\ b.sv <= MaxVersion
          /\ Goes(c, "loaded", "clear")
          /\ Writes(b)
          /\ view' = [view EXCEPT ![c] = b]
          /\ creds' = [v \in DOMAIN creds \cup {b.sv} |->
                         IF v = b.sv THEN <<b.name, b.pw>> ELSE creds[v]]
          /\ UNCHANGED <<usersCache, usersConfigMu, usersWriteMu, op, shown,
                         seen, tokens, completed, base>>

\* clearUsersCache, and the answer to the change or the upgrading login.
ClearCache(c) ==
    /\ usersConfigMu = None
    /\ usersCache' = None /\ usersWriteMu' = None
    /\ \/ /\ op[c] = "change"
          /\ completed' = Version(view[c])
          /\ UNCHANGED tokens
       \/ /\ op[c] = "upgrade"
          /\ tokens' = tokens \cup {shown[c]}
          /\ UNCHANGED completed
    /\ Finishes(c, "clear")
    /\ UNCHANGED <<usersFile, usersConfigMu, usersSaves, creds>>

AccountNext == \E c \in Clients :
    \/ BeginLogin(c) \/ BeginRequest(c) \/ BeginChange(c) \/ TakeWriteMu(c)
    \/ StatUsers(c) \/ FromCache(c) \/ ReadUsers(c) \/ Normalize(c) \/ Restat(c)
    \/ FillUsersCache(c) \/ NormalizeFails(c) \/ LogIn(c) \/ BeginUpgrade(c)
    \/ Upgrade(c) \/ SkipUpgrade(c) \/ Respond(c) \/ Change(c) \/ ClearCache(c)

AccountSpec == AccountInit /\ [][AccountNext]_accountVars

----------------------------------------------------------------------------
AccountTypeOK ==
    /\ usersFile \in [stamp : 0..MaxUsersSaves, acc : Account] \cup {None}
    /\ usersCache \in [stamp : 0..MaxUsersSaves, acc : Account] \cup {None}
    /\ usersConfigMu \in Clients \cup {None}
    /\ usersWriteMu \in Clients \cup {None}
    /\ step \in [Clients -> {"idle", "wait", "stat", "lock", "normalize",
                             "restat", "fill", "loaded", "clear"}]
    /\ op \in [Clients -> {"none", "login", "request", "change", "upgrade"}]
    /\ shown \in [Clients -> Claim \cup Session \cup {None}]
    /\ tokens \subseteq Session
    /\ seen \in [Clients -> 0..MaxUsersSaves]
    /\ view \in [Clients -> Account]
    /\ usersSaves \in 0..MaxUsersSaves
    /\ completed \in 1..MaxVersion /\ base \in [Clients -> 1..MaxVersion]

\* A name and a password that were in force at some version from v on.
HeldSince(name, pw, v) ==
    \E w \in DOMAIN creds : w >= v /\ creds[w] = <<name, pw>>

\* Once a change of the account is answered, whoever logs in or shows a token
\* after that is accepted only for credentials the account had since: the old
\* password, name and sessions are dead, whatever was cached or under way
\* ("修改账号或密码后递增会话版本，使其他设备上的旧会话立即失效。",
\* docs/RELEASE_NOTES_1.1.4.md:8).
OldCredentialsEnd ==
    \A c \in Clients : step[c] = "loaded" =>
      /\ op[c] = "request" /\ Active(view[c], shown[c]) =>
            HeldSince(shown[c].name, shown[c].pw, base[c])
      /\ op[c] = "login" /\ Verifies(view[c], shown[c].name, shown[c].pw) =>
            HeldSince(shown[c].name, shown[c].pw, base[c])

\* No write of users.json undoes a change: not the normalization of a reader,
\* which runs without usersWriteMu, not the upgrade of a hash by a login that
\* began before the change, not another change.
ChangesSurvive ==
    [][usersFile' # usersFile =>
         \/ Version(InForce(usersFile')) > Version(InForce(usersFile))
         \/ /\ Version(InForce(usersFile')) = Version(InForce(usersFile))
            /\ InForce(usersFile').name = InForce(usersFile).name
            /\ InForce(usersFile').pw = InForce(usersFile).pw]_accountVars
=============================================================================
