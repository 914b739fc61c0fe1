------------------------------- MODULE MCWeb -------------------------------
(***************************************************************************)
(* The web layer for TLC: the settings store, the account, the login rate  *)
(* limiter and the Telegram messages.  The four share no variable and call *)
(* nothing of each other, so that a behaviour of the server is, seen by    *)
(* one of them, one of its own behaviours.  Each is therefore explored     *)
(* alone: "part" is chosen at the start, and the others rest.              *)
(***************************************************************************)
EXTENDS SettingsStore, Accounts, LoginLimiter, TelegramNotify, TLC

CONSTANTS u1, u2, i1, i2, Parts

VARIABLE part

\* Each address has its own derived profile id.
MCSlug == (u1 :> i1) @@ (u2 :> i2)

ASSUME ConstantsAssumption ==
    SettingsAssumption /\ AccountsAssumption /\ LimiterAssumption

webVars == <<part, settingsVars, accountVars, limiterVars, telegramVars>>

WebInit ==
    /\ part \in Parts
    /\ SettingsInit /\ AccountInit /\ LimiterInit /\ TelegramInit
    /\ part # "settings" => settingsFile = None
    /\ part # "account" => usersFile = None

SettingsStep ==
    /\ part = "settings" /\ SettingsNext
    /\ UNCHANGED <<part, accountVars, limiterVars, telegramVars>>

AccountStep ==
    /\ part = "account" /\ AccountNext
    /\ UNCHANGED <<part, settingsVars, limiterVars, telegramVars>>

LimiterStep ==
    /\ part = "limiter" /\ LimiterNext
    /\ UNCHANGED <<part, settingsVars, accountVars, telegramVars>>

TelegramStep ==
    /\ part = "telegram" /\ TelegramNext
    /\ UNCHANGED <<part, settingsVars, accountVars, limiterVars>>

WebNext == SettingsStep \/ AccountStep \/ LimiterStep \/ TelegramStep

WebSpec == WebInit /\ [][WebNext]_webVars

\* Requests and keys are interchangeable.
Symmetry == Permutations(Clients) \cup Permutations(Keys)

\* Every variable of the four parts keeps its type.
TypeOK ==
    SettingsTypeOK /\ AccountTypeOK /\ LimiterTypeOK /\ TelegramTypeOK
=============================================================================
