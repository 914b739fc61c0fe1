--------------------------- MODULE TelegramNotify ---------------------------
(***************************************************************************)
(* The Telegram messages of internal/web/telegram.go about ended jobs, and *)
(* the settings of the bot.                                                *)
(*                                                                         *)
(* notifyTelegramJobTerminal is called by the handler that stopped a job   *)
(* and, deferred, by every run function, so a stopped job is reported      *)
(* twice; a marker per job lets one of the two send.  Sending takes up to  *)
(* 15 seconds in a goroutine of its own, and a failure drops the marker.   *)
(* The job manager appears by what this code sees of it: the status of a   *)
(* job, the return of its run function, and that an ended job - a stopped  *)
(* one that is still winding down included - may be pruned.                *)
(*                                                                         *)
(* A save of the settings whose token is left blank reads the saved one    *)
(* first.  Only the token is kept here: the other fields are written as    *)
(* they were typed.                                                        *)
(***************************************************************************)
EXTENDS Naturals, FiniteSets, WebRequests

CONSTANTS
    Jobs,
    Tokens,           \* bot tokens
    MaxTelegramSaves  \* bound: how often the settings are saved

VARIABLES
    status,   \* "running", "stopped" or "ended" (done or failed)
    running,  \* whether the run function has not returned yet
    known,    \* whether the manager still knows the job
    marker,   \* telegramNotifications
    notice,   \* where the two reports of each job stand
    token,    \* the saved token, or None
    busy,     \* the clients between reading and writing the settings
    saving,   \* the token each of them will write, and whether it was typed
    newest,   \* history: the token typed in the last save that typed one
    telegramSaves     \* how often the settings were saved

telegramVars == <<status, running, known, marker, notice, token, busy, saving,
                  newest, telegramSaves>>

Reporters == {"stop", "run"}
Notices   == {"none", "due", "marked", "sending", "sent", "failed", "dropped"}

\* What a save will write.
Saving(t, byHand) == [token |-> t, typed |-> byHand]

TelegramInit ==
    /\ status = [j \in Jobs |-> "running"]
    /\ running = Jobs /\ known = Jobs /\ marker = {}
    /\ notice = [j \in Jobs |-> [r \in Reporters |-> "none"]]
    /\ token = None /\ newest = None /\ telegramSaves = 0
    /\ busy = {} /\ saving = [c \in Clients |-> Saving(None, FALSE)]

jobVars     == <<status, running, known>>
settingVars == <<token, busy, saving, newest, telegramSaves>>

Reports(j, r, from, to) ==
    notice[j][r] = from /\ notice' = [notice EXCEPT ![j][r] = to]

(***************************************************************************)
(* What the job manager does.                                              *)
(***************************************************************************)
\* handleStopJob: the job is stopped, the handler reports it.
Stop(j) ==
    /\ status[j] = "running" /\ j \in known
    /\ status' = [status EXCEPT ![j] = "stopped"]
    /\ Reports(j, "stop", "none", "due")
    /\ UNCHANGED <<running, known, marker, settingVars>>

\* The run function returns; its deferred call reports.
Return(j) ==
    /\ j \in running /\ running' = running \ {j}
    /\ status' = [status EXCEPT ![j] = IF @ = "running" THEN "ended" ELSE @]
    /\ Reports(j, "run", "none", "due")
    /\ UNCHANGED <<known, marker, settingVars>>

\* pruneCompleted of the job manager.
Forget(j) ==
    /\ status[j] # "running" /\ j \in known /\ known' = known \ {j}
    /\ UNCHANGED <<status, running, marker, notice, settingVars>>

(***************************************************************************)
(* notifyTelegramJobTerminal.                                              *)
(***************************************************************************)
\* LoadOrStore.
Mark(j, r) ==
    /\ j \notin marker /\ marker' = marker \cup {j}
    /\ Reports(j, r, "due", "marked")
    /\ UNCHANGED <<jobVars, settingVars>>

Drop(j, r) ==
    /\ j \in marker
    /\ Reports(j, r, "due", "dropped")
    /\ UNCHANGED <<jobVars, marker, settingVars>>

\* pruneTelegramNotifications, and the goroutine starts.
Prune(j, r) ==
    /\ Reports(j, r, "marked", "sending")
    /\ marker' = marker \cap known
    /\ UNCHANGED <<jobVars, settingVars>>

\* With a fault: the marker goes with the goroutine, whatever the outcome.
DeliverAndRelease(j, r) ==
    /\ Reports(j, r, "sending", "sent")
    /\ marker' = marker \ {j}
    /\ UNCHANGED <<jobVars, settingVars>>

Deliver(j, r) ==
    /\ Reports(j, r, "sending", "sent")
    /\ UNCHANGED <<jobVars, marker, settingVars>>

FailToDeliver(j, r) ==
    /\ Reports(j, r, "sending", "failed")
    /\ marker' = marker \ {j}
    /\ UNCHANGED <<jobVars, settingVars>>

(***************************************************************************)
(* handleTelegramSettingsSave: no lock is held from the read of the saved  *)
(* token to the write.                                                     *)
(***************************************************************************)
BeginSave(c, what) ==
    /\ c \notin busy /\ busy' = busy \cup {c}
    /\ telegramSaves < MaxTelegramSaves /\ telegramSaves' = telegramSaves + 1
    /\ saving' = [saving EXCEPT ![c] = what]
    /\ UNCHANGED <<jobVars, marker, notice, token, newest>>

TypeToken(c) == \E t \in Tokens : BeginSave(c, Saving(t, TRUE))

LeaveBlank(c) == BeginSave(c, Saving(token, FALSE))

\* The request is refused or the file cannot be written.
FailToSave(c) ==
    /\ c \in busy /\ busy' = busy \ {c}
    /\ saving' = [saving EXCEPT ![c] = Saving(None, FALSE)]
    /\ UNCHANGED <<jobVars, marker, notice, token, newest, telegramSaves>>

WriteSettings(c) ==
    /\ c \in busy /\ busy' = busy \ {c}
    /\ token' = saving[c].token
    /\ newest' = IF saving[c].typed THEN saving[c].token ELSE newest
    /\ saving' = [saving EXCEPT ![c] = Saving(None, FALSE)]
    /\ UNCHANGED <<jobVars, marker, notice, telegramSaves>>

TelegramNext ==
    \/ \E j \in Jobs : Stop(j) \/ Return(j) \/ Forget(j)
    \/ \E j \in Jobs, r \in Reporters :
         \/ Mark(j, r) \/ Drop(j, r) \/ Prune(j, r)
         \/ Deliver(j, r) \/ FailToDeliver(j, r)
    \/ \E c \in Clients :
         TypeToken(c) \/ LeaveBlank(c) \/ FailToSave(c) \/ WriteSettings(c)

TelegramSpec == TelegramInit /\ [][TelegramNext]_telegramVars

----------------------------------------------------------------------------
TelegramTypeOK ==
    /\ status \in [Jobs -> {"running", "stopped", "ended"}]
    /\ running \subseteq Jobs /\ known \subseteq Jobs /\ marker \subseteq Jobs
    /\ notice \in [Jobs -> [Reporters -> Notices]]
    /\ token \in Tokens \cup {None} /\ newest \in Tokens \cup {None}
    /\ busy \subseteq Clients /\ telegramSaves \in 0..MaxTelegramSaves

\* A job the manager knows is announced at most once, although the handler and
\* the run function both report it, at the same time or long apart.
OneMessagePerJob ==
    \A j \in known :
        Cardinality({r \in Reporters : notice[j][r] = "sent"}) <= 1

\* "任务停止场景下迟到的收尾通知可以补发，不再因为首次失败而永久丢失" (when a job
\* was stopped the late report can send the message again, it is no longer lost
\* for ever after a first failure; docs/RELEASE_NOTES_1.1.8.md:17): the late
\* report is not dropped in favour of an attempt that fails.
LateNoticeIsSent ==
    \A j \in Jobs :
        ~ (notice[j]["stop"] = "failed" /\ notice[j]["run"] = "dropped")

\* "消除并发保存丢失更新" (no update is lost by concurrent saves, of the Telegram
\* settings too; docs/RELEASE_NOTES_1.1.6.md:25): when no save is under way the
\* token is the one typed last.
TypedTokenIsKept == busy = {} => token = newest
=============================================================================
