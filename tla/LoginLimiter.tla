---------------------------- MODULE LoginLimiter ----------------------------
(***************************************************************************)
(* The login rate limiter of internal/web/auth.go for one key (the address *)
(* and the user name of a login).  handleAuthLogin asks loginBlocked,      *)
(* compares the password without any lock, which takes bcrypt a while, and *)
(* then counts the failure or clears the count.                            *)
(*                                                                         *)
(* The clock counts minutes or any other unit; 0 stands for the zero time, *)
(* so it starts at 1.                                                      *)
(***************************************************************************)
EXTENDS Naturals, FiniteSets

CONSTANTS
    Logins,       \* logins under way at the same time
    MaxFailures,   \* loginMaxFailures
    Window,        \* loginRateLimitWindow
    CleanupEvery,  \* loginRateCleanupEvery
    MaxTime        \* bound of the clock

\* What the constants have to be.
LimiterAssumption ==
    /\ IsFiniteSet(Logins) /\ Logins # {}
    /\ MaxFailures \in Nat \ {0} /\ Window \in Nat \ {0}
    /\ CleanupEvery \in Nat /\ MaxTime \in Nat \ {0}

VARIABLES
    now,          \* the clock
    failures, first, until,  \* the loginAttemptState; all 0 when there is none
    lastCleanup,  \* loginLastCleanup
    checking      \* the clients whose password is being compared

limiterVars == <<now, failures, first, until, lastCleanup, checking>>

LimiterInit ==
    /\ now = 1 /\ lastCleanup = 0 /\ checking = {}
    /\ failures = 0 /\ first = 0 /\ until = 0

Attempt(f, t, u) == [failures |-> f, first |-> t, until |-> u]
NoAttempt == Attempt(0, 0, 0)

\* cleanupLoginAttemptsLocked: an entry goes when its block or window is over.
CleanupDue == lastCleanup = 0 \/ now - lastCleanup >= CleanupEvery

Cleaned ==
    IF /\ CleanupDue
       /\ IF until # 0 THEN until <= now ELSE now - first >= Window
    THEN NoAttempt ELSE Attempt(failures, first, until)

Becomes(a) ==
    /\ failures' = a.failures /\ first' = a.first /\ until' = a.until
    /\ lastCleanup' = IF CleanupDue THEN now ELSE lastCleanup

\* loginBlocked answers that the key is blocked.
Refuse(c) ==
    /\ c \notin checking /\ Cleaned.until > now
    /\ Becomes(Cleaned)
    /\ UNCHANGED <<now, checking>>

\* loginBlocked lets the login pass; an expired block takes the count along.
Pass(c) ==
    /\ c \notin checking /\ Cleaned.until <= now
    /\ Becomes(IF Cleaned.until # 0 THEN NoAttempt ELSE Cleaned)
    /\ checking' = checking \cup {c}
    /\ UNCHANGED now

\* With a fault: the failure after the last allowed one blocks.
CountedOneMore ==
    LET a == Cleaned
        b == IF a.first = 0 \/ now - a.first >= Window
             THEN Attempt(0, now, 0) ELSE a
        n == b.failures + 1
    IN  Attempt(n, b.first, IF n > MaxFailures THEN now + Window ELSE b.until)

\* recordLoginFailure: the first failure, or the first after a window, starts
\* a count; the last allowed one blocks the key for a window.
Counted ==
    LET a == Cleaned
        b == IF a.first = 0 \/ now - a.first >= Window
             THEN Attempt(0, now, 0) ELSE a
        n == b.failures + 1
    IN  Attempt(n, b.first, IF n >= MaxFailures THEN now + Window ELSE b.until)

Fail(c) ==
    /\ c \in checking /\ checking' = checking \ {c}
    /\ Becomes(Counted)
    /\ UNCHANGED now

\* The password was right: clearLoginFailures.
Succeed(c) ==
    /\ c \in checking /\ checking' = checking \ {c}
    /\ failures' = 0 /\ first' = 0 /\ until' = 0
    /\ UNCHANGED <<now, lastCleanup>>

\* The users file cannot be read: nothing is counted.
Abort(c) ==
    /\ c \in checking /\ checking' = checking \ {c}
    /\ UNCHANGED <<now, failures, first, until, lastCleanup>>

Tick ==
    /\ now < MaxTime /\ now' = now + 1
    /\ UNCHANGED <<failures, first, until, lastCleanup, checking>>

LimiterNext == Tick \/ \E c \in Logins :
    Refuse(c) \/ Pass(c) \/ Fail(c) \/ Succeed(c) \/ Abort(c)

LimiterSpec == LimiterInit /\ [][LimiterNext]_limiterVars

----------------------------------------------------------------------------
LimiterTypeOK ==
    /\ now \in 1..MaxTime /\ lastCleanup \in 0..MaxTime
    /\ failures \in Nat /\ first \in 0..MaxTime /\ until \in Nat
    /\ checking \subseteq Logins

\* Parallel logins pass the check together and are counted after it, so a
\* window sees more failures than loginMaxFailures - but never more than one
\* for each other login that was under way when the block began; and the count
\* that blocks never outlives its block.
FailuresBounded ==
    /\ failures + Cardinality(checking) < MaxFailures + Cardinality(Logins)
    /\ failures >= MaxFailures => until > first
=============================================================================
