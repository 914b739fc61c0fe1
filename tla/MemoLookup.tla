----------------------------- MODULE MemoLookup -----------------------------
(***************************************************************************)
(* What the lookup cache of an import promises: an answer is learned once  *)
(* and stays, every request for its key gets that answer, and a failure is *)
(* never learned. How many requests reach the server, who sends them and   *)
(* who waits for whom is left open.                                        *)
(***************************************************************************)
CONSTANTS Callers, Keys, Answers, Unknown, NoKey, Failed, GaveUp, Pending

VARIABLES
  memo,      \* the answer learned for each key, or Unknown
  asking,    \* the key a caller asks for, or NoKey
  response   \* what it got

mvars == <<memo, asking, response>>

MInit ==
  /\ memo = [k \in Keys |-> Unknown]
  /\ asking = [c \in Callers |-> NoKey]
  /\ response = [c \in Callers |-> Pending]

Requesters(k) == {c \in Callers : asking[c] = k /\ response[c] = Pending}

\* A request may be answered at once if the answer is known.
Ask(c, k) ==
  /\ asking[c] = NoKey
  /\ asking' = [asking EXCEPT ![c] = k]
  /\ response' = [response EXCEPT ![c] = memo[k]]
  /\ response'[c] # Unknown
  /\ UNCHANGED memo

AskUnknown(c, k) ==
  /\ asking[c] = NoKey
  /\ memo[k] = Unknown
  /\ asking' = [asking EXCEPT ![c] = k]
  /\ UNCHANGED <<memo, response>>

\* One answer for everybody who waits for it.
Learn(k) ==
  /\ memo[k] = Unknown
  /\ \E a \in Answers :
       /\ memo' = [memo EXCEPT ![k] = a]
       /\ response' = [c \in Callers |-> IF c \in Requesters(k) THEN a ELSE response[c]]
  /\ UNCHANGED asking

\* A failure reaches those who wait for it and leaves the key unknown.
Fail(k) ==
  /\ memo[k] = Unknown
  /\ response' = [c \in Callers |-> IF c \in Requesters(k) THEN Failed ELSE response[c]]
  /\ UNCHANGED <<memo, asking>>

GiveUp(c) ==
  /\ asking[c] # NoKey
  /\ response' = [response EXCEPT ![c] = GaveUp]
  /\ UNCHANGED <<memo, asking>>

Leave(c) ==
  /\ response[c] # Pending
  /\ asking' = [asking EXCEPT ![c] = NoKey]
  /\ response' = [response EXCEPT ![c] = Pending]
  /\ UNCHANGED memo

MNext ==
  \/ \E c \in Callers : \/ GiveUp(c) \/ Leave(c)
                        \/ \E k \in Keys : Ask(c, k) \/ AskUnknown(c, k)
  \/ \E k \in Keys : Learn(k) \/ Fail(k)

MSpec == MInit /\ [][MNext]_mvars
=============================================================================
