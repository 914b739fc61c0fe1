---------------------------- MODULE LookupCache ----------------------------
(***************************************************************************)
(* importLookupCache of internal/exporter/service.go: the workers of an    *)
(* import share one request to the Emby server per search term, provider   *)
(* id or person. Whoever registers a call under a key fetches it in its    *)
(* own goroutine, with a time limit of its own and without the cancel of   *)
(* the caller; all others wait for it or for the end of their own context. *)
(* A failed call is removed, a successful one stays as the cached answer.  *)
(*                                                                         *)
(* itemCalls and personCalls are two maps with one protocol; their keys    *)
(* are disjoint here. A call is named after the caller who fetches it:     *)
(* nobody fetches two at a time, and a call that has ended is either gone  *)
(* or its key's answer.                                                    *)
(***************************************************************************)
CONSTANTS
  Callers,   \* goroutines that look up
  Keys,      \* search:..., provider:... and person:... keys
  Answers,   \* lists of items, persons
  NoCaller, NoKey, NoAnswer,
  Failed,    \* the error of the request
  GaveUp     \* the error of the caller's own context

\* What the constants have to be.
SentinelsAssumption ==
  /\ NoCaller \notin Callers
  /\ NoKey \notin Keys
  /\ \A a \in Answers : a \notin {NoAnswer, Failed, GaveUp}
  /\ NoAnswer \notin {Failed, GaveUp}

VARIABLES
  call,     \* [Keys -> caller]: who fetches the registered call, or NoCaller
  answer,   \* [Keys -> answer]: of a registered call that has ended well
  asking,   \* [Callers -> key]: the lookup a caller is in
  got,      \* [Callers -> answer or error]: what it will return, or NoAnswer
  fetchers  \* callers that registered the call they are in

cacheVars == <<call, answer, asking, got, fetchers>>

Waiters(k) == {c \in Callers : asking[c] = k /\ got[c] = NoAnswer}

CacheInit ==
  /\ call = [k \in Keys |-> NoCaller]
  /\ answer = [k \in Keys |-> NoAnswer]
  /\ asking = [c \in Callers |-> NoKey]
  /\ got = [c \in Callers |-> NoAnswer]
  /\ fetchers = {}

\* The first critical section: join the registered call, whose answer may be
\* there already, or register a call.
Lookup(c, k) ==
  /\ asking[c] = NoKey
  /\ asking' = [asking EXCEPT ![c] = k]
  /\ got' = [got EXCEPT ![c] = answer[k]]
  /\ IF answer[k] = NoAnswer /\ call[k] = NoCaller
     THEN call' = [call EXCEPT ![k] = c] /\ fetchers' = fetchers \cup {c}
     ELSE UNCHANGED <<call, fetchers>>
  /\ UNCHANGED answer

\* close(call.ready): everybody in the call, its fetcher included, has the
\* outcome.
Close(k, outcome) ==
  got' = [c \in Callers |-> IF c \in Waiters(k) THEN outcome ELSE got[c]]

FetchSucceeds(c, a) ==
  /\ \E k \in Keys :
       /\ call[k] = c
       /\ answer' = [answer EXCEPT ![k] = a]
       /\ call' = [call EXCEPT ![k] = NoCaller]
       /\ Close(k, a)
  /\ UNCHANGED <<asking, fetchers>>

\* Mutants: a failed call stays in the map; its waiters are not woken.
FetchFailsPoisons(c) ==
  /\ \E k \in Keys :
       /\ call[k] = c
       /\ call' = [call EXCEPT ![k] = NoCaller]
       /\ answer' = [answer EXCEPT ![k] = Failed]
       /\ Close(k, Failed)
  /\ UNCHANGED <<asking, fetchers>>

FetchFailsSilently(c) ==
  /\ \E k \in Keys :
       /\ call[k] = c
       /\ call' = [call EXCEPT ![k] = NoCaller]
       /\ got' = [got EXCEPT ![c] = Failed]
  /\ UNCHANGED <<answer, asking, fetchers>>

\* The request failed or its time limit passed: the call leaves the map before
\* its waiters learn of it, under one lock.
FetchFails(c) ==
  /\ \E k \in Keys :
       /\ call[k] = c
       /\ call' = [call EXCEPT ![k] = NoCaller]
       /\ Close(k, Failed)
  /\ UNCHANGED <<answer, asking, fetchers>>

\* A waiter whose context has ended may return its error, also when the call
\* has ended as well: the select takes either.
WaiterGivesUp(c) ==
  /\ asking[c] # NoKey
  /\ c \notin fetchers
  /\ got[c] # GaveUp
  /\ got' = [got EXCEPT ![c] = GaveUp]
  /\ UNCHANGED <<call, answer, asking, fetchers>>

Return(c) ==
  /\ got[c] # NoAnswer
  /\ asking' = [asking EXCEPT ![c] = NoKey]
  /\ got' = [got EXCEPT ![c] = NoAnswer]
  /\ fetchers' = fetchers \ {c}
  /\ UNCHANGED <<call, answer>>

CacheNext ==
  \E c \in Callers :
    \/ \E k \in Keys : Lookup(c, k)
    \/ \E a \in Answers : FetchSucceeds(c, a)
    \/ FetchFails(c)
    \/ WaiterGivesUp(c)
    \/ Return(c)

CacheSpec == CacheInit /\ [][CacheNext]_cacheVars

-----------------------------------------------------------------------------
(* Properties *)

CacheTypeOK ==
  /\ call \in [Keys -> Callers \cup {NoCaller}]
  /\ answer \in [Keys -> Answers \cup {NoAnswer}]
  /\ asking \in [Callers -> Keys \cup {NoKey}]
  /\ got \in [Callers -> Answers \cup {NoAnswer, Failed, GaveUp}]
  /\ fetchers \subseteq Callers

\* Every caller that waits for a key waits for a request that is under way,
\* and its fetcher is itself in that lookup: nobody waits for a call that
\* nobody will end.
NobodyWaitsInVain ==
  \A c \in Callers :
    asking[c] # NoKey /\ got[c] = NoAnswer =>
      LET f == call[asking[c]]
      IN  f # NoCaller /\ asking[f] = asking[c] /\ got[f] = NoAnswer

\* A key's request is not sent again while it is under way or answered.
FetchedOnce ==
  [][\A k \in Keys : call'[k] # call[k] /\ call'[k] # NoCaller =>
       call[k] = NoCaller /\ answer[k] = NoAnswer]_cacheVars

\* The cache implements the memo: whatever a lookup returns is the one answer
\* learned for its key, the failure of a request it waited for, or the end of
\* its own context; and a failure is not kept.
Memo == INSTANCE MemoLookup WITH
  memo <- answer, response <- got, Unknown <- NoAnswer, Pending <- NoAnswer
ImplementsMemo == Memo!MSpec
=============================================================================
