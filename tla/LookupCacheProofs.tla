-------------------------- MODULE LookupCacheProofs --------------------------
(***************************************************************************)
(* Proofs about LookupCache, for every set of callers, keys and answers:   *)
(* nobody waits for a call that nobody fetches, no request is sent twice,  *)
(* and the cache implements the memo.                                      *)
(***************************************************************************)
EXTENDS LookupCache, TLAPS

\* The fetcher of a call is in it and cannot have been answered by another.
FetchersWait ==
  \A k \in Keys : call[k] # NoCaller =>
    asking[call[k]] = k /\ got[call[k]] = NoAnswer /\ call[k] \in fetchers

\* A call is registered only while its key has no answer.
AnswersStay == \A k \in Keys : answer[k] # NoAnswer => call[k] = NoCaller

IdleHaveNothing == \A c \in Callers : asking[c] = NoKey => got[c] = NoAnswer

IInv ==
  CacheTypeOK /\ NobodyWaitsInVain /\ FetchersWait /\ AnswersStay /\ IdleHaveNothing

LEMMA InitInv == SentinelsAssumption /\ CacheInit => IInv
BY DEF SentinelsAssumption, CacheInit, IInv, CacheTypeOK, NobodyWaitsInVain,
       FetchersWait, AnswersStay, IdleHaveNothing

\* Who joins waits for a call that is there or for its own.
LEMMA LookupInv ==
  ASSUME SentinelsAssumption, IInv, NEW c \in Callers, NEW k \in Keys, Lookup(c, k)
  PROVE  IInv'
<1> USE DEF SentinelsAssumption, IInv
<1>1. CacheTypeOK'
  BY DEF CacheTypeOK, Lookup
<1>2. \A j \in Keys : call[j] # c
  BY DEF FetchersWait, Lookup
<1>3. /\ asking' = [asking EXCEPT ![c] = k] /\ got' = [got EXCEPT ![c] = answer[k]]
      /\ answer' = answer /\ asking[c] = NoKey
  BY DEF Lookup
<1>4. \/ answer[k] = NoAnswer /\ call[k] = NoCaller /\ call' = [call EXCEPT ![k] = c]
         /\ fetchers' = fetchers \cup {c}
      \/ (answer[k] # NoAnswer \/ call[k] # NoCaller) /\ call' = call /\ fetchers' = fetchers
  BY DEF Lookup
<1>5. FetchersWait' /\ AnswersStay'
  BY <1>2, <1>3, <1>4 DEF CacheTypeOK, FetchersWait, AnswersStay
<1>6. NobodyWaitsInVain'
  BY <1>2, <1>3, <1>4 DEF CacheTypeOK, NobodyWaitsInVain, FetchersWait
<1>7. IdleHaveNothing'
  BY <1>3 DEF CacheTypeOK, IdleHaveNothing
<1> QED
  BY <1>1, <1>5, <1>6, <1>7

\* The end of a call takes everybody who waits for it along.
LEMMA CloseInv ==
  ASSUME SentinelsAssumption, IInv, NEW k \in Keys, call[k] # NoCaller,
         NEW outcome \in Answers \cup {Failed}, Close(k, outcome),
         call' = [call EXCEPT ![k] = NoCaller],
         answer' \in {answer, [answer EXCEPT ![k] = outcome]},
         answer' = answer \/ outcome \in Answers,
         UNCHANGED <<asking, fetchers>>
  PROVE  IInv'
<1> USE DEF SentinelsAssumption, IInv
<1>1. \A d \in Callers : got'[d] = IF asking[d] = k /\ got[d] = NoAnswer THEN outcome ELSE got[d]
  BY DEF Close, Waiters
<1>2. CacheTypeOK'
  <2>1. got' \in [Callers -> Answers \cup {NoAnswer, Failed, GaveUp}]
    BY DEF Close, Waiters, CacheTypeOK
  <2> QED
    BY <2>1 DEF CacheTypeOK
<1>3. FetchersWait' /\ AnswersStay'
  BY <1>1 DEF CacheTypeOK, FetchersWait, AnswersStay
<1>4. NobodyWaitsInVain'
  <2> SUFFICES ASSUME NEW d \in Callers, asking[d] # NoKey, got'[d] = NoAnswer
               PROVE  /\ call'[asking[d]] # NoCaller /\ asking[call'[asking[d]]] = asking[d]
                      /\ got'[call'[asking[d]]] = NoAnswer
    BY DEF NobodyWaitsInVain
  <2>1. asking[d] \in Keys /\ asking[d] # k /\ got[d] = NoAnswer
    BY <1>1 DEF CacheTypeOK
  <2>2. call'[asking[d]] = call[asking[d]]
    BY <2>1 DEF CacheTypeOK
  <2>3. /\ call[asking[d]] # NoCaller /\ asking[call[asking[d]]] = asking[d]
        /\ got[call[asking[d]]] = NoAnswer
    BY <2>1 DEF NobodyWaitsInVain
  <2>4. call[asking[d]] \in Callers
    BY <2>1, <2>3 DEF CacheTypeOK
  <2>5. got'[call[asking[d]]] = NoAnswer
    BY <1>1, <2>1, <2>3, <2>4
  <2> QED
    BY <2>2, <2>3, <2>5
<1>5. IdleHaveNothing'
  BY <1>1 DEF CacheTypeOK, IdleHaveNothing
<1> QED
  BY <1>2, <1>3, <1>4, <1>5

\* Who gives up or returns is nobody's fetcher.
LEMMA LeaveInv ==
  ASSUME SentinelsAssumption, IInv, NEW c \in Callers, WaiterGivesUp(c) \/ Return(c)
  PROVE  IInv'
<1> USE DEF SentinelsAssumption, IInv
<1>1. CacheTypeOK'
  BY DEF CacheTypeOK, WaiterGivesUp, Return
<1>2. \A k \in Keys : call[k] # NoCaller => call[k] \in Callers /\ call[k] # c
  BY DEF WaiterGivesUp, Return, FetchersWait, CacheTypeOK
<1>3. /\ call' = call /\ answer' = answer /\ fetchers \ {c} \subseteq fetchers'
      /\ \A d \in Callers : d # c => asking'[d] = asking[d] /\ got'[d] = got[d]
      /\ \/ asking'[c] = NoKey /\ got'[c] = NoAnswer
         \/ asking'[c] # NoKey /\ got'[c] = GaveUp
  BY DEF WaiterGivesUp, Return, CacheTypeOK
<1>4. FetchersWait' /\ AnswersStay'
  BY <1>2, <1>3 DEF FetchersWait, AnswersStay
<1>5. NobodyWaitsInVain'
  BY <1>2, <1>3 DEF NobodyWaitsInVain, CacheTypeOK
<1>6. IdleHaveNothing'
  BY <1>3 DEF IdleHaveNothing
<1> QED
  BY <1>1, <1>4, <1>5, <1>6

LEMMA NextInv == SentinelsAssumption /\ IInv /\ [CacheNext]_cacheVars => IInv'
<1> SUFFICES ASSUME SentinelsAssumption, IInv, [CacheNext]_cacheVars PROVE IInv'
  OBVIOUS
<1>1. CASE UNCHANGED cacheVars
  BY <1>1 DEF cacheVars, IInv, CacheTypeOK, NobodyWaitsInVain, FetchersWait,
              AnswersStay, IdleHaveNothing
<1>2. ASSUME NEW c \in Callers, NEW a \in Answers, FetchSucceeds(c, a)
      PROVE  IInv'
  <2>1. PICK k \in Keys : /\ call[k] = c /\ answer' = [answer EXCEPT ![k] = a]
                          /\ call' = [call EXCEPT ![k] = NoCaller] /\ Close(k, a)
    BY <1>2 DEF FetchSucceeds
  <2>2. call[k] # NoCaller
    BY <2>1 DEF SentinelsAssumption
  <2> QED
    BY <1>2, <2>1, <2>2, CloseInv DEF FetchSucceeds
<1>3. ASSUME NEW c \in Callers, FetchFails(c)
      PROVE  IInv'
  <2>1. PICK k \in Keys : /\ call[k] = c /\ Close(k, Failed)
                          /\ call' = [call EXCEPT ![k] = NoCaller]
    BY <1>3 DEF FetchFails
  <2>2. call[k] # NoCaller
    BY <2>1 DEF SentinelsAssumption
  <2> QED
    BY <1>3, <2>1, <2>2, CloseInv DEF FetchFails
<1> QED
  BY <1>1, <1>2, <1>3, LookupInv, LeaveInv DEF CacheNext

\* The invariant of the calls, with the types: it holds of every step.
THEOREM Invariant ==
  ASSUME SentinelsAssumption
  PROVE  CacheSpec => []IInv
<1>1. CacheInit => IInv
  BY InitInv
<1>2. IInv /\ [CacheNext]_cacheVars => IInv'
  BY NextInv
<1> QED
  BY <1>1, <1>2, PTL DEF CacheSpec

\* Whoever waits, waits for a request that somebody fetches (itemLookup and
\* findPersonByNameCached: every registered call ends with close(call.ready)).
THEOREM NobodyStrands ==
  ASSUME SentinelsAssumption
  PROVE  CacheSpec => []NobodyWaitsInVain
<1>1. IInv => NobodyWaitsInVain
  BY DEF IInv
<1> QED
  BY <1>1, Invariant, PTL

\* The request of a key is sent only while there is none and no answer is kept
\* (itemLookup, the critical section that registers a call).
THEOREM OneRequest ==
  ASSUME SentinelsAssumption
  PROVE  CacheSpec => FetchedOnce
<1>1. IInv /\ [CacheNext]_cacheVars =>
        [\A k \in Keys : call'[k] # call[k] /\ call'[k] # NoCaller =>
           call[k] = NoCaller /\ answer[k] = NoAnswer]_cacheVars
  <2> SUFFICES ASSUME IInv, CacheNext, NEW k \in Keys, call'[k] # call[k], call'[k] # NoCaller
               PROVE  call[k] = NoCaller /\ answer[k] = NoAnswer
    BY DEF cacheVars
  <2>1. PICK c \in Callers, j \in Keys : Lookup(c, j)
    BY DEF CacheNext, FetchSucceeds, FetchFails, WaiterGivesUp, Return, IInv, CacheTypeOK
  <2> QED
    BY <2>1 DEF Lookup, IInv, CacheTypeOK
<1> QED
  BY <1>1, Invariant, PTL DEF CacheSpec, FetchedOnce

(***************************************************************************)
(* The refinement: a call that ends well is the step that learns.          *)
(***************************************************************************)
LEMMA InitMaps == CacheInit => Memo!MInit
BY DEF CacheInit, Memo!MInit

LEMMA LookupMaps ==
  ASSUME SentinelsAssumption, IInv, NEW c \in Callers, NEW k \in Keys, Lookup(c, k)
  PROVE  Memo!MNext
<1> USE DEF IInv
<1>1. CASE answer[k] # NoAnswer
  <2>1. Memo!Ask(c, k)
    BY <1>1 DEF Lookup, Memo!Ask, CacheTypeOK
  <2> QED
    BY <2>1 DEF Memo!MNext
<1>2. CASE answer[k] = NoAnswer
  <2>1. got' = got
    BY <1>2 DEF Lookup, CacheTypeOK, IdleHaveNothing
  <2>2. Memo!AskUnknown(c, k)
    BY <1>2, <2>1 DEF Lookup, Memo!AskUnknown
  <2> QED
    BY <2>2 DEF Memo!MNext
<1> QED
  BY <1>1, <1>2

LEMMA FetchMaps ==
  ASSUME SentinelsAssumption, IInv, NEW c \in Callers,
         FetchFails(c) \/ \E a \in Answers : FetchSucceeds(c, a)
  PROVE  Memo!MNext
<1> USE DEF IInv, SentinelsAssumption
<1>1. CASE FetchFails(c)
  <2>1. PICK k \in Keys : call[k] = c /\ Close(k, Failed)
    BY <1>1 DEF FetchFails
  <2>2. answer[k] = NoAnswer
    BY <2>1 DEF AnswersStay
  <2>3. Memo!Fail(k)
    BY <1>1, <2>1, <2>2 DEF FetchFails, Close, Waiters, Memo!Fail, Memo!Requesters
  <2> QED
    BY <2>3 DEF Memo!MNext
<1>2. ASSUME NEW a \in Answers, FetchSucceeds(c, a)
      PROVE  Memo!MNext
  <2>1. PICK k \in Keys : call[k] = c /\ answer' = [answer EXCEPT ![k] = a] /\ Close(k, a)
    BY <1>2 DEF FetchSucceeds
  <2>2. answer[k] = NoAnswer
    BY <2>1 DEF AnswersStay
  <2>3. Memo!Learn(k)
    BY <1>2, <2>1, <2>2 DEF FetchSucceeds, Close, Waiters, Memo!Learn, Memo!Requesters
  <2> QED
    BY <2>3 DEF Memo!MNext
<1> QED
  BY <1>1, <1>2

LEMMA NextMaps ==
  SentinelsAssumption /\ IInv /\ [CacheNext]_cacheVars => [Memo!MNext]_Memo!mvars
<1> SUFFICES ASSUME SentinelsAssumption, IInv, [CacheNext]_cacheVars
             PROVE  [Memo!MNext]_Memo!mvars
  OBVIOUS
<1>1. CASE UNCHANGED cacheVars
  BY <1>1 DEF cacheVars, Memo!mvars
<1>2. ASSUME NEW c \in Callers, WaiterGivesUp(c) \/ Return(c)
      PROVE  Memo!MNext
  BY <1>2 DEF WaiterGivesUp, Return, Memo!MNext, Memo!GiveUp, Memo!Leave
<1> QED
  BY <1>1, <1>2, LookupMaps, FetchMaps DEF CacheNext

\* Whatever a lookup returns is the one answer its key ever has, the failure of
\* the request it shared, or the end of its own context (importLookupCache).
THEOREM Implements ==
  ASSUME SentinelsAssumption
  PROVE  CacheSpec => ImplementsMemo
<1>1. CacheInit => Memo!MInit
  BY InitMaps
<1>2. IInv /\ [CacheNext]_cacheVars => [Memo!MNext]_Memo!mvars
  BY NextMaps
<1> QED
  BY <1>1, <1>2, Invariant, PTL DEF CacheSpec, ImplementsMemo, Memo!MSpec
=============================================================================
