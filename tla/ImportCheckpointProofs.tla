----------------------- MODULE ImportCheckpointProofs -----------------------
(***************************************************************************)
(* Proofs about the progress of imports, for any keys, servers and         *)
(* packages and any number of imports, crashes and failing writes: a       *)
(* resume skips nothing that was not written to its server, finds whatever *)
(* Record accepted, compaction leaves untouched what a resume accepts, and *)
(* content of another package is skipped for the checkpoint only.          *)
(*                                                                         *)
(* What a replay of the journal returns is proved by induction over its    *)
(* lines. Induction itself comes as a theorem about sets of numbers, from  *)
(* the well-founded order of the finite sets.                              *)
(***************************************************************************)
EXTENDS ImportCheckpoint, FiniteSetTheorems, WellFoundedInduction, SequenceTheorems, TLAPS

-----------------------------------------------------------------------------
(* The invariant *)

Start == IF base = None THEN NoCheckpoint ELSE base

\* The keys some package wrote to a server.
WrittenTo(target) == {key \in Keys : \E p \in Packages : <<target, p, key>> \in written}

\* Where a store may be open, and for which server: the running import's.
PhaseInv ==
  /\ phase = "idle" => ~store.open
  /\ phase # "idle" => import.target \in Targets /\ import.fp \in Packages
  /\ phase \in {"compact", "remove"} => store.open
  /\ store.open => store.memory \in Checkpoint /\ store.memory.target = import.target
  /\ phase \notin {"items", "avatars"} => todo = {} /\ pending = {}

\* Whatever calls a key done, for a server, is right about it.
WrittenInv ==
  /\ base # None => base.done \subseteq WrittenTo(base.target)
  /\ \A n \in 1..Len(journal) : journal[n].key \in WrittenTo(journal[n].target)
  /\ \A r \in reports : r.done \subseteq WrittenTo(r.target)
  /\ store.open => store.memory.done \subseteq WrittenTo(import.target)
  /\ skipped \cup pending \cup got \subseteq WrittenTo(import.target)

\* While writes succeed: no file has a fingerprint, an open store has appended
\* to the journal, whose last line is its own, and the compaction writes what a
\* replay gives. Close has synced the journal before.
CompactionInv ==
  errors = 0 =>
    /\ base # None => base.fp = None
    /\ store.open => /\ store.dirty /\ ~torn
                     /\ journal # <<>>
                     /\ journal[Len(journal)].target = import.target
    /\ phase \in {"compact", "remove"} => synced = Len(journal)
    /\ phase = "compact" => store.memory = Load
    /\ phase = "remove" => base = Load

IInv == TypeOK /\ PhaseInv /\ WrittenInv /\ CompactionInv /\ RecordedIsResumed

-----------------------------------------------------------------------------
(* Induction *)

\* A set of numbers with 0 and every successor has all of them: the smallest
\* interval 0..n whose end is not in the set cannot exist.
LEMMA NatInductionSet ==
  ASSUME NEW P, 0 \in P, \A n \in Nat : n \in P => n + 1 \in P
  PROVE  Nat \subseteq P
<1> DEFINE Missing == {n \in Nat : n \notin P}
           Intervals == {0..n : n \in Missing}
           S == FiniteSubsetsOf(Nat)
           R == StrictSubsetOrdering(Nat)
<1> SUFFICES ASSUME Missing # {} PROVE FALSE
  OBVIOUS
<1>1. \A n \in Nat : IsFiniteSet(0..n)
  BY FS_Interval
<1>2. Intervals \subseteq S /\ Intervals # {}
  BY <1>1 DEF FiniteSubsetsOf
<1>3. IsWellFoundedOn(R, S)
  BY FS_StrictSubsetOrderingWellFounded
<1> HIDE DEF Intervals, S, R
<1>4. PICK x \in Intervals : \A y \in Intervals : <<y, x>> \notin R
  BY <1>2, <1>3, WFMin
<1>5. PICK m \in Missing : x = 0..m
  BY DEF Intervals
<1>6. m \in Nat /\ m # 0 /\ m - 1 \in Nat
  BY <1>5
<1>7. m - 1 \in P
  <2>1. 0..m - 1 \subseteq 0..m /\ m \in 0..m /\ m \notin 0..m - 1
    BY <1>6
  <2>2. <<0..m - 1, 0..m>> \in R
    BY <1>6, <2>1 DEF R, StrictSubsetOrdering
  <2>3. 0..m - 1 \notin Intervals
    BY <1>4, <1>5, <2>2
  <2> QED BY <1>6, <2>3 DEF Intervals
<1> QED BY <1>5, <1>6, <1>7

\* A set of sequences with the empty one and every longer one has all of them.
LEMMA SequenceInduction ==
  ASSUME NEW D, NEW P, <<>> \in P,
         \A s \in Seq(D) : \A x \in D : s \in P => Append(s, x) \in P
  PROVE  Seq(D) \subseteq P
<1> DEFINE N == {n \in Nat : \A s \in Seq(D) : Len(s) = n => s \in P}
<1>1. 0 \in N
  BY EmptySeq
<1>2. \A n \in Nat : n \in N => n + 1 \in N
  <2> SUFFICES ASSUME NEW n \in N, NEW s \in Seq(D), Len(s) = n + 1 PROVE s \in P
    OBVIOUS
  <2> DEFINE t == SubSeq(s, 1, n)
  <2>1. t \in Seq(D) /\ Len(t) = n /\ s[n + 1] \in D
    BY SubSeqProperties, ElementOfSeq
  <2>2. s = Append(t, s[n + 1])
    <3>1. \A i \in 1..n : t[i] = s[i]
      BY SubSeqProperties
    <3> QED BY <2>1, <3>1, AppendProperties, SeqEqual
  <2> QED BY <2>1, <2>2
<1>3. Nat \subseteq N
  <2> HIDE DEF N
  <2> QED BY <1>1, <1>2, NatInductionSet
<1> QED BY <1>3, LenProperties

-----------------------------------------------------------------------------
(* What a replay returns *)

IsReplay(after, checkpoint, lines) ==
  after = [n \in 0..Len(lines) |->
             IF n = 0 THEN checkpoint ELSE Replay(after[n - 1], lines[n])]

\* The recursive definition of the replay has a solution for every journal.
LEMMA ReplayExists ==
  ASSUME NEW c, NEW D, NEW s \in Seq(D)
  PROVE  \E f : IsReplay(f, c, s)
<1> DEFINE Upto(f, n) == f[0] = c /\ \A k \in 1..n : f[k] = Replay(f[k - 1], s[k])
           P == {n \in Nat : \E f : Upto(f, n)}
<1>1. 0 \in P
  <2> DEFINE f == [k \in 0..0 |-> c]
  <2>1. Upto(f, 0)
    OBVIOUS
  <2> QED BY <2>1
<1>2. \A n \in Nat : n \in P => n + 1 \in P
  <2> SUFFICES ASSUME NEW n \in P PROVE n + 1 \in P
    OBVIOUS
  <2>1. PICK f : Upto(f, n)
    OBVIOUS
  <2> DEFINE g == [k \in 0..n + 1 |-> IF k = n + 1 THEN Replay(f[n], s[n + 1]) ELSE f[k]]
  <2>2. g[0] = c
    BY <2>1
  <2>3. ASSUME NEW k \in 1..n + 1 PROVE g[k] = Replay(g[k - 1], s[k])
    <3>1. CASE k = n + 1
      <4>1. g[k] = Replay(f[n], s[n + 1]) /\ g[k - 1] = f[n]
        BY <3>1
      <4> QED BY <3>1, <4>1
    <3>2. CASE k # n + 1
      <4>1. k \in 1..n /\ g[k] = f[k] /\ g[k - 1] = f[k - 1]
        BY <3>2
      <4> QED BY <2>1, <4>1
    <3> QED BY <3>1, <3>2
  <2>4. Upto(g, n + 1)
    BY <2>2, <2>3
  <2> HIDE DEF g
  <2> QED BY <2>4
<1>3. PICK f : Upto(f, Len(s))
  <2> HIDE DEF P
  <2>1. Len(s) \in P
    BY <1>1, <1>2, NatInductionSet, LenProperties
  <2> QED BY <2>1 DEF P
<1> DEFINE g == [n \in 0..Len(s) |-> f[n]]
<1>4. ASSUME NEW n \in 0..Len(s)
      PROVE  g[n] = IF n = 0 THEN c ELSE Replay(g[n - 1], s[n])
  <2>1. n # 0 => n \in 1..Len(s) /\ n - 1 \in 0..Len(s)
    BY LenProperties
  <2> QED BY <1>3, <2>1
<1>5. g = [n \in 0..Len(s) |-> g[n]]
  OBVIOUS
<1> HIDE DEF g
<1>6. [n \in 0..Len(s) |-> g[n]]
      = [n \in 0..Len(s) |-> IF n = 0 THEN c ELSE Replay(g[n - 1], s[n])]
  BY <1>4, Zenon
<1>7. IsReplay(g, c, s)
  BY <1>5, <1>6, Zenon DEF IsReplay
<1> QED BY <1>7

LEMMA ReplayEquation ==
  ASSUME NEW c, NEW D, NEW s \in Seq(D)
  PROVE  \E f : IsReplay(f, c, s) /\ ReplayAll(c, s) = f[Len(s)]
<1> DEFINE f == CHOOSE g : IsReplay(g, c, s)
<1>1. IsReplay(f, c, s)
  BY ReplayExists
<1>2. ReplayAll(c, s) = f[Len(s)]
  BY DEF ReplayAll, IsReplay
<1> QED BY <1>1, <1>2

LEMMA ReplayNone == ASSUME NEW c PROVE ReplayAll(c, <<>>) = c
<1>1. <<>> \in Seq({}) /\ Len(<<>>) = 0
  BY EmptySeq
<1>2. PICK f : IsReplay(f, c, <<>>) /\ ReplayAll(c, <<>>) = f[Len(<<>>)]
  BY <1>1, ReplayEquation
<1> QED BY <1>1, <1>2 DEF IsReplay

LEMMA ReplayOneMore ==
  ASSUME NEW c, NEW D, NEW s \in Seq(D), NEW x \in D
  PROVE  ReplayAll(c, Append(s, x)) = Replay(ReplayAll(c, s), x)
<1> DEFINE t == Append(s, x)
           n == Len(s)
<1>1. t \in Seq(D) /\ Len(t) = n + 1 /\ t[n + 1] = x /\ n \in Nat
      /\ \A i \in 1..n : t[i] = s[i]
  BY AppendProperties, LenProperties
<1>2. PICK f : IsReplay(f, c, s) /\ ReplayAll(c, s) = f[n]
  BY ReplayEquation
<1> HIDE DEF t
<1>3. PICK g : IsReplay(g, c, t) /\ ReplayAll(c, t) = g[n + 1]
  BY <1>1, ReplayEquation
<1> HIDE DEF n
<1> DEFINE P == {k \in Nat : k <= n => f[k] = g[k]}
<1>4. \A k \in 0..n : f[k] = IF k = 0 THEN c ELSE Replay(f[k - 1], s[k])
  BY <1>2, Zenon DEF IsReplay, n
<1>5. \A k \in 0..n + 1 : g[k] = IF k = 0 THEN c ELSE Replay(g[k - 1], t[k])
  BY <1>1, <1>3, Zenon DEF IsReplay
<1>6. 0 \in P
  BY <1>1, <1>4, <1>5
<1>7. \A k \in Nat : k \in P => k + 1 \in P
  <2> SUFFICES ASSUME NEW k \in P, k + 1 <= n PROVE f[k + 1] = g[k + 1]
    OBVIOUS
  <2>1. k + 1 \in 1..n /\ k + 1 \in 0..n /\ k + 1 \in 0..n + 1 /\ k + 1 # 0 /\ k + 1 - 1 = k
    BY <1>1
  <2>2. f[k + 1] = Replay(f[k], s[k + 1]) /\ g[k + 1] = Replay(g[k], t[k + 1])
    BY <1>4, <1>5, <2>1
  <2> QED BY <1>1, <2>1, <2>2
<1>8. f[n] = g[n]
  <2> HIDE DEF P
  <2>1. n \in P
    BY <1>1, <1>6, <1>7, NatInductionSet
  <2> QED BY <1>1, <2>1 DEF P
<1>9. g[n + 1] = Replay(g[n], t[n + 1])
  <2>1. n + 1 \in 0..n + 1 /\ n + 1 # 0 /\ n + 1 - 1 = n
    BY <1>1
  <2> QED BY <1>1, <1>5, <2>1
<1> QED BY <1>1, <1>2, <1>3, <1>8, <1>9 DEF t

\* What one line does.
LEMMA ReplayFields ==
  ASSUME NEW d \in Checkpoint, NEW x \in Line
  PROVE  /\ Replay(d, x) \in Checkpoint
         /\ Replay(d, x).target = x.target
         /\ Replay(d, x).done = {x.key} \cup (IF d.target = x.target THEN d.done ELSE {})
         /\ Replay(d, x).fp = IF d.target = x.target THEN d.fp ELSE None
BY DEF Replay, Checkpoint, Line

\* A replay keeps a property of checkpoints that each line keeps: being one.
LEMMA ReplayType ==
  ASSUME NEW c \in Checkpoint, NEW s \in Seq(Line)
  PROVE  ReplayAll(c, s) \in Checkpoint
<1> DEFINE P == {t \in Seq(Line) : ReplayAll(c, t) \in Checkpoint}
<1>1. <<>> \in P
  BY ReplayNone, EmptySeq
<1>2. \A t \in Seq(Line) : \A x \in Line : t \in P => Append(t, x) \in P
  <2> SUFFICES ASSUME NEW t \in P, NEW x \in Line PROVE Append(t, x) \in P
    OBVIOUS
  <2>1. ReplayAll(c, Append(t, x)) = Replay(ReplayAll(c, t), x) /\ Append(t, x) \in Seq(Line)
    BY ReplayOneMore, AppendProperties
  <2> QED BY <2>1, ReplayFields
<1> HIDE DEF P
<1>3. Seq(Line) \subseteq P
  BY <1>1, <1>2, SequenceInduction
<1> QED BY <1>3 DEF P

\* A journal ends a replay with the target of its last line.
LEMMA ReplayLast ==
  ASSUME NEW c \in Checkpoint, NEW s \in Seq(Line), NEW x \in Line
  PROVE  /\ ReplayAll(c, Append(s, x)).target = x.target
         /\ x.key \in ReplayAll(c, Append(s, x)).done
<1>1. ReplayAll(c, Append(s, x)) = Replay(ReplayAll(c, s), x) /\ ReplayAll(c, s) \in Checkpoint
  BY ReplayOneMore, ReplayType
<1> QED BY <1>1, ReplayFields

\* A journal that is not empty is a shorter one and a line.
LEMMA Unappend ==
  ASSUME NEW D, NEW s \in Seq(D), s # <<>>
  PROVE  \E t \in Seq(D), x \in D : /\ s = Append(t, x)
                                    /\ Len(t) = Len(s) - 1 /\ x = s[Len(s)]
<1> DEFINE n == Len(s) - 1
           t == SubSeq(s, 1, n)
           x == s[Len(s)]
<1>1. n \in Nat /\ Len(s) = n + 1
  BY EmptySeq
<1>2. t \in Seq(D) /\ Len(t) = n /\ x \in D /\ \A i \in 1..n : t[i] = s[i]
  BY <1>1, SubSeqProperties, ElementOfSeq
<1>3. s = Append(t, x)
  BY <1>1, <1>2, AppendProperties, SeqEqual
<1> QED BY <1>1, <1>2, <1>3

LEMMA ReplayTarget ==
  ASSUME NEW c \in Checkpoint, NEW s \in Seq(Line), s # <<>>
  PROVE  ReplayAll(c, s).target = s[Len(s)].target
<1>1. PICK t \in Seq(Line), x \in Line : s = Append(t, x) /\ x = s[Len(s)]
  BY Unappend
<1> QED BY <1>1, ReplayLast

\* What a replay calls done was done by the checkpoint or by a line: a relation
\* between servers and keys that holds of these holds of the result.
LEMMA ReplayWritten ==
  ASSUME NEW W, NEW c \in Checkpoint, NEW s \in Seq(Line),
         \A k \in c.done : <<c.target, k>> \in W,
         \A n \in 1..Len(s) : <<s[n].target, s[n].key>> \in W
  PROVE  \A k \in ReplayAll(c, s).done : <<ReplayAll(c, s).target, k>> \in W
<1> DEFINE Good(d) == \A k \in d.done : <<d.target, k>> \in W
           P == {t \in Seq(Line) : (\A n \in 1..Len(t) : <<t[n].target, t[n].key>> \in W)
                                    => Good(ReplayAll(c, t))}
<1>1. <<>> \in P
  BY ReplayNone, EmptySeq
<1>2. \A t \in Seq(Line) : \A x \in Line : t \in P => Append(t, x) \in P
  <2> SUFFICES ASSUME NEW t \in P, NEW x \in Line,
                      \A n \in 1..Len(Append(t, x)) :
                        <<Append(t, x)[n].target, Append(t, x)[n].key>> \in W
               PROVE  Good(ReplayAll(c, Append(t, x)))
    BY AppendProperties
  <2>1. /\ Len(Append(t, x)) = Len(t) + 1 /\ Len(t) \in Nat
        /\ Append(t, x)[Len(t) + 1] = x
        /\ \A n \in 1..Len(t) : Append(t, x)[n] = t[n]
    BY AppendProperties, LenProperties
  <2>2. <<x.target, x.key>> \in W /\ \A n \in 1..Len(t) : <<t[n].target, t[n].key>> \in W
    BY <2>1
  <2>3. Good(ReplayAll(c, t)) /\ ReplayAll(c, t) \in Checkpoint
    BY <2>2, ReplayType
  <2>4. ReplayAll(c, Append(t, x)) = Replay(ReplayAll(c, t), x)
    BY ReplayOneMore
  <2> DEFINE d == ReplayAll(c, t)
  <2>5. /\ Replay(d, x).target = x.target
        /\ Replay(d, x).done = {x.key} \cup (IF d.target = x.target THEN d.done ELSE {})
    BY <2>3, ReplayFields
  <2>6. Good(Replay(d, x))
    <3> HIDE DEF d
    <3>1. \A k \in d.done : <<d.target, k>> \in W
      BY <2>3 DEF d
    <3> QED BY <2>2, <2>5, <3>1
  <2> QED BY <2>4, <2>6
<1> HIDE DEF P
<1>3. s \in P
  BY <1>1, <1>2, SequenceInduction
<1> QED BY <1>3 DEF P

\* A replay invents no fingerprint.
LEMMA ReplayNoFingerprint ==
  ASSUME NEW c \in Checkpoint, c.fp = None, NEW s \in Seq(Line)
  PROVE  ReplayAll(c, s).fp = None
<1> DEFINE P == {t \in Seq(Line) : ReplayAll(c, t).fp = None}
<1>1. <<>> \in P
  BY ReplayNone, EmptySeq
<1>2. \A t \in Seq(Line) : \A x \in Line : t \in P => Append(t, x) \in P
  BY ReplayOneMore, ReplayType, ReplayFields, AppendProperties
<1> HIDE DEF P
<1>3. s \in P
  BY <1>1, <1>2, SequenceInduction
<1> QED BY <1>3 DEF P

\* A key that a replay calls done, and that is in none of the lines a crash
\* took, is done after the remaining lines, for the same server and package.
LEMMA ReplayPrefix ==
  ASSUME NEW c \in Checkpoint, NEW s \in Seq(Line), NEW m \in 0..Len(s),
         NEW k \in ReplayAll(c, s).done,
         \A n \in m + 1..Len(s) : s[n].key # k
  PROVE  /\ k \in ReplayAll(c, SubSeq(s, 1, m)).done
         /\ ReplayAll(c, SubSeq(s, 1, m)).target = ReplayAll(c, s).target
         /\ ReplayAll(c, SubSeq(s, 1, m)).fp = ReplayAll(c, s).fp
<1> DEFINE Same(d, e) == k \in d.done /\ d.target = e.target /\ d.fp = e.fp
           Lost(t) == \A n \in m + 1..Len(t) : t[n].key # k
           P == {t \in Seq(Line) :
                   m <= Len(t) /\ Lost(t) /\ k \in ReplayAll(c, t).done
                     => Same(ReplayAll(c, SubSeq(t, 1, m)), ReplayAll(c, t))}
<1>1. <<>> \in P
  <2>1. m \in Nat
    BY LenProperties
  <2>2. <<>> \in Seq(Line) /\ Len(<<>>) = 0 /\ SubSeq(<<>>, 1, 0) = <<>>
    BY EmptySeq, SubSeqEmpty
  <2>3. m <= Len(<<>>) => m = 0
    BY <2>1, <2>2
  <2> QED BY <2>2, <2>3
<1>2. \A t \in Seq(Line) : \A x \in Line : t \in P => Append(t, x) \in P
  <2> SUFFICES ASSUME NEW t \in P, NEW x \in Line,
                      m <= Len(Append(t, x)), Lost(Append(t, x)),
                      k \in ReplayAll(c, Append(t, x)).done
               PROVE  Same(ReplayAll(c, SubSeq(Append(t, x), 1, m)), ReplayAll(c, Append(t, x)))
    BY AppendProperties
  <2> DEFINE u == Append(t, x)
  <2>1. /\ u \in Seq(Line) /\ Len(u) = Len(t) + 1 /\ Len(t) \in Nat /\ m \in Nat
        /\ u[Len(t) + 1] = x
        /\ \A n \in 1..Len(t) : u[n] = t[n]
    BY AppendProperties, LenProperties
  <2>2. CASE m = Len(u)
    BY <2>1, <2>2, SubSeqFull
  <2>3. CASE m # Len(u)
    <3>1. m <= Len(t) /\ Lost(t) /\ x.key # k
      <4>1. m \in 0..Len(t) /\ Len(t) + 1 \in m + 1..Len(u)
        BY <2>1, <2>3
      <4>2. \A n \in m + 1..Len(t) : n \in m + 1..Len(u) /\ n \in 1..Len(t)
        BY <2>1
      <4> QED BY <2>1, <4>1, <4>2
    <3>2. SubSeq(u, 1, m) = SubSeq(t, 1, m)
      <4>1. \A i \in 1..m : u[i] = t[i] /\ t[i] \in Line
        BY <2>1, <3>1, ElementOfSeq
      <4>2. /\ SubSeq(u, 1, m) \in Seq(Line) /\ SubSeq(t, 1, m) \in Seq(Line)
            /\ Len(SubSeq(u, 1, m)) = m /\ Len(SubSeq(t, 1, m)) = m
            /\ \A i \in 1..m : SubSeq(u, 1, m)[i] = u[i] /\ SubSeq(t, 1, m)[i] = t[i]
        BY <2>1, <4>1, SubSeqProperties
      <4> QED BY <4>1, <4>2, SeqEqual
    <3> DEFINE d == ReplayAll(c, t)
               e == ReplayAll(c, u)
    <3>3. d \in Checkpoint /\ e = Replay(d, x)
      BY ReplayType, ReplayOneMore
    <3>4. Same(d, e)
      BY <3>1, <3>3, ReplayFields
    <3>5. Same(ReplayAll(c, SubSeq(t, 1, m)), d)
      BY <3>1, <3>4
    <3> QED BY <3>2, <3>4, <3>5
  <2> QED BY <2>2, <2>3
<1>3. s \in P
  <2> HIDE DEF P
  <2> QED BY <1>1, <1>2, SequenceInduction
<1> QED BY <1>3

-----------------------------------------------------------------------------
(* A journal that is replayed onto what its own replay gave *)

\* Lines of which the checkpoint has everything change nothing.
LEMMA ReplayKeeps ==
  ASSUME NEW c \in Checkpoint, NEW s \in Seq(Line),
         \A n \in 1..Len(s) : s[n].target = c.target /\ s[n].key \in c.done
  PROVE  ReplayAll(c, s) = c
<1> DEFINE Has(t) == \A n \in 1..Len(t) : t[n].target = c.target /\ t[n].key \in c.done
           P == {t \in Seq(Line) : Has(t) => ReplayAll(c, t) = c}
<1>1. <<>> \in P
  BY ReplayNone, EmptySeq
<1>2. \A t \in Seq(Line) : \A x \in Line : t \in P => Append(t, x) \in P
  <2> SUFFICES ASSUME NEW t \in P, NEW x \in Line, Has(Append(t, x))
               PROVE  ReplayAll(c, Append(t, x)) = c
    BY AppendProperties
  <2>1. Has(t) /\ x.target = c.target /\ x.key \in c.done
    BY AppendProperties, LenProperties
  <2>2. ReplayAll(c, Append(t, x)) = Replay(c, x)
    BY <2>1, ReplayOneMore
  <2>3. Replay(c, x) = c
    BY <2>1 DEF Replay, Checkpoint
  <2> QED BY <2>2, <2>3
<1>3. s \in P
  <2> HIDE DEF P
  <2> QED BY <1>1, <1>2, SequenceInduction
<1> QED BY <1>3

\* Lines of one server all stay.
LEMMA ReplayHas ==
  ASSUME NEW c \in Checkpoint, NEW s \in Seq(Line),
         \A i, j \in 1..Len(s) : s[i].target = s[j].target
  PROVE  \A n \in 1..Len(s) : s[n].key \in ReplayAll(c, s).done
<1> DEFINE Uniform(t) == \A i, j \in 1..Len(t) : t[i].target = t[j].target
           Has(t) == \A n \in 1..Len(t) : t[n].key \in ReplayAll(c, t).done
           P == {t \in Seq(Line) : Uniform(t) => Has(t)}
<1>1. <<>> \in P
  BY EmptySeq
<1>2. \A t \in Seq(Line) : \A x \in Line : t \in P => Append(t, x) \in P
  <2> SUFFICES ASSUME NEW t \in P, NEW x \in Line, Uniform(Append(t, x))
               PROVE  Has(Append(t, x))
    BY AppendProperties
  <2> DEFINE u == Append(t, x)
             d == ReplayAll(c, t)
  <2>1. /\ u \in Seq(Line) /\ Len(u) = Len(t) + 1 /\ Len(t) \in Nat
        /\ u[Len(t) + 1] = x
        /\ \A n \in 1..Len(t) : u[n] = t[n]
    BY AppendProperties, LenProperties
  <2>2. Uniform(t) /\ \A n \in 1..Len(t) : t[n].target = x.target
    BY <2>1
  <2>3. d \in Checkpoint /\ ReplayAll(c, u) = Replay(d, x)
    BY ReplayType, ReplayOneMore
  <2>4. Len(t) # 0 => d.target = x.target
    <3> SUFFICES ASSUME Len(t) # 0 PROVE d.target = x.target
      OBVIOUS
    <3>1. t # <<>> /\ Len(t) \in 1..Len(t)
      BY <2>1, EmptySeq
    <3> QED BY <2>2, <3>1, ReplayTarget
  <2>5. ASSUME NEW n \in 1..Len(t) PROVE u[n].key \in ReplayAll(c, u).done
    <3>1. t[n].key \in d.done /\ u[n] = t[n] /\ Len(t) # 0
      BY <2>1, <2>2
    <3>2. Replay(d, x).done = {x.key} \cup d.done
      BY <2>3, <2>4, <3>1, ReplayFields
    <3> QED BY <2>3, <3>1, <3>2
  <2>6. u[Len(u)].key \in ReplayAll(c, u).done
    BY <2>1, ReplayLast
  <2> QED BY <2>1, <2>5, <2>6
<1>3. s \in P
  <2> HIDE DEF P
  <2> QED BY <1>1, <1>2, SequenceInduction
<1> QED BY <1>3

\* A journal with lines of two servers forgets where the replay started.
LEMMA ReplayForgets ==
  ASSUME NEW c \in Checkpoint, NEW d \in Checkpoint, NEW s \in Seq(Line),
         \E i, j \in 1..Len(s) : s[i].target # s[j].target
  PROVE  ReplayAll(c, s) = ReplayAll(d, s)
<1> DEFINE Mixed(t) == \E i, j \in 1..Len(t) : t[i].target # t[j].target
           P == {t \in Seq(Line) : Mixed(t) => ReplayAll(c, t) = ReplayAll(d, t)}
<1>1. <<>> \in P
  BY EmptySeq
<1>2. \A t \in Seq(Line) : \A x \in Line : t \in P => Append(t, x) \in P
  <2> SUFFICES ASSUME NEW t \in P, NEW x \in Line, Mixed(Append(t, x))
               PROVE  ReplayAll(c, Append(t, x)) = ReplayAll(d, Append(t, x))
    BY AppendProperties
  <2>1. /\ Len(Append(t, x)) = Len(t) + 1 /\ Len(t) \in Nat
        /\ Append(t, x)[Len(t) + 1] = x
        /\ \A n \in 1..Len(t) : Append(t, x)[n] = t[n]
    BY AppendProperties, LenProperties
  <2>2. /\ ReplayAll(c, Append(t, x)) = Replay(ReplayAll(c, t), x)
        /\ ReplayAll(d, Append(t, x)) = Replay(ReplayAll(d, t), x)
    BY ReplayOneMore
  <2>3. CASE Mixed(t)
    BY <2>2, <2>3
  <2>4. CASE ~Mixed(t)
    <3>1. PICK i \in 1..Len(t) : t[i].target # x.target
      BY <2>1, <2>4
    <3>2. Len(t) \in 1..Len(t) /\ t # <<>> /\ t[Len(t)].target # x.target
      BY <2>1, <2>4, <3>1, EmptySeq
    <3>3. ReplayAll(c, t).target # x.target /\ ReplayAll(d, t).target # x.target
      BY <3>2, ReplayTarget
    <3> QED BY <2>2, <3>3 DEF Replay
  <2> QED BY <2>3, <2>4
<1>3. s \in P
  <2> HIDE DEF P
  <2> QED BY <1>1, <1>2, SequenceInduction
<1> QED BY <1>3

\* The compaction writes what a replay gives to the base and leaves the journal
\* to be removed: replayed onto the new base, it changes nothing.
THEOREM ReplayTwice ==
  ASSUME NEW c \in Checkpoint, NEW s \in Seq(Line)
  PROVE  ReplayAll(ReplayAll(c, s), s) = ReplayAll(c, s)
<1>1. ReplayAll(c, s) \in Checkpoint
  BY ReplayType
<1>2. CASE \E i, j \in 1..Len(s) : s[i].target # s[j].target
  BY <1>1, <1>2, ReplayForgets
<1>3. CASE \A i, j \in 1..Len(s) : s[i].target = s[j].target
  <2>1. \A n \in 1..Len(s) : s[n].key \in ReplayAll(c, s).done
    BY <1>3, ReplayHas
  <2>2. ASSUME NEW n \in 1..Len(s) PROVE s[n].target = ReplayAll(c, s).target
    <3>1. Len(s) \in 1..Len(s) /\ s # <<>>
      BY LenProperties, EmptySeq
    <3> QED BY <1>3, <3>1, ReplayTarget
  <2> QED BY <1>1, <2>1, <2>2, ReplayKeeps
<1> QED BY <1>2, <1>3

-----------------------------------------------------------------------------
(* What the files say *)

LEMMA LoadIsReplay == Load = ReplayAll(Start, journal)
BY DEF Load, Start

LEMMA LoadType ==
  ASSUME TypeOK
  PROVE  Start \in Checkpoint /\ Load \in Checkpoint
<1>1. Start \in Checkpoint
  BY DEF TypeOK, Start, NoCheckpoint, Checkpoint
<1> QED BY <1>1, ReplayType, LoadIsReplay DEF TypeOK

LEMMA AcceptedType ==
  ASSUME TypeOK, NEW t, NEW fp
  PROVE  Accepted(t, fp) \subseteq Keys
BY LoadType DEF Accepted, Checkpoint

\* What the files call done was written to their server.
LEMMA LoadWritten ==
  ASSUME TypeOK, WrittenInv
  PROVE  Load.done \subseteq WrittenTo(Load.target)
<1> DEFINE W == {x \in (Targets \cup {None}) \X Keys : x[2] \in WrittenTo(x[1])}
<1>1. \A k \in Start.done : <<Start.target, k>> \in W
  BY LoadType DEF WrittenInv, Start, NoCheckpoint, Checkpoint, WrittenTo, TypeOK
<1>2. \A n \in 1..Len(journal) : <<journal[n].target, journal[n].key>> \in W
  <2> SUFFICES ASSUME NEW n \in 1..Len(journal)
               PROVE  <<journal[n].target, journal[n].key>> \in W
    OBVIOUS
  <2>1. journal[n] \in Line
    BY ElementOfSeq DEF TypeOK
  <2>2. journal[n].target \in Targets /\ journal[n].key \in Keys
    BY <2>1 DEF Line
  <2> QED BY <2>2 DEF WrittenInv
<1> HIDE DEF W
<1>3. \A k \in Load.done : <<Load.target, k>> \in W
  BY <1>1, <1>2, ReplayWritten, LoadType, LoadIsReplay DEF TypeOK
<1> QED BY <1>3 DEF W

\* So was whatever a resume accepts.
LEMMA AcceptedWritten ==
  ASSUME TypeOK, WrittenInv, NEW t, NEW fp
  PROVE  Accepted(t, fp) \subseteq WrittenTo(t)
BY LoadWritten DEF Accepted

LEMMA ResumedWritten ==
  ASSUME TypeOK, WrittenInv, NEW t \in Targets, NEW fp
  PROVE  /\ ResumedItems(t, fp) \subseteq WrittenTo(t)
         /\ ResumedItems(t, fp) \subseteq Keys
BY AcceptedWritten, AcceptedType DEF ResumedItems, WrittenInv, WrittenTo

LEMMA SameFiles ==
  base' = base /\ journal' = journal => Load' = Load /\ Found' = Found /\ Start' = Start
BY DEF Load, Found, Start

-----------------------------------------------------------------------------
(* Types and phases *)

LEMMA OpenedType ==
  ASSUME TypeOK, PhaseInv
  PROVE  /\ Opened \in [open : BOOLEAN, dirty : BOOLEAN, sinceSync : 0..SyncInterval - 1,
                         memory : Checkpoint]
         /\ Opened.open
<1>1. CASE store.open
  BY <1>1 DEF Opened, TypeOK, PhaseInv
<1>2. CASE ~store.open
  <2>1. [target |-> import.target, fp |-> import.fp, done |-> Accepted(import.target, import.fp)]
          \in Checkpoint
    BY AcceptedType DEF TypeOK, Checkpoint
  <2> QED BY <1>2, <2>1, CheckpointBounds DEF Opened, TypeOK
<1> QED BY <1>1, <1>2

Stores == [open : BOOLEAN, dirty : BOOLEAN, sinceSync : 0..SyncInterval - 1,
           memory : Checkpoint \cup {None}]

\* An import that is over leaves well-typed variables behind.
LEMMA OverType ==
  /\ Unopened \in Stores /\ ~Unopened.open
  /\ NoImport \in [target : Targets \cup {None}, fp : Packages \cup {None}, resume : BOOLEAN]
<1>1. 0 \in 0..SyncInterval - 1
  BY CheckpointBounds
<1> QED BY <1>1 DEF Unopened, NoImport, Stores

LEMMA InitInv == Init => IInv
<1> SUFFICES ASSUME Init PROVE IInv
  OBVIOUS
<1>1. journal = <<>> /\ journal \in Seq(Line) /\ Len(journal) = 0
  BY EmptySeq DEF Init
<1>2. TypeOK
  <2>1. acked \in [target : Targets \cup {None}, keys : SUBSET Keys]
    BY DEF Init
  <2>2. synced \in 0..Len(journal)
    BY <1>1 DEF Init
  <2>3. {imports, crashes, errors} \subseteq Nat
    BY DEF Init
  <2> QED BY <1>1, <2>1, <2>2, <2>3, OverType DEF Init, TypeOK, Phases, Stores
<1>3. PhaseInv
  BY DEF Init, PhaseInv, Unopened
<1>4. WrittenInv
  BY <1>1 DEF Init, WrittenInv, Unopened
<1>5. CompactionInv
  BY DEF Init, CompactionInv, Unopened
<1>6. RecordedIsResumed
  BY DEF Init, RecordedIsResumed
<1> QED BY <1>2, <1>3, <1>4, <1>5, <1>6 DEF IInv

LEMMA AppendedType ==
  ASSUME TypeOK, PhaseInv, NEW key \in Keys, phase \in {"items", "avatars"}
  PROVE  LET line == [target |-> import.target, key |-> key]
         IN  /\ line \in Line
             /\ Append(journal, line) \in Seq(Line)
             /\ Len(Append(journal, line)) = Len(journal) + 1
             /\ Append(journal, line)[Len(journal) + 1] = line
             /\ \A n \in 1..Len(journal) : Append(journal, line)[n] = journal[n]
             /\ Len(journal) \in Nat
<1> DEFINE line == [target |-> import.target, key |-> key]
<1>1. line \in Line
  BY DEF PhaseInv, Line
<1> HIDE DEF line
<1>2. /\ Append(journal, line) \in Seq(Line)
      /\ Len(Append(journal, line)) = Len(journal) + 1
      /\ Append(journal, line)[Len(journal) + 1] = line
      /\ \A n \in 1..Len(journal) : Append(journal, line)[n] = journal[n]
      /\ Len(journal) \in Nat
  BY <1>1, AppendProperties, LenProperties DEF TypeOK
<1> QED BY <1>1, <1>2 DEF line

\* A step counts at most one import, one crash or one failed write.
LEMMA CountsGrow ==
  ASSUME [Next]_vars
  PROVE  /\ imports' \in {imports, imports + 1}
         /\ crashes' \in {crashes, crashes + 1}
         /\ errors' \in {errors, errors + 1}
<1>1. ASSUME NEW target \in Targets, NEW resume \in BOOLEAN, Begin(target, resume)
      PROVE  imports' = imports + 1 /\ UNCHANGED <<crashes, errors>>
  BY <1>1 DEF Begin
<1>2. ASSUME NEW key \in Keys, RecordFails(key)
      PROVE  errors' = errors + 1 /\ UNCHANGED <<imports, crashes>>
  BY <1>2 DEF RecordFails
<1>3. CASE Crash
  BY <1>3 DEF Crash
<1>4. ASSUME NEW key \in Keys, Write(key) \/ NotWritten(key) \/ Record(key) PROVE UNCHANGED countVars
  BY <1>4 DEF Write, NotWritten, Record
<1>5. CASE \/ Cancel \/ ItemsEnd \/ AvatarsEnd \/ Abort \/ WriteReport \/ CloseUnopened \/ CloseClean
           \/ CloseMerge \/ WriteBase \/ RemoveJournal \/ ReplacePackage
  BY <1>5 DEF Cancel, ItemsEnd, AvatarsEnd, Abort, WriteReport, CloseUnopened, CloseClean,
              CloseMerge, WriteBase, RemoveJournal, ReplacePackage, countVars
<1>6. CASE UNCHANGED vars
  BY <1>6 DEF vars, countVars
<1> QED BY <1>1, <1>2, <1>3, <1>4, <1>5, <1>6 DEF Next, countVars

LEMMA TypeStep == IInv /\ [Next]_vars => TypeOK'
<1> SUFFICES ASSUME IInv, [Next]_vars PROVE TypeOK'
  OBVIOUS
<1> USE DEF IInv
<1>0. synced \in Nat /\ Len(journal) \in Nat /\ synced <= Len(journal)
  BY LenProperties DEF TypeOK
<1>c. {imports', crashes', errors'} \subseteq Nat
  BY CountsGrow DEF TypeOK
<1> USE <1>c
<1>1. ASSUME NEW target \in Targets, NEW resume \in BOOLEAN, Begin(target, resume) PROVE TypeOK'
  <2>1. skipped' \subseteq Keys
    BY <1>1, ResumedWritten DEF Begin
  <2>2. /\ import' \in [target : Targets \cup {None}, fp : Packages \cup {None}, resume : BOOLEAN]
        /\ store' \in Stores
    BY <1>1, OverType DEF Begin, TypeOK
  <2>3. todo' \subseteq Keys /\ pending' \subseteq Keys /\ got' \subseteq Keys
    BY <1>1 DEF Begin, Keys
  <2> QED BY <1>1, <2>1, <2>2, <2>3 DEF Begin, TypeOK, diskVars, historyVars, Phases, Stores
<1>2. ASSUME NEW key \in Keys, Write(key) \/ NotWritten(key) PROVE TypeOK'
  BY <1>2 DEF Write, NotWritten, TypeOK, PhaseInv, diskVars, countVars, historyVars
<1>3. ASSUME NEW key \in Keys, Record(key) PROVE TypeOK'
  <2>1. journal' \in Seq(Line) /\ Len(journal') \in {Len(journal), Len(journal) + 1}
    BY <1>3, AppendedType DEF Record, TypeOK
  <2>2. synced' \in 0..Len(journal')
    BY <1>0, <1>3, <2>1 DEF Record
  <2>3. store' \in [open : BOOLEAN, dirty : BOOLEAN, sinceSync : 0..SyncInterval - 1,
                    memory : Checkpoint]
    <3>1. store' = [Opened EXCEPT !.dirty = TRUE,
                                  !.sinceSync = IF Opened.sinceSync + 1 >= SyncInterval THEN 0 ELSE @ + 1,
                                  !.memory.done = @ \cup {key}]
      BY <1>3 DEF Record
    <3>2. Opened.sinceSync \in 0..SyncInterval - 1 /\ Opened.memory \in Checkpoint
      BY OpenedType
    <3>3. (IF Opened.sinceSync + 1 >= SyncInterval THEN 0 ELSE Opened.sinceSync + 1)
            \in 0..SyncInterval - 1
      BY <3>2, CheckpointBounds
    <3>4. [Opened.memory EXCEPT !.done = @ \cup {key}] \in Checkpoint
      BY <3>2 DEF Checkpoint
    <3> QED BY <3>1, <3>3, <3>4, OpenedType
  <2>4. acked' \in [target : Targets \cup {None}, keys : SUBSET Keys]
    BY <1>3 DEF Record, Acknowledge, TypeOK, PhaseInv
  <2>5. torn' \in BOOLEAN /\ journalFile' \in BOOLEAN /\ pending' \subseteq Keys /\ got' \subseteq Keys
    BY <1>3 DEF Record, TypeOK
  <2>6. UNCHANGED <<package, base, reports, phase, import, skipped, todo, cancelled, written>>
    BY <1>3 DEF Record
  <2> QED BY <2>1, <2>2, <2>3, <2>4, <2>5, <2>6 DEF TypeOK
<1>4. ASSUME NEW key \in Keys, RecordFails(key) PROVE TypeOK'
  <2>1. store' \in [open : BOOLEAN, dirty : BOOLEAN, sinceSync : 0..SyncInterval - 1,
                    memory : Checkpoint]
    BY <1>4, OpenedType DEF RecordFails
  <2>2. torn' \in BOOLEAN
    BY <1>4 DEF RecordFails, TypeOK
  <2> QED BY <1>4, <2>1, <2>2 DEF RecordFails, TypeOK, historyVars
<1>5. CASE Cancel \/ AvatarsEnd \/ Abort \/ WriteReport
  <2>1. reports' \subseteq Report
    BY <1>5 DEF Cancel, AvatarsEnd, Abort, WriteReport, TypeOK, Report, PhaseInv
  <2> QED BY <1>5, <2>1 DEF Cancel, AvatarsEnd, Abort, WriteReport, TypeOK, Phases,
                            diskVars, historyVars, countVars, progressVars
<1>6. CASE ItemsEnd
  <2>1. skipped' \subseteq Keys /\ todo' \subseteq Keys
    BY <1>6 DEF ItemsEnd, TypeOK, Keys
  <2> QED BY <1>6, <2>1 DEF ItemsEnd, TypeOK, Phases, diskVars, historyVars, countVars
<1>7. CASE CloseUnopened
  BY <1>7, OverType DEF CloseUnopened, ImportOver, TypeOK, Phases, Stores, diskVars, historyVars
<1>8. CASE CloseClean \/ WriteBase
  <2>1. base' \in Checkpoint \cup {None}
    BY <1>8 DEF CloseClean, WriteBase, TypeOK, diskVars
  <2> QED BY <1>8, <2>1 DEF CloseClean, WriteBase, TypeOK, Phases, progressVars, diskVars,
                            historyVars, countVars
<1>9. CASE CloseMerge
  <2>1. store' \in [open : BOOLEAN, dirty : BOOLEAN, sinceSync : 0..SyncInterval - 1,
                    memory : Checkpoint \cup {None}]
    BY <1>9, LoadType DEF CloseMerge, TypeOK
  <2> QED BY <1>0, <1>9, <2>1 DEF CloseMerge, TypeOK, Phases, progressVars, historyVars
<1>10. CASE RemoveJournal
  <2>1. journal' \in Seq(Line) /\ Len(journal') = 0
    BY <1>10, EmptySeq DEF RemoveJournal
  <2>2. synced' \in 0..Len(journal')
    BY <1>10, <2>1 DEF RemoveJournal
  <2> QED BY <1>10, <2>1, <2>2, OverType
          DEF RemoveJournal, ImportOver, TypeOK, Phases, Stores, historyVars
<1>11. CASE Crash
  <2>1. PICK keep \in synced..Len(journal) :
          /\ journal' = SubSeq(journal, 1, keep)
          /\ acked' = [acked EXCEPT !.keys = @ \ {journal[i].key : i \in keep + 1..Len(journal)}]
    BY <1>11 DEF Crash
  <2>2. journal' \in Seq(Line) /\ synced \in 0..Len(journal')
    <3>1. keep \in Nat /\ \A i \in 1..keep : journal[i] \in Line
      BY <1>0, ElementOfSeq DEF TypeOK
    <3>2. SubSeq(journal, 1, keep) \in Seq(Line) /\ Len(SubSeq(journal, 1, keep)) = keep
      BY <3>1, SubSeqProperties
    <3> QED BY <1>0, <2>1, <3>2
  <2>3. acked' \in [target : Targets \cup {None}, keys : SUBSET Keys] /\ torn' \in BOOLEAN
    BY <1>11, <2>1 DEF Crash, TypeOK
  <2> QED BY <1>11, <2>2, <2>3, OverType DEF Crash, ImportOver, TypeOK, Phases, Stores
<1>12. CASE ReplacePackage
  <2>1. acked' \in [target : Targets \cup {None}, keys : SUBSET Keys] /\ package' \in Packages
    BY <1>12 DEF ReplacePackage, TypeOK
  <2> QED BY <1>12, <2>1 DEF ReplacePackage, TypeOK, diskVars, importVars, progressVars
<1>13. CASE UNCHANGED vars
  BY <1>13 DEF vars, diskVars, importVars, progressVars, historyVars, TypeOK
<1> QED BY <1>1, <1>2, <1>3, <1>4, <1>5, <1>6, <1>7, <1>8, <1>9, <1>10, <1>11, <1>12, <1>13 DEF Next

-----------------------------------------------------------------------------
(* The other parts of the invariant *)

\* What Record leaves in the store.
LEMMA RecordedStore ==
  ASSUME TypeOK, PhaseInv, NEW key \in Keys, Record(key)
  PROVE  /\ store'.open /\ store'.dirty
         /\ store'.memory \in Checkpoint
         /\ store'.memory.target = import.target
         /\ store'.memory.done = Opened.memory.done \cup {key}
<1>1. store' = [Opened EXCEPT !.dirty = TRUE,
                              !.sinceSync = IF Opened.sinceSync + 1 >= SyncInterval THEN 0 ELSE @ + 1,
                              !.memory.done = @ \cup {key}]
  BY DEF Record
<1>2. Opened.memory.target = import.target
  BY DEF Opened, PhaseInv
<1>3. /\ [Opened.memory EXCEPT !.done = @ \cup {key}] \in Checkpoint
      /\ [Opened.memory EXCEPT !.done = @ \cup {key}].target = Opened.memory.target
      /\ [Opened.memory EXCEPT !.done = @ \cup {key}].done = Opened.memory.done \cup {key}
  BY OpenedType DEF Checkpoint
<1>4. /\ store'.open = Opened.open /\ store'.dirty
      /\ store'.memory = [Opened.memory EXCEPT !.done = @ \cup {key}]
  BY <1>1, OpenedType
<1> QED BY <1>2, <1>3, <1>4, OpenedType

LEMMA PhaseStep == IInv /\ [Next]_vars => PhaseInv'
<1> SUFFICES ASSUME IInv, [Next]_vars PROVE PhaseInv'
  OBVIOUS
<1> USE DEF IInv
<1>1. ASSUME NEW target \in Targets, NEW resume \in BOOLEAN, Begin(target, resume) PROVE PhaseInv'
  BY <1>1 DEF Begin, PhaseInv, Unopened, TypeOK
<1>2. ASSUME NEW key \in Keys, Write(key) \/ NotWritten(key) PROVE PhaseInv'
  BY <1>2 DEF Write, NotWritten, PhaseInv
<1>3. ASSUME NEW key \in Keys, Record(key) PROVE PhaseInv'
  BY <1>3, RecordedStore DEF Record, PhaseInv
<1>4. ASSUME NEW key \in Keys, RecordFails(key) PROVE PhaseInv'
  <2>1. Opened.memory.target = import.target
    BY DEF Opened, PhaseInv
  <2> QED BY <1>4, <2>1, OpenedType DEF RecordFails, PhaseInv
<1>5. CASE Cancel \/ ItemsEnd \/ AvatarsEnd \/ Abort \/ WriteReport
  BY <1>5 DEF Cancel, ItemsEnd, AvatarsEnd, Abort, WriteReport, PhaseInv, progressVars
<1>6. CASE CloseUnopened \/ RemoveJournal \/ Crash
  BY <1>6, OverType DEF CloseUnopened, RemoveJournal, Crash, ImportOver, PhaseInv
<1>7. CASE CloseClean \/ WriteBase
  BY <1>7 DEF CloseClean, WriteBase, PhaseInv, progressVars
<1>8. CASE CloseMerge
  <2>1. /\ store'.open = store.open
        /\ store'.memory = IF Found /\ Load.target = import.target THEN Load ELSE store.memory
    BY <1>8 DEF CloseMerge, TypeOK
  <2> QED BY <1>8, <2>1, LoadType DEF CloseMerge, PhaseInv, progressVars
<1>9. CASE ReplacePackage
  BY <1>9 DEF ReplacePackage, PhaseInv, importVars, progressVars
<1>10. CASE UNCHANGED vars
  BY <1>10 DEF vars, importVars, progressVars, PhaseInv
<1> QED BY <1>1, <1>2, <1>3, <1>4, <1>5, <1>6, <1>7, <1>8, <1>9, <1>10 DEF Next

LEMMA WrittenStep == IInv /\ [Next]_vars => WrittenInv'
<1> SUFFICES ASSUME IInv, [Next]_vars PROVE WrittenInv'
  OBVIOUS
<1> USE DEF IInv
<1>0. \A t : written' = written => WrittenTo(t)' = WrittenTo(t)
  BY DEF WrittenTo
<1>1. ASSUME NEW target \in Targets, NEW resume \in BOOLEAN, Begin(target, resume) PROVE WrittenInv'
  <2>1. skipped' \subseteq WrittenTo(target)
    BY <1>1, ResumedWritten DEF Begin
  <2> QED BY <1>0, <1>1, <2>1 DEF Begin, WrittenInv, Unopened, diskVars, historyVars
<1>2. ASSUME NEW key \in Keys, Write(key) PROVE WrittenInv'
  <2>1. \A t : WrittenTo(t) \subseteq WrittenTo(t)'
    BY <1>2 DEF Write, WrittenTo
  <2>2. key \in WrittenTo(import.target)'
    BY <1>2 DEF Write, WrittenTo, PhaseInv
  <2> HIDE DEF WrittenTo
  <2>3. UNCHANGED <<base, journal, reports, store, import, skipped, got>> /\ pending' = pending \cup {key}
    BY <1>2 DEF Write, diskVars
  <2> QED BY <2>1, <2>2, <2>3 DEF WrittenInv
<1>3. ASSUME NEW key \in Keys, NotWritten(key) PROVE WrittenInv'
  BY <1>0, <1>3 DEF NotWritten, WrittenInv, diskVars, historyVars
<1>4. ASSUME NEW key \in Keys, Record(key) PROVE WrittenInv'
  <2>1. key \in WrittenTo(import.target) /\ written' = written
    BY <1>4 DEF Record, WrittenInv
  <2>2. \A n \in 1..Len(journal') : journal'[n].key \in WrittenTo(journal'[n].target)
    <3>1. journal' = journal \/ journal' = Append(journal, [target |-> import.target, key |-> key])
      BY <1>4 DEF Record
    <3> QED BY <1>4, <2>1, <3>1, AppendedType DEF Record, WrittenInv
  <2>3. store'.memory.done \subseteq WrittenTo(import.target)
    <3>1. Opened.memory.done \subseteq WrittenTo(import.target)
      BY AcceptedWritten DEF Opened, WrittenInv
    <3> QED BY <1>4, <2>1, <3>1, RecordedStore
  <2>4. UNCHANGED <<base, reports, import, skipped>> /\ pending' \cup got' \subseteq pending \cup got
    BY <1>4 DEF Record
  <2> QED BY <1>0, <2>1, <2>2, <2>3, <2>4 DEF WrittenInv
<1>5. ASSUME NEW key \in Keys, RecordFails(key) PROVE WrittenInv'
  <2>1. Opened.memory.done \subseteq WrittenTo(import.target)
    BY AcceptedWritten DEF Opened, WrittenInv
  <2> QED BY <1>0, <1>5, <2>1 DEF RecordFails, WrittenInv, historyVars
<1>6. CASE Cancel \/ AvatarsEnd \/ Abort
  BY <1>0, <1>6 DEF Cancel, AvatarsEnd, Abort, WrittenInv, diskVars, historyVars
<1>7. CASE ItemsEnd
  <2>1. skipped' \subseteq WrittenTo(import.target)
    BY <1>7, AcceptedWritten DEF ItemsEnd, WrittenInv
  <2> QED BY <1>0, <1>7, <2>1 DEF ItemsEnd, WrittenInv, diskVars, historyVars
<1>8. CASE WriteReport
  <2>1. \A r \in reports' : r.done \subseteq WrittenTo(r.target)
    BY <1>8 DEF WriteReport, WrittenInv
  <2> QED BY <1>0, <1>8, <2>1 DEF WriteReport, WrittenInv, diskVars, historyVars, progressVars
<1>9. CASE CloseUnopened
  BY <1>0, <1>9, OverType DEF CloseUnopened, ImportOver, WrittenInv, diskVars, historyVars
<1>10. CASE CloseClean
  BY <1>0, <1>10 DEF CloseClean, WrittenInv, diskVars, historyVars, progressVars
<1>11. CASE CloseMerge
  <2>1. store'.memory.done \subseteq WrittenTo(import.target)
    <3>1. store'.memory = IF Found /\ Load.target = import.target THEN Load ELSE store.memory
      BY <1>11 DEF CloseMerge, TypeOK
    <3> QED BY <1>11, <3>1, LoadWritten DEF CloseMerge, WrittenInv
  <2> QED BY <1>0, <1>11, <2>1 DEF CloseMerge, WrittenInv, historyVars, progressVars
<1>12. CASE WriteBase
  BY <1>0, <1>12 DEF WriteBase, WrittenInv, PhaseInv, historyVars, progressVars
<1>13. CASE RemoveJournal
  <2>1. \A n \in 1..Len(journal') : FALSE
    BY <1>13, EmptySeq DEF RemoveJournal
  <2> QED BY <1>0, <1>13, <2>1, OverType DEF RemoveJournal, ImportOver, WrittenInv, historyVars
<1>14. CASE Crash
  <2>1. PICK keep \in synced..Len(journal) : journal' = SubSeq(journal, 1, keep)
    BY <1>14 DEF Crash
  <2>2. Len(journal') = keep /\ \A n \in 1..keep : n \in 1..Len(journal) /\ journal'[n] = journal[n]
    <3>1. keep \in Nat /\ keep <= Len(journal) /\ Len(journal) \in Nat
      BY LenProperties DEF TypeOK
    <3>2. \A i \in 1..keep : journal[i] \in Line
      BY <3>1, ElementOfSeq DEF TypeOK
    <3> QED BY <2>1, <3>1, <3>2, SubSeqProperties
  <2> QED BY <1>0, <1>14, <2>2, OverType DEF Crash, ImportOver, WrittenInv
<1>15. CASE ReplacePackage
  BY <1>0, <1>15 DEF ReplacePackage, WrittenInv, diskVars, importVars, progressVars
<1>16. CASE UNCHANGED vars
  BY <1>0, <1>16 DEF vars, diskVars, importVars, progressVars, historyVars, WrittenInv
<1> QED BY <1>1, <1>2, <1>3, <1>4, <1>5, <1>6, <1>7, <1>8, <1>9, <1>10, <1>11, <1>12, <1>13,
           <1>14, <1>15, <1>16 DEF Next

-----------------------------------------------------------------------------
(* While writes succeed *)

LEMMA NoFingerprint ==
  ASSUME TypeOK, CompactionInv, errors = 0
  PROVE  Start.fp = None /\ Load.fp = None
<1>1. Start.fp = None
  BY DEF CompactionInv, Start, NoCheckpoint
<1> QED BY <1>1, ReplayNoFingerprint, LoadType, LoadIsReplay DEF TypeOK

\* With no fingerprint in the files, the target alone decides.
AcceptsByTarget ==
  TypeOK /\ CompactionInv /\ errors = 0 =>
    \A t \in Targets : Accepted(t, package) = IF Load.target = t THEN Load.done ELSE {}

LEMMA AcceptedIs == AcceptsByTarget
<1> SUFFICES ASSUME TypeOK, CompactionInv, errors = 0, NEW t \in Targets
             PROVE  Accepted(t, package) = IF Load.target = t THEN Load.done ELSE {}
  BY DEF AcceptsByTarget
<1>1. CASE Found
  BY <1>1, NoFingerprint DEF Accepted, SameFingerprint
<1>2. CASE ~Found
  <2>1. Load = NoCheckpoint
    BY <1>2, ReplayNone, LoadIsReplay DEF Found, Start
  <2> QED BY <1>2, <2>1, NoneAssumption DEF Accepted, NoCheckpoint
<1> QED BY <1>1, <1>2

LEMMA AcceptedIsNext == AcceptsByTarget'
BY AcceptedIs, PTL

\* The merge in Close takes what the files say.
LEMMA MergeTakesLoad ==
  ASSUME IInv, errors = 0, CloseMerge
  PROVE  store'.memory = Load
<1>1. journal # <<>> /\ Load.target = import.target
  BY ReplayTarget, LoadType, LoadIsReplay DEF IInv, CompactionInv, CloseMerge, TypeOK
<1> QED BY <1>1 DEF CloseMerge, Found, IInv, TypeOK

\* The write of the base and the removal of the journal change the files and
\* not what they say.
LEMMA WriteBaseKeepsLoad ==
  ASSUME IInv, errors = 0, WriteBase
  PROVE  base' = Load /\ Load' = Load
<1>1. base' = Load /\ journal' = journal
  BY DEF WriteBase, IInv, CompactionInv
<1>2. base' # None
  BY <1>1, LoadType, NoFileAssumption DEF IInv
<1>3. Load' = ReplayAll(Load, journal)
  BY <1>1, <1>2 DEF Load
<1>4. ReplayAll(Load, journal) = Load
  BY LoadIsReplay, LoadType, ReplayTwice DEF IInv, TypeOK
<1> QED BY <1>1, <1>3, <1>4

LEMMA RemoveJournalKeepsLoad ==
  ASSUME IInv, errors = 0, RemoveJournal
  PROVE  Load' = Load
<1>1. base = Load /\ base' = base /\ journal' = <<>>
  BY DEF RemoveJournal, IInv, CompactionInv
<1>2. base # None
  BY <1>1, LoadType, NoFileAssumption DEF IInv
<1>3. Load' = ReplayAll(base, <<>>)
  BY <1>1, <1>2 DEF Load
<1> QED BY <1>1, <1>3, ReplayNone

LEMMA CompactionStep == IInv /\ [Next]_vars => CompactionInv'
<1> SUFFICES ASSUME IInv, [Next]_vars, errors' = 0 PROVE CompactionInv'
  BY DEF CompactionInv
<1> USE DEF IInv
<1>1. ASSUME NEW target \in Targets, NEW resume \in BOOLEAN, Begin(target, resume)
      PROVE  CompactionInv'
  BY <1>1 DEF Begin, CompactionInv, Unopened, diskVars
<1>2. ASSUME NEW key \in Keys, Write(key) \/ NotWritten(key) PROVE CompactionInv'
  BY <1>2 DEF Write, NotWritten, CompactionInv, diskVars, countVars
<1>3. ASSUME NEW key \in Keys, Record(key) PROVE CompactionInv'
  <2>1. errors = 0 /\ UNCHANGED <<base, phase, import>> /\ ~torn' /\ phase \in {"items", "avatars"}
    BY <1>3 DEF Record, countVars
  <2>2. journal' = Append(journal, [target |-> import.target, key |-> key])
    BY <1>3, <2>1 DEF Record, CompactionInv
  <2>3. journal' # <<>> /\ journal'[Len(journal')].target = import.target
    BY <2>1, <2>2, AppendedType, EmptySeq
  <2>4. store'.open /\ store'.dirty
    BY <1>3, RecordedStore
  <2> QED BY <2>1, <2>3, <2>4 DEF CompactionInv
<1>4. ASSUME NEW key \in Keys, RecordFails(key) PROVE FALSE
  BY <1>4 DEF RecordFails, TypeOK
<1>5. CASE Cancel \/ ItemsEnd \/ AvatarsEnd \/ Abort \/ WriteReport
  BY <1>5 DEF Cancel, ItemsEnd, AvatarsEnd, Abort, WriteReport, CompactionInv, diskVars, progressVars,
              countVars
<1>6. CASE CloseUnopened \/ RemoveJournal \/ Crash
  BY <1>6, OverType DEF CloseUnopened, RemoveJournal, Crash, ImportOver, CompactionInv, diskVars,
                        countVars
<1>7. CASE CloseClean
  BY <1>7 DEF CloseClean, CompactionInv, countVars
<1>8. CASE CloseMerge
  <2>1. errors = 0 /\ UNCHANGED <<base, journal, torn, import>> /\ phase' = "compact"
    BY <1>8 DEF CloseMerge, countVars, progressVars
  <2>2. store'.memory = Load /\ Load' = Load
    BY <1>8, <2>1, MergeTakesLoad, SameFiles
  <2>3. store'.open = store.open /\ store'.dirty = store.dirty /\ synced' = Len(journal')
    BY <1>8, <2>1 DEF CloseMerge, TypeOK
  <2> QED BY <2>1, <2>2, <2>3 DEF CompactionInv
<1>9. CASE WriteBase
  <2>1. errors = 0 /\ UNCHANGED <<journal, torn, synced, import, store>>
        /\ phase = "compact" /\ phase' = "remove"
    BY <1>9 DEF WriteBase, countVars, progressVars
  <2>2. base' = Load /\ Load' = Load /\ Load.fp = None
    BY <1>9, <2>1, WriteBaseKeepsLoad, NoFingerprint
  <2> QED BY <2>1, <2>2 DEF CompactionInv
<1>10. CASE ReplacePackage
  <2>1. Load' = Load
    BY <1>10, SameFiles DEF ReplacePackage, diskVars
  <2> QED BY <1>10, <2>1 DEF ReplacePackage, CompactionInv, diskVars, importVars, countVars
<1>11. CASE UNCHANGED vars
  <2>1. Load' = Load
    BY <1>11, SameFiles DEF vars, diskVars
  <2> QED BY <1>11, <2>1 DEF vars, CompactionInv, diskVars, importVars, countVars
<1> QED BY <1>1, <1>2, <1>3, <1>4, <1>5, <1>6, <1>7, <1>8, <1>9, <1>10, <1>11 DEF Next

LEMMA RecordedStep == IInv /\ TypeOK' /\ CompactionInv' /\ [Next]_vars => RecordedIsResumed'
<1> SUFFICES ASSUME IInv, TypeOK', CompactionInv', [Next]_vars, errors' = 0, acked'.target # None
             PROVE  acked'.keys \subseteq Accepted(acked.target, package)'
  BY DEF RecordedIsResumed
<1> USE DEF IInv
<1> DEFINE Kept(t) == IF Load.target = t THEN Load.done ELSE {}
<1>1. /\ errors = 0 => \A t \in Targets : Accepted(t, package) = Kept(t)
      /\ \A t \in Targets : Accepted(t, package)' = IF Load'.target = t THEN Load'.done ELSE {}
  BY AcceptedIs, AcceptedIsNext DEF AcceptsByTarget
<1>2. errors = 0
  BY CountsGrow DEF TypeOK
<1>3. acked'.target \in Targets
  BY DEF TypeOK
<1>4. acked.target # None => acked.target \in Targets /\ acked.keys \subseteq Kept(acked.target)
  BY <1>1, <1>2 DEF RecordedIsResumed, TypeOK
<1> SUFFICES acked'.keys \subseteq Kept(acked.target)'
  BY <1>1, <1>3
<1>5. ASSUME acked'.target = acked.target, acked'.keys \subseteq acked.keys, Load' = Load
      PROVE  acked'.keys \subseteq Kept(acked.target)'
  BY <1>4, <1>5
<1>6. ASSUME NEW target \in Targets, NEW resume \in BOOLEAN, Begin(target, resume)
      PROVE  acked'.keys \subseteq Kept(acked.target)'
  BY <1>5, <1>6, SameFiles DEF Begin, diskVars, historyVars
<1>7. ASSUME NEW key \in Keys, Write(key) \/ NotWritten(key)
      PROVE  acked'.keys \subseteq Kept(acked.target)'
  BY <1>5, <1>7, SameFiles DEF Write, NotWritten, diskVars, historyVars
<1>8. ASSUME NEW key \in Keys, Record(key) PROVE acked'.keys \subseteq Kept(acked.target)'
  <2> DEFINE line == [target |-> import.target, key |-> key]
  <2>1. base' = base /\ phase \in {"items", "avatars"}
        /\ journal' = Append(journal, line)
    BY <1>2, <1>8 DEF Record, CompactionInv
  <2>2. line \in Line /\ line.target = import.target /\ line.key = key /\ import.target \in Targets
    BY <2>1, AppendedType DEF PhaseInv
  <2> HIDE DEF line
  <2>3. Load' = Replay(Load, line)
    BY <2>1, <2>2, ReplayOneMore, LoadIsReplay, LoadType DEF Load, Start, TypeOK
  <2>4. /\ acked'.target = import.target
        /\ acked'.keys = {key} \cup (IF acked.target = import.target THEN acked.keys ELSE {})
    BY <1>8 DEF Record, Acknowledge
  <2>5. /\ Load'.target = import.target
        /\ Load'.done = {key} \cup (IF Load.target = import.target THEN Load.done ELSE {})
    BY <2>2, <2>3, ReplayFields, LoadType
  <2> QED BY <1>4, <2>2, <2>4, <2>5, NoneAssumption
<1>9. ASSUME NEW key \in Keys, RecordFails(key) PROVE FALSE
  BY <1>9 DEF RecordFails, TypeOK
<1>10. CASE \/ Cancel \/ ItemsEnd \/ AvatarsEnd \/ Abort \/ WriteReport
            \/ CloseUnopened \/ CloseClean \/ CloseMerge
  BY <1>5, <1>10, SameFiles DEF Cancel, ItemsEnd, AvatarsEnd, Abort, WriteReport, CloseUnopened,
     CloseClean, CloseMerge, diskVars, historyVars
<1>11. CASE WriteBase
  BY <1>2, <1>5, <1>11, WriteBaseKeepsLoad DEF WriteBase, historyVars
<1>12. CASE RemoveJournal
  BY <1>2, <1>5, <1>12, RemoveJournalKeepsLoad DEF RemoveJournal, historyVars
<1>13. CASE Crash
  <2>1. PICK keep \in synced..Len(journal) :
          /\ journal' = SubSeq(journal, 1, keep)
          /\ acked' = [acked EXCEPT !.keys = @ \ {journal[i].key : i \in keep + 1..Len(journal)}]
    BY <1>13 DEF Crash
  <2>2. keep \in 0..Len(journal)
    BY LenProperties DEF TypeOK
  <2>3. acked'.target = acked.target
        /\ acked'.keys = acked.keys \ {journal[i].key : i \in keep + 1..Len(journal)}
    BY <2>1 DEF TypeOK
  <2>4. Load = ReplayAll(Start, journal) /\ Load' = ReplayAll(Start, SubSeq(journal, 1, keep))
    BY <1>13, <2>1 DEF Crash, Load, Start
  <2> SUFFICES ASSUME NEW k \in acked'.keys PROVE k \in Kept(acked.target)'
    OBVIOUS
  <2>5. Load.target = acked.target /\ k \in Load.done
    BY <1>3, <1>4, <2>3, NoneAssumption
  <2>6. \A n \in keep + 1..Len(journal) : journal[n].key # k
    BY <2>3
  <2>7. k \in Load'.done /\ Load'.target = Load.target
    BY <2>2, <2>4, <2>5, <2>6, ReplayPrefix, LoadType DEF TypeOK
  <2> QED BY <2>3, <2>5, <2>7
<1>14. CASE ReplacePackage
  <2>1. acked'.target = acked.target /\ acked'.keys = {}
    BY <1>14 DEF ReplacePackage, TypeOK
  <2> QED BY <2>1
<1>15. CASE UNCHANGED vars
  BY <1>5, <1>15, SameFiles DEF vars, diskVars, historyVars
<1> QED BY <1>6, <1>7, <1>8, <1>9, <1>10, <1>11, <1>12, <1>13, <1>14, <1>15 DEF Next

-----------------------------------------------------------------------------
(* The theorems *)

\* Imports, crashes and failing writes keep the invariant of the files and of the
\* open store (importCheckpointStore).
THEOREM Invariant == Spec => []IInv
<1>1. IInv /\ [Next]_vars => IInv'
  BY TypeStep, PhaseStep, WrittenStep, CompactionStep, RecordedStep DEF IInv
<1> QED BY InitInv, <1>1, PTL DEF Spec

\* Every variable keeps its type.
THEOREM TypeCorrect == Spec => []TypeOK
BY Invariant, PTL DEF IInv

\* A resume skips only what was written to this very server.
THEOREM SkippedWritten == Spec => []SkippedWasWritten
<1>1. IInv => SkippedWasWritten
  BY DEF IInv, WrittenInv, WrittenTo, SkippedWasWritten
<1> QED BY <1>1, Invariant, PTL

\* What Record accepted is found again, at every moment and after every crash.
THEOREM RecordedResumed == Spec => []RecordedIsResumed
BY Invariant, PTL DEF IInv

\* Close leaves untouched what a resume accepts.
THEOREM CompactionSafe == Spec => CompactionKeepsProgress
<1>1. ASSUME IInv, IInv', [Next]_vars PROVE
        [(phase \in {"compact", "remove"} /\ errors = 0) =>
           \A t \in Targets : Accepted(t, package)' = Accepted(t, package)]_vars
  <2> SUFFICES ASSUME Next, phase \in {"compact", "remove"}, errors = 0, NEW t \in Targets
               PROVE  Accepted(t, package)' = Accepted(t, package)
    BY <1>1
  <2>1. WriteBase \/ RemoveJournal \/ Crash
    BY DEF Next, Begin, Write, NotWritten, Record, RecordFails, Cancel, ItemsEnd, AvatarsEnd, Abort,
           WriteReport, CloseUnopened, CloseClean, CloseMerge, ReplacePackage
  <2>2. errors' = 0
    BY <2>1 DEF WriteBase, RemoveJournal, Crash, countVars
  <2>3. Load' = Load
    <3>1. CASE WriteBase
      BY <1>1, <3>1, WriteBaseKeepsLoad
    <3>2. CASE RemoveJournal
      BY <1>1, <3>2, RemoveJournalKeepsLoad
    <3>3. CASE Crash
      <4>1. base' = base /\ \E keep \in synced..Len(journal) : journal' = SubSeq(journal, 1, keep)
        BY <3>3 DEF Crash
      <4>2. synced = Len(journal) /\ Len(journal) \in Nat
        BY <1>1, LenProperties DEF IInv, TypeOK, CompactionInv
      <4>3. journal' = SubSeq(journal, 1, Len(journal))
        BY <4>1, <4>2
      <4>4. journal' = journal
        BY <1>1, <4>3 DEF IInv, TypeOK
      <4> QED BY <4>1, <4>4, SameFiles
    <3> QED BY <2>1, <3>1, <3>2, <3>3
  <2> QED BY <1>1, <2>2, <2>3, AcceptedIs, AcceptedIsNext DEF IInv, AcceptsByTarget
<1> QED BY <1>1, Invariant, PTL DEF Spec, CompactionKeepsProgress

-----------------------------------------------------------------------------
(* What of the progress belongs to the package. A checkpoint may be taken for *)
(* that of another package (SkippedContentWasWritten is violated); a report   *)
(* may not.                                                                   *)

\* The keys written to a server with the content of one package.
WrittenWith(target, fp) == {key \in Keys : <<target, fp, key>> \in written}

ContentInv ==
  /\ pending \cup got \subseteq WrittenWith(import.target, import.fp)
  /\ \A r \in reports : r.fp \in Packages /\ r.done \subseteq WrittenWith(r.target, r.fp)

\* What an import newly skips was written to its server with the content of its
\* own package, or is what the checkpoint names.
OnlyTheCheckpointIsStale ==
  [][skipped' \ skipped \subseteq Accepted(import'.target, import'.fp)
                                  \cup WrittenWith(import'.target, import'.fp)]_vars

LEMMA ContentStep == IInv /\ ContentInv /\ [Next]_vars => ContentInv'
<1> SUFFICES ASSUME IInv, ContentInv, [Next]_vars PROVE ContentInv'
  OBVIOUS
<1>1. ASSUME written' = written, reports' = reports,
             \/ pending' \cup got' = {}
             \/ import' = import /\ pending' \cup got' \subseteq pending \cup got
      PROVE  ContentInv'
  <2>1. \A t, fp : WrittenWith(t, fp)' = WrittenWith(t, fp)
    BY <1>1 DEF WrittenWith
  <2> HIDE DEF WrittenWith
  <2> QED BY <1>1, <2>1 DEF ContentInv
<1>2. CASE \/ \E target \in Targets, resume \in BOOLEAN : Begin(target, resume)
           \/ CloseUnopened \/ RemoveJournal \/ Crash
  BY <1>1, <1>2 DEF Begin, CloseUnopened, RemoveJournal, Crash, ImportOver, historyVars
<1>3. CASE \E key \in Keys : NotWritten(key) \/ Record(key) \/ RecordFails(key)
  BY <1>1, <1>3 DEF NotWritten, Record, RecordFails, historyVars
<1>4. CASE \/ Cancel \/ ItemsEnd \/ AvatarsEnd \/ Abort \/ CloseClean \/ CloseMerge
           \/ WriteBase \/ ReplacePackage \/ UNCHANGED vars
  BY <1>1, <1>4 DEF Cancel, ItemsEnd, AvatarsEnd, Abort, CloseClean, CloseMerge, WriteBase,
         ReplacePackage, vars, importVars, progressVars, historyVars
<1>5. ASSUME NEW key \in Keys, Write(key) PROVE ContentInv'
  <2>1. /\ written' = written \cup {<<import.target, import.fp, key>>} /\ import' = import
        /\ reports' = reports /\ pending' = pending \cup {key} /\ got' = got
    BY <1>5 DEF Write
  <2>2. /\ \A t, fp : WrittenWith(t, fp) \subseteq WrittenWith(t, fp)'
        /\ key \in WrittenWith(import.target, import.fp)'
    BY <2>1 DEF WrittenWith
  <2> HIDE DEF WrittenWith
  <2> QED BY <2>1, <2>2 DEF ContentInv
<1>6. CASE WriteReport
  <2>1. /\ written' = written /\ import' = import /\ pending' = pending /\ got' = got
        /\ reports' = reports \cup
             {[target |-> import.target, fp |-> import.fp, done |-> got \cap Items]}
    BY <1>6 DEF WriteReport, progressVars, historyVars
  <2>2. import.fp \in Packages
    BY <1>6 DEF WriteReport, IInv, PhaseInv
  <2>3. \A t, fp : WrittenWith(t, fp)' = WrittenWith(t, fp)
    BY <2>1 DEF WrittenWith
  <2> HIDE DEF WrittenWith
  <2> QED BY <2>1, <2>2, <2>3 DEF ContentInv
<1> QED BY <1>2, <1>3, <1>4, <1>5, <1>6 DEF Next

\* A resume skips nothing new to the server but what the checkpoint claims: the
\* reports are kept apart by package (resumeSuccessfulItems), and the content
\* that may be stale is that of a checkpoint without a fingerprint.
THEOREM StaleIsTheCheckpoint == Spec => OnlyTheCheckpointIsStale
<1>1. Init => ContentInv
  BY DEF Init, ContentInv
<1>2. IInv /\ ContentInv /\ [Next]_vars =>
        [skipped' \ skipped \subseteq Accepted(import'.target, import'.fp)
                                      \cup WrittenWith(import'.target, import'.fp)]_vars
  <2> SUFFICES ASSUME IInv, ContentInv, Next, NEW key \in skipped' \ skipped
               PROVE  key \in Accepted(import'.target, import'.fp)
                              \cup WrittenWith(import'.target, import'.fp)
    BY DEF vars
  <2>1. \/ \E target \in Targets, resume \in BOOLEAN : Begin(target, resume)
        \/ ItemsEnd
    BY DEF Next, Write, NotWritten, Record, RecordFails, Cancel, AvatarsEnd, Abort, WriteReport,
           CloseUnopened, CloseClean, CloseMerge, WriteBase, RemoveJournal, Crash, ReplacePackage,
           ImportOver, progressVars, importVars
  <2>2. CASE \E target \in Targets, resume \in BOOLEAN : Begin(target, resume)
    <3>1. PICK target \in Targets, resume \in BOOLEAN : Begin(target, resume)
      BY <2>2
    <3>2. import'.target = target /\ import'.fp = package /\ key \in ResumedItems(target, package)
      BY <3>1 DEF Begin
    <3>3. CASE key \in Accepted(target, package)
      BY <3>2, <3>3
    <3>4. CASE key \notin Accepted(target, package)
      <4>1. PICK r \in reports : /\ r.target = target /\ SameFingerprint(r.fp, package)
                                 /\ key \in r.done
        BY <3>2, <3>4 DEF ResumedItems
      <4>2. r.fp \in Packages /\ key \in WrittenWith(r.target, r.fp)
        BY <4>1 DEF ContentInv
      <4>3. r.fp = package
        BY <4>1, <4>2, NoneAssumption DEF SameFingerprint
      <4> QED BY <3>2, <4>1, <4>2, <4>3
    <3> QED BY <3>3, <3>4
  <2>3. CASE ItemsEnd
    BY <2>3 DEF ItemsEnd
  <2> QED BY <2>1, <2>2, <2>3
<1>3. Spec => []ContentInv
  BY <1>1, ContentStep, Invariant, PTL DEF Spec
<1> QED BY <1>2, <1>3, Invariant, PTL DEF Spec, OnlyTheCheckpointIsStale

=============================================================================
