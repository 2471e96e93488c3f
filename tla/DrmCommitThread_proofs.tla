------------------------ MODULE DrmCommitThread_proofs ------------------------
(***************************************************************************)
(* Proofs about the commit thread of a DRM output, for every set of planes *)
(* and every number of commits and failures: first how it keeps, merges    *)
(* and asks for its commits, then what the planes show.                    *)
(***************************************************************************)
EXTENDS DrmCommitThread, FiniteSetTheorems, SequenceTheorems,
        WellFoundedInduction, TLAPS

------------------------------------------------------------------------------
(* Merging                                                                  *)

\* A set of natural numbers has a least element.
LEMMA LeastNumber ==
    ASSUME NEW T \in SUBSET Nat, T # {}
    PROVE  \E x \in T : \A y \in T : x <= y
<1> DEFINE R == OpToRel(<, Nat)
<1>1. PICK x \in T : \A y \in T : <<y, x>> \notin R
  BY NatLessThanWellFounded, WFMin, Zenon
<1>2. \A y \in T : ~(y < x)
  BY <1>1 DEF OpToRel
<1> QED BY <1>2

\* If some commit of cs modifies p, LastOn finds the last of them.
LEMMA LastOnFound ==
    ASSUME NEW ids, NEW cs \in Seq(CommitObjects(ids)), NEW p,
           \E k \in DOMAIN cs : p \in Modified(cs[k])
    PROVE  /\ LastOn(cs, p) \in DOMAIN cs
           /\ p \in Modified(cs[LastOn(cs, p)])
           /\ \A j \in DOMAIN cs : p \in Modified(cs[j]) => j <= LastOn(cs, p)
<1> DEFINE K == {k \in DOMAIN cs : p \in Modified(cs[k])}
           D == {Len(cs) - k : k \in K}
<1>1. DOMAIN cs = 1..Len(cs) /\ Len(cs) \in Nat
  BY LenProperties
<1>2. D \in SUBSET Nat /\ D # {}
  BY <1>1
<1>3. PICK d \in D : \A e \in D : d <= e
  <2> HIDE DEF D
  <2> QED BY <1>2, LeastNumber
<1>4. PICK k \in K : d = Len(cs) - k
  BY <1>3
<1>5. \A j \in K : j <= k
  <2> TAKE j \in K
  <2>1. Len(cs) - k <= Len(cs) - j
    BY <1>3, <1>4
  <2> QED BY <2>1, <1>1
<1>6. \E i \in DOMAIN cs : /\ p \in Modified(cs[i])
                           /\ \A j \in DOMAIN cs : p \in Modified(cs[j]) => j <= i
  BY <1>5
<1> QED BY <1>6 DEF LastOn

\* mergeCommits returns a commit of the contents of those it merges.
LEMMA MergeAllType ==
    ASSUME NEW ids, NEW cs \in Seq(CommitObjects(ids))
    PROVE  MergeAll(cs) \in CommitObjects(ids)
<1> DEFINE S == UNION {Modified(cs[k]) : k \in DOMAIN cs}
           f == [p \in S |-> cs[LastOn(cs, p)].shows[p]]
<1>1. \A k \in DOMAIN cs : cs[k] \in CommitObjects(ids)
  BY LenProperties, ElementOfSeq
<1>2. \A c \in CommitObjects(ids) :
         /\ Modified(c) \subseteq Planes
         /\ c.shows \in [Modified(c) -> ids]
         /\ c.targets \subseteq ids
  BY DEF CommitObjects, Modified
<1>3. S \in SUBSET Planes
  BY <1>1, <1>2
<1>4. \A p \in S : cs[LastOn(cs, p)].shows[p] \in ids
  <2> TAKE p \in S
  <2>1. LastOn(cs, p) \in DOMAIN cs /\ p \in Modified(cs[LastOn(cs, p)])
    BY LastOnFound
  <2>2. cs[LastOn(cs, p)].shows \in [Modified(cs[LastOn(cs, p)]) -> ids]
    BY <2>1, <1>1, <1>2
  <2> QED BY <2>1, <2>2
<1>5. f \in [S -> ids]
  BY <1>4
<1>6. f \in UNION {[T -> ids] : T \in SUBSET Planes}
  BY <1>3, <1>5
<1>7. UNION {cs[k].targets : k \in DOMAIN cs} \in SUBSET ids
  BY <1>1, <1>2
<1>8. MergeAll(cs) = [shows |-> f, targets |-> UNION {cs[k].targets : k \in DOMAIN cs}]
  BY DEF MergeAll
<1> HIDE DEF f, S
<1> QED BY <1>6, <1>7, <1>8 DEF CommitObjects

\* Merging the commits <<c>> gives c.
LEMMA MergeAllOfOne ==
    ASSUME NEW ids, NEW c \in CommitObjects(ids)
    PROVE  MergeAll(<<c>>) = c
<1> DEFINE cs == <<c>>
<1>1. cs \in Seq(CommitObjects(ids)) /\ DOMAIN cs = {1} /\ cs[1] = c
  OBVIOUS
<1>2. \A p \in Modified(c) : LastOn(cs, p) = 1
  BY <1>1, LastOnFound
<1>3. c = [shows |-> c.shows, targets |-> c.targets] /\ c.shows = [p \in Modified(c) |-> c.shows[p]]
  BY DEF CommitObjects, Modified
<1>4. UNION {Modified(cs[k]) : k \in DOMAIN cs} = Modified(c)
  BY <1>1
<1>5. UNION {cs[k].targets : k \in DOMAIN cs} = c.targets
  BY <1>1
<1>6. [p \in Modified(c) |-> cs[LastOn(cs, p)].shows[p]] = c.shows
  BY <1>1, <1>2, <1>3
<1>7. MergeAll(cs) = [shows |-> [p \in UNION {Modified(cs[k]) : k \in DOMAIN cs} |->
                                   cs[LastOn(cs, p)].shows[p]],
                      targets |-> UNION {cs[k].targets : k \in DOMAIN cs}]
  BY DEF MergeAll
<1> HIDE DEF cs
<1>8. MergeAll(cs) = c
  BY <1>3, <1>4, <1>5, <1>6, <1>7
<1> QED BY <1>8 DEF cs

\* The loop of mergeCommits computes MergeAll: DrmAtomicCommit::merge of a
\* further commit into what the ones before give.
THEOREM MergeAllIsRepeatedMerge ==
    ASSUME NEW ids, NEW cs \in Seq(CommitObjects(ids)), NEW c \in CommitObjects(ids)
    PROVE  MergeAll(Append(cs, c)) = Merge(MergeAll(cs), c)
<1> DEFINE ds == Append(cs, c)
           n == Len(cs) + 1
           Of(s) == UNION {s[k].targets : k \in DOMAIN s}
           On(s) == UNION {Modified(s[k]) : k \in DOMAIN s}
<1>1. /\ ds \in Seq(CommitObjects(ids)) /\ DOMAIN ds = 1..n /\ DOMAIN cs = 1..Len(cs)
      /\ Len(cs) \in Nat
      /\ ds[n] = c /\ \A k \in DOMAIN cs : ds[k] = cs[k]
  BY AppendProperties, LenProperties
<1>2. DOMAIN ds = DOMAIN cs \cup {n} /\ n \notin DOMAIN cs
  BY <1>1
<1> HIDE DEF ds, n
<1>3. On(ds) = On(cs) \cup Modified(c) /\ Of(ds) = Of(cs) \cup c.targets
  <2>1. On(ds) = On(cs) \cup Modified(c)
    BY <1>1, <1>2, Zenon
  <2>2. Of(ds) = Of(cs) \cup c.targets
    <3>1. \A x \in Of(ds) : x \in Of(cs) \/ x \in c.targets
      BY <1>1, <1>2
    <3>2. \A x \in Of(cs) : x \in Of(ds)
      BY <1>1, <1>2
    <3>3. \A x \in c.targets : x \in Of(ds)
      BY <1>1, <1>2
    <3> HIDE DEF Of
    <3> QED BY <3>1, <3>2, <3>3
  <2> QED BY <2>1, <2>2
<1>4. ASSUME NEW p \in Modified(c)
      PROVE  LastOn(ds, p) = n
  <2>1. n \in DOMAIN ds /\ p \in Modified(ds[n])
    BY <1>1, <1>2, <1>4
  <2>2. LastOn(ds, p) \in DOMAIN ds /\ n <= LastOn(ds, p)
    BY <1>1, <2>1, LastOnFound
  <2> QED BY <1>1, <2>2 DEF n
<1>5. ASSUME NEW p \in On(cs), p \notin Modified(c)
      PROVE  LastOn(ds, p) = LastOn(cs, p) /\ LastOn(cs, p) \in DOMAIN cs
  <2>1. /\ LastOn(cs, p) \in DOMAIN cs /\ p \in Modified(cs[LastOn(cs, p)])
        /\ \A j \in DOMAIN cs : p \in Modified(cs[j]) => j <= LastOn(cs, p)
    BY LastOnFound
  <2>2. LastOn(cs, p) \in DOMAIN ds /\ p \in Modified(ds[LastOn(cs, p)])
    BY <2>1, <1>1, <1>2
  <2>3. /\ LastOn(ds, p) \in DOMAIN ds /\ p \in Modified(ds[LastOn(ds, p)])
        /\ LastOn(cs, p) <= LastOn(ds, p)
    BY <1>1, <2>2, LastOnFound
  <2>4. LastOn(ds, p) \in DOMAIN cs /\ p \in Modified(cs[LastOn(ds, p)])
    BY <2>3, <1>1, <1>2, <1>5
  <2> QED BY <2>1, <2>3, <2>4, <1>1
<1> DEFINE Shows(s) == [p \in On(s) |-> s[LastOn(s, p)].shows[p]]
<1>6. \A s : MergeAll(s) = [shows |-> Shows(s), targets |-> Of(s)]
  BY DEF MergeAll
<1>7. Modified(MergeAll(cs)) = On(cs)
  BY <1>6 DEF Modified
<1>8. \A p \in On(ds) : ds[LastOn(ds, p)].shows[p] =
          IF p \in Modified(c) THEN c.shows[p] ELSE MergeAll(cs).shows[p]
  <2> TAKE p \in On(ds)
  <2>1. CASE p \in Modified(c)
    BY <2>1, <1>4, <1>1
  <2>2. CASE p \notin Modified(c)
    <3>1. p \in On(cs)
      BY <2>2, <1>3
    <3>2. ds[LastOn(ds, p)] = cs[LastOn(cs, p)]
      BY <3>1, <2>2, <1>5, <1>1
    <3>3. MergeAll(cs).shows[p] = cs[LastOn(cs, p)].shows[p]
      BY <3>1, <1>6
    <3> QED BY <2>2, <3>2, <3>3
  <2> QED BY <2>1, <2>2
<1> HIDE DEF On, Of
<1>9. Shows(ds) = Merge(MergeAll(cs), c).shows
  BY <1>3, <1>7, <1>8 DEF Merge
<1> HIDE DEF Shows
<1>10. Merge(MergeAll(cs), c) = [shows |-> Merge(MergeAll(cs), c).shows,
                                 targets |-> Of(cs) \cup c.targets]
  BY <1>6 DEF Merge
<1>11. MergeAll(ds) = Merge(MergeAll(cs), c)
  BY <1>3, <1>6, <1>9, <1>10
<1> QED BY <1>11 DEF ds

------------------------------------------------------------------------------
(* optimizeCommits: each pass turns commits into commits and leaves some.   *)

\* What a pass may return for commits of the objects X.
Results(X) == {Result(list, deleted) : list \in Seq(X) \ {<<>>}, deleted \in SUBSET X}

LEMMA ElementsType ==
    ASSUME NEW X, NEW s \in Seq(X)
    PROVE  Elements(s) \in SUBSET X /\ Replaced(s) \in SUBSET X
BY ElementOfSeq, LenProperties DEF Elements, Replaced

LEMMA ResultType ==
    ASSUME NEW X, NEW list \in Seq(X) \ {<<>>}, NEW deleted \in SUBSET X
    PROVE  Result(list, deleted) \in Results(X)
BY DEF Results

LEMMA ResultParts ==
    ASSUME NEW X, NEW r \in Results(X)
    PROVE  r.list \in Seq(X) /\ r.list # <<>> /\ r.deleted \in SUBSET X
BY DEF Results, Result

\* The commits at the places S of cs are as many as S has.
LEMMA AtType ==
    ASSUME NEW X, NEW cs \in Seq(X), NEW S \in SUBSET DOMAIN cs, NEW s \in At(cs, S)
    PROVE  /\ s \in Seq(X)
           /\ S # {} => s # <<>>
<1>1. DOMAIN cs = 1..Len(cs) /\ Len(cs) \in Nat /\ \A k \in DOMAIN cs : cs[k] \in X
  BY LenProperties, ElementOfSeq
<1>2. IsFiniteSet(S)
  <2>1. IsFiniteSet(1..Len(cs))
    BY <1>1, FS_Interval
  <2> QED BY <2>1, <1>1, FS_Subset
<1>3. Cardinality(S) \in Nat /\ (S # {} => Cardinality(S) # 0)
  BY <1>2, FS_CardinalityType, FS_EmptySet
<1>4. PICK f \in [1..Cardinality(S) -> S] : s = [n \in DOMAIN f |-> cs[f[n]]]
  BY DEF At, Ascending
<1>5. s \in [1..Cardinality(S) -> X]
  BY <1>1, <1>4
<1>6. s \in Seq(X) /\ Len(s) = Cardinality(S)
  BY <1>3, <1>5
<1> QED BY <1>3, <1>6

LEMMA MergeFrontType ==
    ASSUME NEW ids, NEW cs \in Seq(CommitObjects(ids)), cs # <<>>
    PROVE  MergeFront(cs) \in SUBSET Results(CommitObjects(ids))
<1> DEFINE X == CommitObjects(ids)
<1> SUFFICES ASSUME NEW r \in MergeFront(cs)
             PROVE  r \in Results(X)
  OBVIOUS
<1>1. PICK j \in 1..Len(cs) :
          r = Result(<<MergeAll(SubSeq(cs, 1, j))>> \o SubSeq(cs, j + 1, Len(cs)),
                     Replaced(SubSeq(cs, 1, j)))
  BY DEF MergeFront
<1>2. Len(cs) \in Nat /\ \A k \in 1..Len(cs) : cs[k] \in X
  BY ElementOfSeq, LenProperties
<1>3. SubSeq(cs, 1, j) \in Seq(X) /\ SubSeq(cs, j + 1, Len(cs)) \in Seq(X)
  BY <1>2, SubSeqProperties
<1>4. MergeAll(SubSeq(cs, 1, j)) \in X
  BY <1>3, MergeAllType
<1> HIDE DEF X
<1>5. <<MergeAll(SubSeq(cs, 1, j))>> \o SubSeq(cs, j + 1, Len(cs)) \in Seq(X) \ {<<>>}
  BY <1>3, <1>4, ConcatEqualIffEmpty, ConcatProperties
<1>6. Replaced(SubSeq(cs, 1, j)) \in SUBSET X
  BY <1>3, ElementsType
<1> QED BY <1>1, <1>5, <1>6, ResultType

LEMMA MergeSamePlanesType ==
    ASSUME NEW ids, NEW cs \in Seq(CommitObjects(ids)), cs # <<>>
    PROVE  MergeSamePlanes(cs) \in SUBSET Results(CommitObjects(ids))
<1> DEFINE X == CommitObjects(ids)
           starts == {k \in 1..Len(cs) :
                        k > 1 => ~Ready(cs[k]) \/ Modified(cs[k]) # Modified(cs[k - 1])}
           Run(f, n) == SubSeq(cs, f[n], IF n + 1 \in DOMAIN f THEN f[n + 1] - 1 ELSE Len(cs))
<1> SUFFICES ASSUME NEW r \in MergeSamePlanes(cs)
             PROVE  r \in Results(X)
  OBVIOUS
<1>1. Len(cs) \in Nat \ {0} /\ \A k \in 1..Len(cs) : cs[k] \in X
  BY ElementOfSeq, LenProperties, EmptySeq
<1>2. starts \in SUBSET (1..Len(cs)) /\ 1 \in starts
  BY <1>1
<1>3. IsFiniteSet(starts)
  <2> HIDE DEF starts
  <2>1. IsFiniteSet(1..Len(cs))
    BY <1>1, FS_Interval
  <2> QED BY <2>1, <1>2, FS_Subset
<1>4. Cardinality(starts) \in Nat \ {0}
  BY <1>2, <1>3, FS_CardinalityType, FS_EmptySet
<1>5. PICK f \in Ascending(starts) :
          r = Result([n \in DOMAIN f |-> MergeAll(Run(f, n))],
                     UNION {Replaced(Run(f, n)) : n \in DOMAIN f})
  BY DEF MergeSamePlanes
<1>6. f \in [1..Cardinality(starts) -> starts]
  BY <1>5 DEF Ascending
<1>7. ASSUME NEW n \in DOMAIN f
      PROVE  Run(f, n) \in Seq(X)
  <2>1. f[n] \in 1..Len(cs)
    BY <1>2, <1>6
  <2>2. CASE n + 1 \in DOMAIN f
    <3>1. f[n + 1] \in 1..Len(cs)
      BY <1>2, <1>6, <2>2
    <3> QED BY <1>1, <2>1, <2>2, <3>1, SubSeqProperties
  <2>3. CASE n + 1 \notin DOMAIN f
    BY <1>1, <2>1, <2>3, SubSeqProperties
  <2> QED BY <2>2, <2>3
<1> HIDE DEF Run, starts
<1>8. \A n \in DOMAIN f : MergeAll(Run(f, n)) \in X
  BY <1>7, MergeAllType
<1> HIDE DEF X
<1>9. \A n \in DOMAIN f : Replaced(Run(f, n)) \in SUBSET X
  BY <1>7, ElementsType
<1>10. [n \in DOMAIN f |-> MergeAll(Run(f, n))] \in [1..Cardinality(starts) -> X]
  BY <1>6, <1>8
<1>11. [n \in DOMAIN f |-> MergeAll(Run(f, n))] \in Seq(X) \ {<<>>}
  BY <1>4, <1>10
<1>12. UNION {Replaced(Run(f, n)) : n \in DOMAIN f} \in SUBSET X
  BY <1>9
<1> QED BY <1>5, <1>11, <1>12, ResultType

LEMMA InFrontType ==
    ASSUME NEW ids, NEW cs \in Seq(CommitObjects(ids)), cs # <<>>,
           NEW S \in SUBSET (1..Len(cs))
    PROVE  InFront(cs, S) \in SUBSET Results(CommitObjects(ids))
<1> DEFINE X == CommitObjects(ids)
           T == (1..Len(cs)) \ S
<1> SUFFICES ASSUME NEW r \in InFront(cs, S)
             PROVE  r \in Results(X)
  OBVIOUS
<1>1. DOMAIN cs = 1..Len(cs) /\ Len(cs) \in Nat \ {0}
  BY LenProperties, EmptySeq
<1>2. S \in SUBSET DOMAIN cs /\ T \in SUBSET DOMAIN cs /\ (S # {} \/ T # {})
  BY <1>1
<1>3. PICK kept \in At(cs, T) :
          \E moved \in At(cs, S) :
              r = Result((IF moved = <<>> THEN <<>> ELSE <<MergeAll(moved)>>) \o kept,
                         Elements(moved))
  BY DEF InFront
<1> PICK moved \in At(cs, S) :
        r = Result((IF moved = <<>> THEN <<>> ELSE <<MergeAll(moved)>>) \o kept,
                   Elements(moved))
  BY <1>3
<1>4. moved \in Seq(X) /\ kept \in Seq(X) /\ (moved # <<>> \/ kept # <<>>)
  BY <1>2, AtType
<1> DEFINE first == IF moved = <<>> THEN <<>> ELSE <<MergeAll(moved)>>
<1>5. first \in Seq(X) /\ (moved # <<>> => first # <<>>)
  BY <1>4, MergeAllType
<1>6. r = Result(first \o kept, Elements(moved))
  OBVIOUS
<1> HIDE DEF first, X
<1>7. first \o kept \in Seq(X) \ {<<>>}
  BY <1>4, <1>5, ConcatEqualIffEmpty, ConcatProperties
<1>8. Elements(moved) \in SUBSET X
  BY <1>4, ElementsType
<1> QED BY <1>6, <1>7, <1>8, ResultType

LEMMA MoveReadyType ==
    ASSUME NEW ids, NEW cs \in Seq(CommitObjects(ids)), cs # <<>>
    PROVE  MoveReady(cs) \in SUBSET Results(CommitObjects(ids))
<1>1. 1 \in 1..Len(cs)
  BY EmptySeq
<1> SUFFICES ASSUME NEW r \in MoveReady(cs)
             PROVE  r \in Results(CommitObjects(ids))
  OBVIOUS
<1>2. PICK S \in SUBSET (1..Len(cs)) : r \in InFront(cs, S)
  BY <1>1 DEF MoveReady
<1> QED BY <1>2, InFrontType

\* optimizeCommits keeps the queued and the deleted commits well-formed, and
\* never empties the queue.
LEMMA OptimizeType ==
    ASSUME NEW ids, commits \in Seq(CommitObjects(ids)),
           toDelete \in SUBSET CommitObjects(ids),
           OptimizeCommits
    PROVE  /\ commits' \in Seq(CommitObjects(ids))
           /\ toDelete' \in SUBSET CommitObjects(ids)
           /\ commits # <<>> => commits' # <<>>
<1> DEFINE X == CommitObjects(ids)
           Third(cs) == IF Len(cs) = 1 THEN {Result(cs, {})} ELSE MoveReady(cs)
<1>1. CASE Len(commits) <= 1
  BY <1>1 DEF OptimizeCommits
<1>2. CASE ~(Len(commits) <= 1)
  <2>1. commits # <<>>
    BY <1>2
  <2>2. PICK one \in MergeFront(commits) :
           \E two \in MergeSamePlanes(one.list) :
           \E three \in Third(two.list) :
              /\ commits' = three.list
              /\ toDelete' = toDelete \cup one.deleted \cup two.deleted \cup three.deleted
    BY <1>2, Zenon DEF OptimizeCommits
  <2>3. one \in Results(X)
    BY <2>1, <2>2, MergeFrontType
  <2>4. PICK two \in MergeSamePlanes(one.list) :
           \E three \in Third(two.list) :
              /\ commits' = three.list
              /\ toDelete' = toDelete \cup one.deleted \cup two.deleted \cup three.deleted
    BY <2>2
  <2>5. two \in Results(X)
    BY <2>3, <2>4, ResultParts, MergeSamePlanesType
  <2>6. PICK three \in Third(two.list) :
              /\ commits' = three.list
              /\ toDelete' = toDelete \cup one.deleted \cup two.deleted \cup three.deleted
    BY <2>4
  <2>7. three \in Results(X)
    <3>1. two.list \in Seq(X) \ {<<>>}
      BY <2>5, ResultParts
    <3>2. CASE Len(two.list) = 1
      BY <2>6, <3>1, <3>2, ResultType
    <3>3. CASE Len(two.list) # 1
      BY <2>6, <3>1, <3>3, MoveReadyType
    <3> QED BY <3>2, <3>3
  <2> HIDE DEF X
  <2>8. /\ commits' \in Seq(X) \ {<<>>}
        /\ one.deleted \in SUBSET X /\ two.deleted \in SUBSET X
        /\ three.deleted \in SUBSET X
    BY <2>3, <2>5, <2>6, <2>7, ResultParts
  <2>9. toDelete' \in SUBSET X
    BY <2>6, <2>8 DEF X
  <2> QED BY <2>8, <2>9 DEF X
<1> QED BY <1>1, <1>2

------------------------------------------------------------------------------
(* The inductive invariant.                                                 *)

\* Past the first wait nothing is committed, past optimizeCommits something is
\* queued, and while the DrmCommitThread exists, m_committed is what the kernel
\* or the main thread has still to report the page flip of.
Handover ==
    /\ pc \in {"sleep", "delay", "submit"} => committed = None
    /\ pc \in {"delay", "submit"} => commits # <<>>
    /\ main # "gone" => (committed = None <=> flip = "none")
    /\ main = "gone" => pc = "exited"

IInv == TypeOK /\ Handover

LEMMA InitInv == Init => IInv
<1> SUFFICES ASSUME Init PROVE IInv
  OBVIOUS
<1> USE DEF Init
<1>1. commits \in Seq(CommitObjects(1..added)) /\ toDelete \subseteq CommitObjects(1..added)
  OBVIOUS
<1>2. screen \in [Planes -> 0..added] /\ newest \in [Planes -> 0..added]
  OBVIOUS
<1> QED BY <1>1, <1>2 DEF IInv, TypeOK, Handover, Waits

\* What a locked section of the loop does to the lists, when it ends in one of
\* the places labels.
Section(labels) ==
    /\ commits' \in Seq(CommitObjects(1..added))
    /\ toDelete' \in SUBSET CommitObjects(1..added)
    /\ due' \in SUBSET (1..added)
    /\ committed' = committed
    /\ pc' \in labels
    /\ pc' \in {"delay", "submit"} => commits' # <<>>

\* The target time meets targets of queued commits only.
LEMMA TargetMoves ==
    ASSUME NEW n, commits' \in Seq(CommitObjects(1..n)), due \in SUBSET (1..n),
           NEW reached \in SUBSET (1..n), MoveTarget(reached)
    PROVE  due' \in SUBSET (1..n)
<1> DEFINE X == CommitObjects(1..n)
<1>1. \A c \in X : c.targets \in SUBSET (1..n)
  BY DEF CommitObjects
<1> HIDE DEF X
<1>2. \A k \in DOMAIN commits' : commits'[k] \in X
  <2>1. commits' \in Seq(X)
    BY DEF X
  <2> QED BY <2>1
<1>3. \A c \in Elements(commits') : c.targets \in SUBSET (1..n)
  BY <1>1, <1>2 DEF Elements
<1>4. PICK met \in SUBSET UNION {c.targets : c \in Elements(commits')} :
         due' = due \cup reached \cup met
  BY DEF MoveTarget
<1>5. met \in SUBSET (1..n)
  BY <1>3
<1> QED BY <1>4, <1>5

LEMMA GotoSection ==
    ASSUME TypeOK, NEW label \in {"check", "idle", "flip", "pong", "sleep"}, Goto(label)
    PROVE  Section({label})
BY DEF TypeOK, Goto, Section, lists

LEMMA OptimizeSection ==
    ASSUME TypeOK, commits # <<>>, Optimize
    PROVE  Section({"delay", "submit", "check"})
<1> DEFINE X == CommitObjects(1..added)
<1>1. OptimizeCommits /\ committed' = committed
  BY DEF Optimize
<1>2. commits' \in Seq(X) /\ commits' # <<>> /\ toDelete' \in SUBSET X
  BY <1>1, OptimizeType DEF TypeOK
<1>3. Head(commits') \in X
  <2> HIDE DEF X
  <2> QED BY <1>2
<1>4. Head(commits').targets \in SUBSET (1..added)
  BY <1>3 DEF CommitObjects
<1>5. due' \in SUBSET (1..added) /\ pc' \in {"delay", "submit", "check"}
  BY <1>2, <1>4, TargetMoves DEF Optimize, TypeOK
<1> QED BY <1>1, <1>2, <1>5 DEF Section

LEMMA ProceedSection ==
    ASSUME TypeOK, Proceed
    PROVE  Section({"check", "sleep", "delay", "submit"})
<1>1. CASE Goto("check")
  BY <1>1, GotoSection DEF Section
<1>2. CASE Goto("sleep")
  BY <1>2, GotoSection DEF Section
<1>3. CASE commits # <<>> /\ Optimize
  BY <1>3, OptimizeSection DEF Section
<1> QED BY <1>1, <1>2, <1>3 DEF Proceed

\* A section that keeps the invariant: past the waits nothing is committed.
LEMMA SectionInv ==
    ASSUME IInv,
           Section({"check", "idle", "flip", "pong", "sleep", "delay", "submit"}),
           committed = None \/ pc' \notin {"sleep", "delay", "submit"},
           pc # "exited",
           woken' \in BOOLEAN, ping' \in BOOLEAN, timeoutDetected' \in BOOLEAN,
           queued' \in SUBSET {"clearDroppedCommits", "handlePing"},
           flipped' \in BOOLEAN,
           UNCHANGED <<mainThread, kernel, added, newest, failures>>
    PROVE  IInv'
<1> USE DEF IInv, Section, mainThread, kernel
<1>1. TypeOK'
  BY DEF TypeOK, Waits
<1>2. Handover'
  BY DEF Handover
<1> QED BY <1>1, <1>2

------------------------------------------------------------------------------
(* The steps.                                                               *)

LEMMA ThreadInv == IInv /\ Thread => IInv'
<1> SUFFICES ASSUME IInv, Thread PROVE IInv'
  OBVIOUS
<1> USE DEF mainThread, kernel, history, handshake, lists
<1>0. TypeOK /\ Handover
  BY DEF IInv
<1>1. CASE CheckInterruption
  <2>1. TypeOK'
    BY <1>0, <1>1 DEF CheckInterruption, TypeOK
  <2>2. Handover'
    BY <1>0, <1>1 DEF CheckInterruption, Handover
  <2> QED BY <2>1, <2>2 DEF IInv
<1>2. CASE Lock
  <2>1. CASE committed # None
    <3>1. Section({"flip"})
      BY <1>0, <1>2, <2>1, GotoSection DEF Lock
    <3> QED BY <1>0, <1>2, <3>1, SectionInv DEF Lock, Section, TypeOK
  <2>2. CASE committed = None /\ commits = <<>>
    <3>1. Section({"idle"})
      BY <1>0, <1>2, <2>2, GotoSection DEF Lock
    <3> QED BY <1>0, <1>2, <3>1, SectionInv DEF Lock, Section, TypeOK
  <2>3. CASE committed = None /\ commits # <<>>
    <3>1. Section({"check", "sleep", "delay", "submit"})
      BY <1>0, <1>2, <2>3, ProceedSection DEF Lock
    <3> QED BY <1>0, <1>2, <2>3, <3>1, SectionInv DEF Lock, Section, TypeOK
  <2> QED BY <2>1, <2>2, <2>3
<1>3. CASE WakeIdle
  <2>1. CASE committed # None
    <3>1. Section({"check"})
      BY <1>0, <1>3, <2>1, GotoSection DEF WakeIdle
    <3> QED BY <1>0, <1>3, <3>1, SectionInv DEF WakeIdle, Section, TypeOK
  <2>2. CASE committed = None
    <3>1. Section({"check", "sleep", "delay", "submit"})
      BY <1>0, <1>3, <2>2, ProceedSection DEF WakeIdle
    <3> QED BY <1>0, <1>3, <2>2, <3>1, SectionInv DEF WakeIdle, Section, TypeOK
  <2> QED BY <2>1, <2>2
<1>4. ASSUME NEW timeout \in BOOLEAN, WakeFlip(timeout)
      PROVE  IInv'
  <2>0. /\ pc # "exited" /\ woken' \in BOOLEAN
        /\ UNCHANGED <<mainThread, kernel, added, newest, failures>>
    BY <1>4 DEF WakeFlip
  <2>t. /\ flipped \in BOOLEAN /\ ping \in BOOLEAN /\ timeoutDetected \in BOOLEAN
        /\ queued \in SUBSET {"clearDroppedCommits", "handlePing"}
    BY <1>0 DEF TypeOK
  <2>1. CASE committed = None
    <3>1. Section({"check", "sleep", "delay", "submit"})
      BY <1>0, <1>4, <2>1, ProceedSection DEF WakeFlip
    <3>2. UNCHANGED <<handshake, flipped>>
      BY <1>4, <2>1 DEF WakeFlip
    <3> QED BY <2>0, <2>t, <2>1, <3>1, <3>2, SectionInv DEF Section
  <2>2. CASE committed # None /\ ~timeout
    <3>1. Section({"check"})
      BY <1>0, <1>4, <2>2, GotoSection DEF WakeFlip
    <3>2. UNCHANGED <<handshake, flipped>>
      BY <1>4, <2>2 DEF WakeFlip
    <3> QED BY <2>0, <2>t, <3>1, <3>2, SectionInv DEF Section
  <2>3. CASE committed # None /\ timeout
    <3>1. Section({"pong"})
      BY <1>0, <1>4, <2>3, GotoSection DEF WakeFlip
    <3>2. /\ ping' = FALSE /\ queued' = queued \cup {"handlePing"}
          /\ flipped' = (flip = "event") /\ UNCHANGED timeoutDetected
      BY <1>4, <2>3 DEF WakeFlip
    <3>3. flipped' \in BOOLEAN
      BY <3>2
    <3> QED BY <2>0, <2>t, <3>1, <3>2, <3>3, SectionInv DEF Section
  <2> QED BY <2>1, <2>2, <2>3
<1>5. CASE WakePong
  <2>1. TypeOK'
    BY <1>0, <1>5 DEF WakePong, TypeOK
  <2>2. Handover'
    BY <1>0, <1>5 DEF WakePong, Handover
  <2> QED BY <2>1, <2>2 DEF IInv
<1>6. CASE WakeSleep
  <2>1. CASE commits = <<>>
    <3>1. Section({"check"})
      BY <1>0, <1>6, <2>1, GotoSection DEF WakeSleep
    <3> QED BY <1>0, <1>6, <3>1, SectionInv DEF WakeSleep, Section, TypeOK
  <2>2. CASE commits # <<>>
    <3>1. Section({"delay", "submit", "check"})
      BY <1>0, <1>6, <2>2, OptimizeSection DEF WakeSleep
    <3> QED BY <1>0, <1>6, <3>1, SectionInv DEF WakeSleep, Section, TypeOK, Handover
  <2> QED BY <2>1, <2>2
<1>7. ASSUME NEW timeout \in BOOLEAN, WakeDelay(timeout)
      PROVE  IInv'
  <2>1. commits # <<>> /\ committed = None
    BY <1>0, <1>7 DEF WakeDelay, Handover
  <2>2. /\ commits' \in Seq(CommitObjects(1..added)) /\ commits' # <<>>
        /\ toDelete' \in SUBSET CommitObjects(1..added)
    <3>1. CASE OptimizeCommits
      BY <1>0, <2>1, <3>1, OptimizeType DEF TypeOK
    <3>2. CASE UNCHANGED <<commits, toDelete>>
      BY <1>0, <2>1, <3>2 DEF TypeOK
    <3> QED BY <1>7, <3>1, <3>2 DEF WakeDelay
  <2>3. Section({"check", "submit"})
    BY <1>0, <1>7, <2>2 DEF WakeDelay, Section, TypeOK
  <2> QED BY <1>0, <1>7, <2>1, <2>3, SectionInv DEF WakeDelay, Section, TypeOK
<1>8. CASE SubmitSucceeds
  <2> DEFINE X == CommitObjects(1..added)
             c == Head(commits)
  <2>1. commits # <<>> /\ committed = None /\ main # "gone"
    BY <1>0, <1>8 DEF SubmitSucceeds, Handover
  <2>2. commits \in Seq(X)
    BY <1>0 DEF TypeOK
  <2>3. c \in X /\ Tail(commits) \in Seq(X)
    BY <2>1, <2>2, HeadTailProperties
  <2>4. X \subseteq CommitObjects(Nat)
    BY <1>0 DEF TypeOK, CommitObjects
  <2>5. c # None
    BY <2>3, <2>4, NoneAssumption
  <2>6. c.shows \in [Modified(c) -> 1..added]
    BY <2>3 DEF CommitObjects, Modified
  <2>7. screen' \in [Planes -> 0..added]
    BY <1>0, <1>8, <2>6 DEF SubmitSucceeds, TypeOK
  <2> HIDE DEF X
  <2>8. commits' \in Seq(X) /\ committed' \in X
    BY <1>8, <2>3 DEF SubmitSucceeds
  <2> HIDE DEF c
  <2>9. TypeOK'
    BY <1>0, <1>8, <2>7, <2>8 DEF SubmitSucceeds, TypeOK, X
  <2>10. Handover'
    BY <1>0, <1>8, <2>1, <2>5 DEF SubmitSucceeds, Handover, c
  <2> QED BY <2>9, <2>10 DEF IInv
<1>9. CASE SubmitFails
  <2> DEFINE X == CommitObjects(1..added)
  <2>1. commits \in Seq(X) /\ toDelete \in SUBSET X
    BY <1>0 DEF TypeOK
  <2>2. MergeAll(commits) \in X
    BY <2>1, MergeAllType
  <2>3. Elements(commits) \in SUBSET X
    BY <2>1, ElementsType
  <2> HIDE DEF X
  <2>4. <<MergeAll(commits)>> \in Seq(X) /\ <<>> \in Seq(X)
    BY <2>2
  <2>5. commits' \in Seq(X) /\ toDelete' \in SUBSET X
    BY <1>9, <2>1, <2>3, <2>4 DEF SubmitFails
  <2>6. queued' \in SUBSET {"clearDroppedCommits", "handlePing"} /\ failures' \in Nat
    <3>1. queued' = queued \/ queued' = queued \cup {"clearDroppedCommits"}
      BY <1>9 DEF SubmitFails
    <3>2. failures' = failures + 1
      BY <1>9 DEF SubmitFails
    <3>3. failures' \in Nat
      BY <1>0, <3>2 DEF TypeOK
    <3>4. queued' \in SUBSET {"clearDroppedCommits", "handlePing"}
      BY <1>0, <3>1 DEF TypeOK
    <3> QED BY <3>3, <3>4
  <2>7. pc' \in {"submit", "check"}
    BY <1>9 DEF SubmitFails
  <2>8. TypeOK'
    BY <1>0, <1>9, <2>5, <2>6, <2>7 DEF SubmitFails, TypeOK, X
  <2>9. Handover'
    BY <1>0, <1>9 DEF SubmitFails, Handover
  <2> QED BY <2>8, <2>9 DEF IInv
<1> QED BY <1>1, <1>2, <1>3, <1>4, <1>5, <1>6, <1>7, <1>8, <1>9 DEF Thread

LEMMA CommitObjectsMonotonic ==
    ASSUME NEW A, NEW B, A \subseteq B
    PROVE  CommitObjects(A) \subseteq CommitObjects(B)
<1> SUFFICES ASSUME NEW d \in CommitObjects(A)
             PROVE  d \in CommitObjects(B)
  OBVIOUS
<1>1. PICK T \in SUBSET Planes : d.shows \in [T -> A]
  BY DEF CommitObjects
<1>2. d.shows \in [T -> B]
  BY <1>1
<1>3. d = [shows |-> d.shows, targets |-> d.targets] /\ d.targets \in SUBSET B
  BY DEF CommitObjects
<1> QED BY <1>2, <1>3 DEF CommitObjects

LEMMA MainInv ==
    IInv /\ (EventLoop \/ Destroy \/ \E S \in SUBSET Planes \ {{}}, framed \in BOOLEAN : AddCommit(S, framed)) => IInv'
<1> SUFFICES ASSUME IInv,
                    EventLoop \/ Destroy \/ \E S \in SUBSET Planes \ {{}}, framed \in BOOLEAN : AddCommit(S, framed)
             PROVE  IInv'
  OBVIOUS
<1> USE DEF mainThread, kernel, history, handshake, lists, thread
<1>0. TypeOK /\ Handover
  BY DEF IInv
<1>1. ASSUME PageFlipped, main = "running", queued' \in SUBSET queued,
             main' \in {"running", "ponging"}
      PROVE  IInv'
  <2>1. woken' \in BOOLEAN
    BY <1>0, <1>1 DEF PageFlipped, NotifyPending, TypeOK
  <2>2. due' \in SUBSET (1..added)
    <3>1. commits' \in Seq(CommitObjects(1..added)) /\ {} \in SUBSET (1..added)
      BY <1>0, <1>1 DEF PageFlipped, TypeOK
    <3>2. due' = due \/ MoveTarget({})
      BY <1>1 DEF PageFlipped
    <3> QED BY <1>0, <3>1, <3>2, TargetMoves DEF TypeOK
  <2>3. TypeOK'
    BY <1>0, <1>1, <2>1, <2>2 DEF PageFlipped, TypeOK
  <2>4. Handover'
    BY <1>0, <1>1 DEF PageFlipped, Handover
  <2> QED BY <2>3, <2>4 DEF IInv
<1>2. CASE DispatchEvents
  BY <1>1, <1>2 DEF DispatchEvents
<1>3. CASE ClearDroppedCommits
  <2>1. TypeOK'
    BY <1>0, <1>3 DEF ClearDroppedCommits, TypeOK
  <2>2. Handover'
    BY <1>0, <1>3 DEF ClearDroppedCommits, Handover
  <2> QED BY <2>1, <2>2 DEF IInv
<1>4. CASE HandlePing
  <2>1. CASE flip = "event"
    BY <1>1, <1>4, <2>1 DEF HandlePing
  <2>2. CASE flip # "event"
    <3>1. TypeOK'
      BY <1>0, <1>4, <2>2 DEF HandlePing, TypeOK
    <3>2. Handover'
      BY <1>0, <1>4, <2>2 DEF HandlePing, Handover
    <3> QED BY <3>1, <3>2 DEF IInv
  <2> QED BY <2>1, <2>2
<1>5. CASE Pong
  <2>1. TypeOK'
    BY <1>0, <1>5 DEF Pong, TypeOK
  <2>2. Handover'
    BY <1>0, <1>5 DEF Pong, Handover
  <2> QED BY <2>1, <2>2 DEF IInv
<1>6. CASE Join
  <2>1. TypeOK'
    BY <1>0, <1>6 DEF Join, TypeOK
  <2>2. Handover'
    BY <1>0, <1>6 DEF Join, Handover
  <2> QED BY <2>1, <2>2 DEF IInv
<1>7. CASE Destroy
  <2>1. TypeOK'
    BY <1>0, <1>7 DEF Destroy, NotifyPending, TypeOK
  <2>2. Handover'
    BY <1>0, <1>7 DEF Destroy, Handover
  <2> QED BY <2>1, <2>2 DEF IInv
<1>8. ASSUME NEW S \in SUBSET Planes \ {{}}, NEW framed \in BOOLEAN, AddCommit(S, framed)
      PROVE  IInv'
  <2> DEFINE X == CommitObjects(1..added)
             Y == CommitObjects(1..added')
             c == Commit(added', S, framed)
  <2>1. added' = added + 1 /\ added \in Nat /\ 1..added \subseteq 1..added' /\ added' \in 1..added'
    BY <1>0, <1>8 DEF AddCommit, TypeOK
  <2>2. X \subseteq Y
    BY <2>1, CommitObjectsMonotonic
  <2>3. c \in Y
    <3>1. [p \in S |-> added'] \in [S -> 1..added']
      BY <2>1
    <3> QED BY <2>1, <3>1 DEF Commit, CommitObjects
  <2>4. commits \in Seq(X) /\ toDelete \in SUBSET X /\ committed \in X \cup {None}
    BY <1>0 DEF TypeOK
  <2> HIDE DEF X, Y, c
  <2>5. commits \in Seq(Y)
    BY <2>2, <2>4, SeqMonotonic
  <2>6. commits' = Append(commits, c)
    BY <1>8 DEF AddCommit, c
  <2>7. commits' \in Seq(Y) /\ commits' # <<>>
    BY <2>3, <2>5, <2>6, AppendProperties
  <2>8. toDelete' \in SUBSET Y /\ committed' \in Y \cup {None}
    BY <1>8, <2>2, <2>4 DEF AddCommit
  <2>9. woken' \in BOOLEAN /\ due' \in SUBSET (1..added')
    <3>1. due \in SUBSET (1..added') /\ {} \in SUBSET (1..added')
      BY <1>0, <2>1 DEF TypeOK
    <3>2. MoveTarget({}) /\ woken' \in BOOLEAN
      BY <1>0, <1>8 DEF AddCommit, NotifyPending, TypeOK
    <3> QED BY <2>7, <3>1, <3>2, TargetMoves DEF Y
  <2>10. /\ newest' \in [Planes -> 0..added'] /\ screen' \in [Planes -> 0..added']
         /\ readable' \in SUBSET (1..added')
    BY <1>0, <1>8, <2>1 DEF AddCommit, TypeOK
  <2>11. TypeOK'
    BY <1>0, <1>8, <2>1, <2>7, <2>8, <2>9, <2>10 DEF AddCommit, TypeOK, Y
  <2>12. Handover'
    BY <1>0, <1>8, <2>7 DEF AddCommit, Handover
  <2> QED BY <2>11, <2>12 DEF IInv
<1> QED BY <1>2, <1>3, <1>4, <1>5, <1>6, <1>7, <1>8 DEF EventLoop

LEMMA NextInv == IInv /\ [Next]_vars => IInv'
<1> SUFFICES ASSUME IInv, [Next]_vars PROVE IInv'
  OBVIOUS
<1> USE DEF mainThread, kernel, history, handshake, lists, thread
<1>0. TypeOK /\ Handover
  BY DEF IInv
<1>1. CASE Thread
  BY <1>1, ThreadInv
<1>2. CASE EventLoop \/ Destroy \/ \E S \in SUBSET Planes \ {{}}, framed \in BOOLEAN : AddCommit(S, framed)
  BY <1>2, MainInv
<1>3. CASE SpuriousWakeup
  <2>1. TypeOK'
    BY <1>0, <1>3 DEF SpuriousWakeup, TypeOK
  <2>2. Handover'
    BY <1>0, <1>3 DEF SpuriousWakeup, Handover
  <2> QED BY <2>1, <2>2 DEF IInv
<1>4. ASSUME NEW id \in 1..MaxCommits, BuffersReadable(id)
      PROVE  IInv'
  <2>1. TypeOK'
    BY <1>0, <1>4 DEF BuffersReadable, TypeOK
  <2>2. Handover'
    BY <1>0, <1>4 DEF BuffersReadable, Handover
  <2> QED BY <2>1, <2>2 DEF IInv
<1>5. CASE FlipDone
  <2>1. TypeOK'
    BY <1>0, <1>5 DEF FlipDone, TypeOK
  <2>2. Handover'
    BY <1>0, <1>5 DEF FlipDone, Handover
  <2> QED BY <2>1, <2>2 DEF IInv
<1>6. CASE UNCHANGED vars
  <2>1. TypeOK'
    BY <1>0, <1>6 DEF vars, TypeOK
  <2>2. Handover'
    BY <1>0, <1>6 DEF vars, Handover
  <2> QED BY <2>1, <2>2 DEF IInv
<1> QED BY <1>1, <1>2, <1>3, <1>4, <1>5, <1>6 DEF Next

LEMMA Invariance == Spec => []IInv
BY InitInv, NextInv, PTL DEF Spec

\* Every commit in m_commits, m_committed and m_commitsToDelete is well-formed
\* and shows only contents that have been added, whatever optimizeCommits and
\* submit make of them.
THEOREM TypeCorrect == Spec => []TypeOK
<1>1. IInv => TypeOK
  BY DEF IInv
<1> QED BY <1>1, Invariance, PTL

\* submit never runs while the kernel has a page flip outstanding, nor without
\* a commit to submit.
THEOREM NeverBusyHolds == Spec => []NeverBusy
<1>1. IInv => NeverBusy
  BY DEF IInv, Handover, NeverBusy
<1> QED BY <1>1, Invariance, PTL

------------------------------------------------------------------------------
(* The ping: why a reported timeout means that the page flip had not come.  *)

\* A ping is answered once, while the thread waits for the answer; when it is,
\* the event that was there as the thread asked has been processed.
Asking ==
    main \in {"running", "ponging"} =>
        /\ "handlePing" \in queued => pc = "pong" /\ ~ping /\ main = "running"
        /\ main = "ponging" => pc = "pong" /\ ~ping
        /\ pc = "pong" /\ flipped /\ committed # None =>
               flip = "event" /\ ~ping /\ main = "running"

LEMMA AskingNext ==
    ASSUME TypeOK, Asking, [Next]_vars
    PROVE  Asking'
<1> USE DEF mainThread, kernel, history, handshake, lists, thread, Asking
<1>1. CASE CheckInterruption
  BY <1>1 DEF CheckInterruption
<1> DEFINE Unasked == UNCHANGED <<handshake, mainThread, kernel, history>>
<1>2. ASSUME pc # "pong", pc' # "pong", Unasked
      PROVE  Asking'
  BY <1>2
<1>3. ASSUME Proceed
      PROVE  pc' # "pong"
  BY <1>3 DEF Proceed, Goto, Optimize
<1>4. CASE Lock
  BY <1>2, <1>3, <1>4 DEF Lock, Goto
<1>5. CASE WakeIdle
  BY <1>2, <1>3, <1>5 DEF WakeIdle, Goto
<1>6. ASSUME NEW timeout \in BOOLEAN, WakeFlip(timeout)
      PROVE  Asking'
  <2>1. CASE committed = None \/ ~timeout
    BY <1>2, <1>3, <1>6, <2>1 DEF WakeFlip, Goto
  <2>2. CASE committed # None /\ timeout
    <3>1. /\ pc = "flip" /\ pc' = "pong" /\ ping' = FALSE
          /\ flipped' = (flip = "event")
          /\ UNCHANGED <<committed, flip, main>>
      BY <1>6, <2>2 DEF WakeFlip, Goto
    <3>2. main # "ponging"
      BY <3>1
    <3> QED BY <3>1, <3>2, <2>2
  <2> QED BY <2>1, <2>2
<1>7. CASE WakePong
  BY <1>7 DEF WakePong
<1>8. CASE WakeSleep
  BY <1>2, <1>8 DEF WakeSleep, Goto, Optimize
<1>9. ASSUME NEW timeout \in BOOLEAN, WakeDelay(timeout)
      PROVE  Asking'
  <2>1. pc = "delay" /\ pc' # "pong" /\ Unasked
    BY <1>9 DEF WakeDelay
  <2> QED BY <1>2, <2>1
<1>10. CASE SubmitSucceeds
  BY <1>10 DEF SubmitSucceeds
<1>11. CASE SubmitFails
  <2>1. /\ pc = "submit" /\ pc' \in {"submit", "check"}
        /\ queued' \in {queued, queued \cup {"clearDroppedCommits"}}
        /\ UNCHANGED main
    BY <1>11 DEF SubmitFails
  <2> QED BY <2>1
<1>12. CASE SpuriousWakeup
  BY <1>12 DEF SpuriousWakeup
<1>13. ASSUME NEW S \in SUBSET Planes \ {{}}, NEW framed \in BOOLEAN, AddCommit(S, framed)
       PROVE  Asking'
  BY <1>13 DEF AddCommit
<1>14. CASE EventLoop
  <2>1. CASE DispatchEvents
    BY <2>1 DEF DispatchEvents, PageFlipped
  <2>2. CASE ClearDroppedCommits
    BY <2>2 DEF ClearDroppedCommits
  <2>3. CASE HandlePing
    BY <2>3 DEF HandlePing, PageFlipped
  <2>4. CASE Pong
    BY <2>4 DEF Pong
  <2>5. CASE Join
    BY <2>5 DEF Join
  <2> QED BY <1>14, <2>1, <2>2, <2>3, <2>4, <2>5 DEF EventLoop
<1>15. CASE Destroy
  BY <1>15 DEF Destroy
<1>16. ASSUME NEW id \in 1..MaxCommits, BuffersReadable(id)
       PROVE  Asking'
  BY <1>16 DEF BuffersReadable
<1>17. CASE FlipDone
  BY <1>17 DEF FlipDone
<1>18. CASE UNCHANGED vars
  BY <1>18 DEF vars
<1>19. CASE Thread
  BY <1>1, <1>4, <1>5, <1>6, <1>7, <1>8, <1>9, <1>10, <1>11, <1>19 DEF Thread
<1> QED BY <1>12, <1>13, <1>14, <1>15, <1>16, <1>17, <1>18, <1>19 DEF Next

\* Only the answer to a ping can report a timeout.
LEMMA OnlyPongReports ==
    ASSUME TypeOK, Next, timeoutDetected', ~timeoutDetected
    PROVE  WakePong
<1> USE DEF mainThread, kernel, history, handshake, lists, thread
<1>1. ASSUME NEW timeout \in BOOLEAN, WakeFlip(timeout) \/ WakeDelay(timeout)
      PROVE  FALSE
  BY <1>1 DEF WakeFlip, WakeDelay
<1>2. CASE Thread
  BY <1>1, <1>2 DEF Thread, CheckInterruption, Lock, WakeIdle, WakeSleep,
                    SubmitSucceeds, SubmitFails
<1>3. CASE EventLoop
  BY <1>3 DEF EventLoop, DispatchEvents, PageFlipped, ClearDroppedCommits,
              HandlePing, Pong, Join
<1>4. CASE ~Thread /\ ~EventLoop
  BY <1>4 DEF Next, SpuriousWakeup, AddCommit, Destroy, BuffersReadable, FlipDone
<1> QED BY <1>2, <1>3, <1>4

\* A timeout of the page flip is reported only when its event had not come as
\* the thread asked the main thread.
THEOREM HonestTimeoutHolds == Spec => HonestTimeout
<1> DEFINE Honest == timeoutDetected' /\ ~timeoutDetected /\ main = "running" => ~flipped
<1>1. Init => Asking
  BY DEF Init, Asking
<1>2. TypeOK /\ Asking /\ [Next]_vars => Asking'
  BY AskingNext
<1>3. TypeOK /\ Asking /\ [Next]_vars => [Honest]_vars
  <2> SUFFICES ASSUME TypeOK, Asking, Next, timeoutDetected', ~timeoutDetected,
                      main = "running"
               PROVE  ~flipped
    OBVIOUS
  <2>1. WakePong
    BY OnlyPongReports
  <2> QED BY <2>1 DEF WakePong, Asking
<1>4. Spec => [][Honest]_vars
  <2> HIDE DEF Honest
  <2> QED BY <1>1, <1>2, <1>3, TypeCorrect, PTL DEF Spec
<1> QED BY <1>4 DEF HonestTimeout

------------------------------------------------------------------------------
(* From here on: the order of the contents of a plane, that the last one is *)
(* kept, that a buffer is shown only when it is readable, and that the      *)
(* queue with its passes implements the mailboxes of PlaneUpdates.          *)


------------------------------------------------------------------------------
(* Enumerations of sets of places                                           *)

\* An ascending enumeration of a set of places lists each of its members.
LEMMA AscendingOnto ==
    ASSUME NEW n \in Nat, NEW S \in SUBSET (1..n), NEW f \in Ascending(S)
    PROVE  /\ Cardinality(S) \in Nat
           /\ f \in [1..Cardinality(S) -> S]
           /\ \A i, j \in 1..Cardinality(S) : i < j => f[i] < f[j]
           /\ \A k \in S : \E i \in 1..Cardinality(S) : f[i] = k
<1> DEFINE m == Cardinality(S)
<1>1. IsFiniteSet(S)
  <2>1. IsFiniteSet(1..n)
    BY FS_Interval
  <2> QED BY <2>1, FS_Subset
<1>2. m \in Nat
  BY <1>1, FS_CardinalityType
<1>3. f \in [1..m -> S] /\ \A i, j \in 1..m : i < j => f[i] < f[j]
  BY DEF Ascending
<1>4. IsFiniteSet(1..m) /\ Cardinality(1..m) = m
  <2> HIDE DEF m
  <2> QED BY <1>2, FS_Interval
<1> HIDE DEF m
<1>5. \A i, j \in 1..m : f[i] = f[j] => i = j
  <2> SUFFICES ASSUME NEW i \in 1..m, NEW j \in 1..m, f[i] = f[j], i # j
               PROVE  FALSE
    OBVIOUS
  <2>0. S \subseteq Nat
    OBVIOUS
  <2>1. f[i] \in Nat /\ f[j] \in Nat
    BY <1>3, <2>0
  <2>2. i < j \/ j < i
    BY <1>2
  <2> QED BY <1>3, <2>1, <2>2
<1>6. f \in Injection(1..m, S)
  BY <1>3, <1>5 DEF Injection, IsInjective
<1>7. f \in Surjection(1..m, S)
  BY <1>1, <1>4, <1>6, FS_Injection DEF m
<1>8. \A k \in S : \E i \in 1..m : f[i] = k
  BY <1>7 DEF Surjection
<1> QED BY <1>2, <1>3, <1>8 DEF m

------------------------------------------------------------------------------
(* What a pass does to the contents of the planes                           *)

\* c is what the commits at the places G of cs leave, one on top of the other.
MergedFrom(c, cs, G) ==
    /\ \A k \in G : Modified(cs[k]) \subseteq Modified(c)
    /\ \A p \in Modified(c) :
          \E k \in G : /\ p \in Modified(cs[k]) /\ c.shows[p] = cs[k].shows[p]
                       /\ \A j \in G : p \in Modified(cs[j]) => j <= k

\* mergeCommits of the commits that e selects from cs.
LEMMA MergeAllOf ==
    ASSUME NEW ids, NEW cs, NEW s \in Seq(CommitObjects(ids)),
           NEW e \in [DOMAIN s -> Nat],
           \A i, j \in DOMAIN s : i < j => e[i] < e[j],
           \A i \in DOMAIN s : s[i] = cs[e[i]],
           NEW G, \A i \in DOMAIN s : e[i] \in G, \A k \in G : \E i \in DOMAIN s : e[i] = k
    PROVE  MergedFrom(MergeAll(s), cs, G)
<1> DEFINE c == MergeAll(s)
           On == UNION {Modified(s[k]) : k \in DOMAIN s}
           shown == [p \in On |-> s[LastOn(s, p)].shows[p]]
<1>0. DOMAIN s \subseteq Nat
  BY LenProperties
<1>1. c = [shows |-> shown, targets |-> UNION {s[k].targets : k \in DOMAIN s}]
  BY DEF MergeAll
<1>2. Modified(c) = On /\ \A p \in On : c.shows[p] = s[LastOn(s, p)].shows[p]
  BY <1>1 DEF Modified
<1> HIDE DEF c
<1>3. ASSUME NEW k \in G
      PROVE  Modified(cs[k]) \subseteq Modified(c)
  BY <1>2
<1>4. ASSUME NEW p \in Modified(c)
      PROVE  \E k \in G : /\ p \in Modified(cs[k]) /\ c.shows[p] = cs[k].shows[p]
                          /\ \A j \in G : p \in Modified(cs[j]) => j <= k
  <2> DEFINE l == LastOn(s, p)
  <2>1. \E k \in DOMAIN s : p \in Modified(s[k])
    BY <1>2
  <2>2. /\ l \in DOMAIN s /\ p \in Modified(s[l])
        /\ \A j \in DOMAIN s : p \in Modified(s[j]) => j <= l
    BY <2>1, LastOnFound
  <2>3. c.shows[p] = s[l].shows[p]
    BY <1>2
  <2> HIDE DEF l
  <2>4. ASSUME NEW j \in DOMAIN s, p \in Modified(cs[e[j]])
        PROVE  e[j] <= e[l]
    <3>1. j <= l
      BY <2>2, <2>4
    <3>2. j = l \/ j < l
      BY <1>0, <2>2, <3>1
    <3> QED BY <2>2, <3>2
  <2>5. e[l] \in G /\ s[l] = cs[e[l]]
    BY <2>2
  <2>6. \A j \in G : p \in Modified(cs[j]) => j <= e[l]
    BY <2>4
  <2> QED BY <2>2, <2>3, <2>5, <2>6
<1>5. MergedFrom(c, cs, G)
  BY <1>3, <1>4 DEF MergedFrom
<1> QED BY <1>5 DEF c

\* The commits at the places S of cs, merged.
LEMMA MergeAllAt ==
    ASSUME NEW ids, NEW cs \in Seq(CommitObjects(ids)), NEW S \in SUBSET (1..Len(cs)),
           NEW s \in At(cs, S)
    PROVE  MergedFrom(MergeAll(s), cs, S) /\ Elements(s) = {cs[k] : k \in S}
<1>1. Len(cs) \in Nat /\ DOMAIN cs = 1..Len(cs)
  BY LenProperties
<1>2. PICK f \in Ascending(S) : s = [n \in DOMAIN f |-> cs[f[n]]]
  BY DEF At
<1>3. /\ f \in [1..Cardinality(S) -> S]
      /\ \A i, j \in 1..Cardinality(S) : i < j => f[i] < f[j]
      /\ \A k \in S : \E i \in 1..Cardinality(S) : f[i] = k
  BY <1>1, AscendingOnto
<1>4. s \in Seq(CommitObjects(ids)) /\ DOMAIN s = 1..Cardinality(S)
  BY <1>1, <1>2, <1>3, AtType
<1>5. f \in [DOMAIN s -> Nat]
  <2>1. S \subseteq Nat
    BY <1>1
  <2> QED BY <1>3, <1>4, <2>1
<1>6. \A i \in DOMAIN s : s[i] = cs[f[i]]
  BY <1>2, <1>3, <1>4
<1>7. MergedFrom(MergeAll(s), cs, S)
  <2>1. /\ \A i, j \in DOMAIN s : i < j => f[i] < f[j]
        /\ \A i \in DOMAIN s : f[i] \in S
        /\ \A k \in S : \E i \in DOMAIN s : f[i] = k
    BY <1>3, <1>4
  <2> QED BY <1>4, <1>5, <1>6, <2>1, MergeAllOf
<1>8. Elements(s) = {cs[k] : k \in S}
  <2>1. Elements(s) = {cs[f[i]] : i \in DOMAIN s}
    BY <1>6 DEF Elements
  <2>2. ASSUME NEW k \in S
        PROVE  \E i \in DOMAIN s : f[i] = k
    BY <1>3, <1>4
  <2>3. ASSUME NEW i \in DOMAIN s
        PROVE  f[i] \in S
    BY <1>3, <1>4
  <2> QED BY <2>1, <2>2, <2>3
<1> QED BY <1>7, <1>8

\* A run of consecutive commits of cs, merged.
LEMMA MergeAllRun ==
    ASSUME NEW ids, NEW cs \in Seq(CommitObjects(ids)),
           NEW a \in 1..Len(cs), NEW b \in a..Len(cs)
    PROVE  /\ MergedFrom(MergeAll(SubSeq(cs, a, b)), cs, a..b)
           /\ SubSeq(cs, a, b) \in Seq(CommitObjects(ids))
           /\ Len(SubSeq(cs, a, b)) = b - a + 1
           /\ Elements(SubSeq(cs, a, b)) = {cs[k] : k \in a..b}
           /\ a = b => MergeAll(SubSeq(cs, a, b)) = cs[a]
<1> DEFINE s == SubSeq(cs, a, b)
           e == [i \in 1..(b - a + 1) |-> a + i - 1]
           X == CommitObjects(ids)
<1>1. Len(cs) \in Nat /\ \A k \in 1..Len(cs) : cs[k] \in X
  BY LenProperties, ElementOfSeq
<1>2. /\ s \in Seq(X) /\ Len(s) = b - a + 1 /\ DOMAIN s = 1..(b - a + 1)
      /\ \A i \in 1..(b - a + 1) : s[i] = cs[a + i - 1]
  <2> HIDE DEF X
  <2>1. \A k \in a..b : cs[k] \in X
    BY <1>1
  <2> QED BY <1>1, <2>1, SubSeqProperties
<1>3. e \in [DOMAIN s -> Nat] /\ \A i \in DOMAIN s : s[i] = cs[e[i]]
  BY <1>1, <1>2
<1>4. \A i, j \in DOMAIN s : i < j => e[i] < e[j]
  BY <1>1, <1>2
<1>5. /\ \A i \in DOMAIN s : e[i] \in a..b
      /\ \A k \in a..b : \E i \in DOMAIN s : e[i] = k
  <2>1. ASSUME NEW k \in a..b
        PROVE  \E i \in DOMAIN s : e[i] = k
    <3>1. k - a + 1 \in DOMAIN s /\ e[k - a + 1] = k
      BY <1>1, <1>2
    <3> QED BY <3>1
  <2>2. ASSUME NEW i \in DOMAIN s
        PROVE  e[i] \in a..b
    <3>1. i \in 1..(b - a + 1) /\ e[i] = a + i - 1
      BY <1>2
    <3> HIDE DEF e
    <3> QED BY <1>1, <3>1
  <2> HIDE DEF e
  <2> QED BY <2>1, <2>2
<1> HIDE DEF e
<1>6. MergedFrom(MergeAll(s), cs, a..b)
  BY <1>2, <1>3, <1>4, <1>5, MergeAllOf
<1>7. Elements(s) = {cs[k] : k \in a..b}
  <2> HIDE DEF s
  <2>1. Elements(s) = {s[i] : i \in DOMAIN s}
    BY DEF Elements
  <2>2. \A i \in DOMAIN s : s[i] = cs[e[i]]
    BY <1>3
  <2>3. Elements(s) = {cs[e[i]] : i \in DOMAIN s}
    BY <2>1, <2>2
  <2> QED BY <2>3, <1>5
<1>8. ASSUME a = b
      PROVE  MergeAll(s) = cs[a]
  <2>1. Len(s) = 1 /\ s[1] = cs[a]
    BY <1>1, <1>2, <1>8
  <2>2. s = <<cs[a]>>
    <3> HIDE DEF s, X
    <3>1. <<cs[a]>> \in Seq(X) /\ Len(<<cs[a]>>) = 1 /\ <<cs[a]>>[1] = cs[a]
      BY <1>1
    <3>2. Len(s) = Len(<<cs[a]>>) /\ \A i \in 1..Len(s) : s[i] = <<cs[a]>>[i]
      BY <2>1, <3>1
    <3> QED BY <1>2, <3>1, <3>2, SeqEqual
  <2> QED BY <1>1, <2>2, MergeAllOfOne
<1> QED BY <1>2, <1>6, <1>7, <1>8

\* The commits cs show the contents of each plane in the order they were added.
Ordered(cs) ==
    \A p \in Planes : \A j, k \in DOMAIN cs :
        j < k /\ p \in Modified(cs[j]) /\ p \in Modified(cs[k])
            => cs[j].shows[p] < cs[k].shows[p]

\* Replacing the commits old by new keeps that order and the last content of
\* each plane, and brings no content back.
Arranged(old, new) ==
    /\ \A p \in Planes : Contents(new, p) \subseteq Contents(old, p)
    /\ Ordered(old) =>
          /\ Ordered(new)
          /\ \A p \in Planes :
                \A x \in Contents(old, p) : \E y \in Contents(new, p) : x <= y

\* A member of Contents.
LEMMA ContentsMember ==
    ASSUME NEW ids \in SUBSET Nat, NEW cs \in Seq(CommitObjects(ids)), NEW p
    PROVE  /\ \A k \in DOMAIN cs : /\ Modified(cs[k]) \subseteq Planes
                                   /\ p \in Modified(cs[k]) =>
                                         cs[k].shows[p] \in Nat /\ cs[k].shows[p] \in Contents(cs, p)
           /\ \A x \in Contents(cs, p) :
                 x \in ids /\ \E k \in DOMAIN cs : p \in Modified(cs[k]) /\ cs[k].shows[p] = x
<1>1. \A k \in DOMAIN cs : cs[k] \in CommitObjects(ids)
  BY LenProperties, ElementOfSeq
<1>2. \A c \in CommitObjects(ids) : Modified(c) \subseteq Planes /\ c.shows \in [Modified(c) -> ids]
  BY DEF CommitObjects, Modified
<1>3. \A k \in DOMAIN cs : p \in Modified(cs[k]) => cs[k].shows[p] \in ids
  BY <1>1, <1>2
<1> QED BY <1>1, <1>2, <1>3 DEF Contents

\* Commits are grouped, each group is merged into one, and groups with a common
\* plane keep their order: this keeps the contents arranged.
LEMMA Grouping ==
    ASSUME NEW ids \in SUBSET Nat,
           NEW old \in Seq(CommitObjects(ids)), NEW new \in Seq(CommitObjects(ids)),
           NEW G \in [DOMAIN new -> SUBSET DOMAIN old],
           \A n \in DOMAIN new : MergedFrom(new[n], old, G[n]),
           \A k \in DOMAIN old : \E n \in DOMAIN new : k \in G[n],
           \A n, m \in DOMAIN new : n < m =>
               \A k \in G[n], j \in G[m] :
                   Modified(old[k]) \cap Modified(old[j]) # {} => k < j
    PROVE  Arranged(old, new)
<1>0. DOMAIN old \subseteq Nat /\ DOMAIN new \subseteq Nat
  BY LenProperties
<1>1. ASSUME NEW n \in DOMAIN new, NEW p \in Modified(new[n])
      PROVE  \E k \in G[n] : /\ k \in DOMAIN old /\ p \in Modified(old[k])
                             /\ new[n].shows[p] = old[k].shows[p]
                             /\ \A j \in G[n] : p \in Modified(old[j]) => j <= k
  BY DEF MergedFrom
<1>2. ASSUME NEW p \in Planes, NEW x \in Contents(new, p)
      PROVE  x \in Contents(old, p)
  <2>1. PICK n \in DOMAIN new : p \in Modified(new[n]) /\ new[n].shows[p] = x
    BY ContentsMember
  <2>2. PICK k \in G[n] : /\ k \in DOMAIN old /\ p \in Modified(old[k])
                          /\ new[n].shows[p] = old[k].shows[p]
    <3>1. p \in Modified(new[n])
      BY <2>1
    <3> QED BY <1>1, <3>1
  <2> QED BY <2>1, <2>2, ContentsMember
<1>3. ASSUME Ordered(old)
      PROVE  Ordered(new)
  <2> SUFFICES ASSUME NEW p \in Planes, NEW n \in DOMAIN new, NEW m \in DOMAIN new,
                      n < m, p \in Modified(new[n]), p \in Modified(new[m])
               PROVE  new[n].shows[p] < new[m].shows[p]
    BY DEF Ordered
  <2>1. PICK k \in G[n] : /\ k \in DOMAIN old /\ p \in Modified(old[k])
                          /\ new[n].shows[p] = old[k].shows[p]
    BY <1>1
  <2>2. PICK j \in G[m] : /\ j \in DOMAIN old /\ p \in Modified(old[j])
                          /\ new[m].shows[p] = old[j].shows[p]
    BY <1>1
  <2>3. k < j
    BY <2>1, <2>2
  <2> QED BY <1>3, <2>1, <2>2, <2>3 DEF Ordered
<1>4. ASSUME Ordered(old), NEW p \in Planes, NEW x \in Contents(old, p)
      PROVE  \E y \in Contents(new, p) : x <= y
  <2>1. PICK j \in DOMAIN old : p \in Modified(old[j]) /\ old[j].shows[p] = x
    BY ContentsMember
  <2>2. PICK n \in DOMAIN new : j \in G[n]
    OBVIOUS
  <2>3. p \in Modified(new[n])
    BY <2>1, <2>2 DEF MergedFrom
  <2>4. PICK k \in G[n] : /\ k \in DOMAIN old /\ p \in Modified(old[k])
                          /\ new[n].shows[p] = old[k].shows[p]
                          /\ j <= k
    BY <1>1, <2>1, <2>2, <2>3
  <2>5. x \in Nat /\ old[k].shows[p] \in Nat
    BY <2>1, <2>4, ContentsMember
  <2>6. x <= old[k].shows[p]
    <3>1. CASE j = k
      BY <2>1, <2>5, <3>1
    <3>2. CASE j < k
      BY <1>4, <2>1, <2>4, <2>5, <3>2 DEF Ordered
    <3> QED BY <1>0, <2>4, <3>1, <3>2
  <2>7. new[n].shows[p] \in Contents(new, p)
    BY <2>3, ContentsMember
  <2> QED BY <2>4, <2>6, <2>7
<1> QED BY <1>2, <1>3, <1>4 DEF Arranged

\* A merged commit is readable if the commits it is merged from are.
LEMMA MergedReadable ==
    ASSUME NEW c, NEW cs, NEW G, MergedFrom(c, cs, G), \A k \in G : Readable(cs[k])
    PROVE  Readable(c)
BY DEF MergedFrom, Readable

LEMMA MergedFromOne ==
    ASSUME NEW cs, NEW k \in Nat
    PROVE  MergedFrom(cs[k], cs, {k})
BY DEF MergedFrom

\* What a pass of optimizeCommits, that replaces the commits old by new and
\* leaves some to delete, has to guarantee: besides the above, that the first
\* commit stays readable and that no commit is lost.
Pass(old, new, deleted) ==
    /\ Arranged(old, new)
    /\ Readable(old[1]) => Readable(new[1])
    /\ Elements(old) \subseteq Elements(new) \cup deleted

LEMMA PassTransitive ==
    ASSUME NEW ids \in SUBSET Nat,
           NEW a \in Seq(CommitObjects(ids)), NEW b \in Seq(CommitObjects(ids)),
           NEW c \in Seq(CommitObjects(ids)),
           NEW d, NEW e, Pass(a, b, d), Pass(b, c, e)
    PROVE  Pass(a, c, d \cup e)
<1>1. \A p \in Planes : Contents(c, p) \subseteq Contents(a, p)
  BY DEF Pass, Arranged
<1>2. ASSUME Ordered(a), NEW p \in Planes, NEW x \in Contents(a, p)
      PROVE  \E y \in Contents(c, p) : x <= y
  <2>1. PICK z \in Contents(b, p) : x <= z
    BY <1>2 DEF Pass, Arranged
  <2>2. Ordered(b)
    BY <1>2 DEF Pass, Arranged
  <2>3. PICK y \in Contents(c, p) : z <= y
    BY <2>2 DEF Pass, Arranged
  <2>4. x \in Nat /\ z \in Nat /\ y \in Nat
    BY ContentsMember
  <2> QED BY <2>1, <2>3, <2>4
<1>3. Arranged(a, c)
  BY <1>1, <1>2 DEF Pass, Arranged
<1>4. Elements(a) \subseteq Elements(c) \cup (d \cup e)
  BY DEF Pass
<1> QED BY <1>3, <1>4 DEF Pass

LEMMA PassNothing ==
    ASSUME NEW ids \in SUBSET Nat, NEW cs \in Seq(CommitObjects(ids))
    PROVE  Pass(cs, cs, {})
<1>1. \A p \in Planes : \A x \in Contents(cs, p) : x \in Nat /\ x <= x
  BY ContentsMember
<1> QED BY <1>1 DEF Pass, Arranged

------------------------------------------------------------------------------
(* The passes of optimizeCommits                                            *)

\* "merge commits in the front that are already ready"
LEMMA MergeFrontPass ==
    ASSUME NEW ids \in SUBSET Nat, NEW cs \in Seq(CommitObjects(ids)), cs # <<>>,
           NEW r \in MergeFront(cs)
    PROVE  Pass(cs, r.list, r.deleted)
<1> DEFINE X == CommitObjects(ids)
           L == Len(cs)
<1>1. PICK j \in 1..L :
          /\ j > 1 => Readable(cs[1])
          /\ \A k \in 2..j : Ready(cs[k])
          /\ r = Result(<<MergeAll(SubSeq(cs, 1, j))>> \o SubSeq(cs, j + 1, L),
                        Replaced(SubSeq(cs, 1, j)))
  BY DEF MergeFront
<1> DEFINE c == MergeAll(SubSeq(cs, 1, j))
           rest == SubSeq(cs, j + 1, L)
           new == <<c>> \o rest
           G == [n \in 1..(L - j + 1) |-> IF n = 1 THEN 1..j ELSE {j + n - 1}]
<1>2. L \in Nat /\ j \in Nat /\ 1 <= j /\ j <= L /\ DOMAIN cs = 1..L /\ \A k \in 1..L : cs[k] \in X
  BY <1>1, ElementOfSeq, LenProperties
<1>3. /\ MergedFrom(c, cs, 1..j) /\ Len(SubSeq(cs, 1, j)) = j
      /\ Elements(SubSeq(cs, 1, j)) = {cs[k] : k \in 1..j}
      /\ j = 1 => c = cs[1]
  <2>1. 1 \in 1..L /\ j \in 1..L
    BY <1>2
  <2> QED BY <1>2, <2>1, MergeAllRun
<1>4. c \in X
  <2>1. SubSeq(cs, 1, j) \in Seq(X)
    BY <1>2, MergeAllRun
  <2> QED BY <2>1, MergeAllType
<1> HIDE DEF X, c
<1>5. /\ rest \in Seq(X) /\ Len(rest) = L - j
      /\ \A n \in 1..(L - j) : rest[n] = cs[j + n]
  <2>1. j + 1 \in Int /\ L \in Int /\ \A i \in (j + 1)..L : cs[i] \in X
    BY <1>2
  <2> HIDE DEF L
  <2>2. /\ rest \in Seq(X)
        /\ Len(rest) = IF j + 1 <= L THEN L - (j + 1) + 1 ELSE 0
        /\ \A n \in 1..(L - (j + 1) + 1) : rest[n] = cs[j + 1 + n - 1]
    BY <2>1, SubSeqProperties
  <2> HIDE DEF rest
  <2>3. Len(rest) = L - j
    BY <1>2, <2>2
  <2>4. ASSUME NEW n \in 1..(L - j)
        PROVE  rest[n] = cs[j + n]
    <3>1. n \in 1..(L - (j + 1) + 1) /\ j + 1 + n - 1 = j + n
      BY <1>2
    <3> QED BY <2>2, <3>1
  <2> QED BY <2>2, <2>3, <2>4
<1> HIDE DEF rest
<1>6. /\ new \in Seq(X) /\ Len(new) = L - j + 1 /\ DOMAIN new = 1..(L - j + 1)
      /\ new[1] = c /\ \A n \in 2..(L - j + 1) : new[n] = cs[j + n - 1]
  <2>1. <<c>> \in Seq(X) /\ Len(<<c>>) = 1
    BY <1>4
  <2>2. new \in Seq(X) /\ Len(new) = 1 + Len(rest)
    BY <1>5, <2>1, ConcatProperties
  <2>3. new[1] = c
    BY <1>2, <1>5, <2>1, ConcatProperties
  <2>4. ASSUME NEW n \in 2..(L - j + 1)
        PROVE  new[n] = cs[j + n - 1]
    <3>1. new[n] = rest[n - 1]
      BY <1>2, <1>5, <2>1, ConcatProperties
    <3>2. n - 1 \in 1..(L - j) /\ j + (n - 1) = j + n - 1
      BY <1>2
    <3> QED BY <1>5, <3>1, <3>2
  <2> HIDE DEF new
  <2>5. Len(new) = L - j + 1 /\ DOMAIN new = 1..(L - j + 1)
    BY <1>2, <1>5, <2>2, LenProperties
  <2> QED BY <2>2, <2>3, <2>4, <2>5
<1>7. r.list = new /\ r.deleted = Replaced(SubSeq(cs, 1, j))
  BY <1>1 DEF Result, c, rest
<1> HIDE DEF new, L
<1>8. Arranged(cs, new)
  <2>1. G \in [DOMAIN new -> SUBSET DOMAIN cs]
    BY <1>2, <1>6
  <2>2. \A n \in DOMAIN new : MergedFrom(new[n], cs, G[n])
    <3> TAKE n \in DOMAIN new
    <3>1. CASE n = 1
      BY <1>3, <1>6, <3>1
    <3>2. CASE n # 1
      <4>1. G[n] = {j + n - 1} /\ new[n] = cs[j + n - 1] /\ j + n - 1 \in Nat
        BY <1>2, <1>6, <3>2
      <4> QED BY <4>1, MergedFromOne
    <3> QED BY <3>1, <3>2
  <2>3. \A k \in DOMAIN cs : \E n \in DOMAIN new : k \in G[n]
    <3> TAKE k \in DOMAIN cs
    <3>0. k \in 1..L
      BY <1>2
    <3>1. CASE k <= j
      <4>1. 1 \in DOMAIN new /\ k \in G[1]
        BY <1>2, <1>6, <3>1
      <4> QED BY <4>1
    <3>2. CASE k > j
      <4>1. k - j + 1 \in 1..(L - j + 1) /\ k - j + 1 # 1 /\ j + (k - j + 1) - 1 = k
        BY <1>2, <3>0, <3>2
      <4>2. k - j + 1 \in DOMAIN new /\ k \in G[k - j + 1]
        BY <1>6, <4>1
      <4> QED BY <4>2
    <3>3. k <= j \/ k > j
      BY <1>2, <3>0
    <3> HIDE DEF G
    <3> QED BY <3>1, <3>2, <3>3
  <2>4. \A n, m \in DOMAIN new : n < m => \A k \in G[n], i \in G[m] : k < i
    BY <1>2, <1>6
  <2> HIDE DEF G
  <2> QED BY <1>6, <2>1, <2>2, <2>3, <2>4, Grouping DEF X
<1>9. Readable(cs[1]) => Readable(new[1])
  <2>1. ASSUME Readable(cs[1])
        PROVE  \A k \in 1..j : Readable(cs[k])
    BY <1>1, <1>2, <2>1 DEF Ready
  <2> QED BY <1>3, <1>6, <2>1, MergedReadable
<1>10. Elements(cs) \subseteq Elements(new) \cup r.deleted
  <2> SUFFICES ASSUME NEW k \in DOMAIN cs
               PROVE  cs[k] \in Elements(new) \cup r.deleted
    BY DEF Elements
  <2>1. CASE k > j
    <3>1. k - j + 1 \in DOMAIN new /\ new[k - j + 1] = cs[k]
      BY <1>2, <1>6, <2>1
    <3> QED BY <3>1 DEF Elements
  <2>2. CASE k <= j /\ j > 1
    BY <1>2, <1>3, <1>7, <2>2 DEF Replaced
  <2>3. CASE k <= j /\ j = 1
    <3>1. 1 \in DOMAIN new /\ new[1] = cs[k]
      BY <1>2, <1>3, <1>6, <2>3
    <3> QED BY <3>1 DEF Elements
  <2> QED BY <1>2, <2>1, <2>2, <2>3
<1> QED BY <1>7, <1>8, <1>9, <1>10 DEF Pass

\* A set of natural numbers with a bound has a greatest element.
LEMMA GreatestNumber ==
    ASSUME NEW n \in Nat, NEW T \in SUBSET (0..n), T # {}
    PROVE  \E x \in T : \A y \in T : y <= x
<1> DEFINE D == {n - x : x \in T}
<1>1. D \in SUBSET Nat /\ D # {}
  <2>1. \A x \in 0..n : n - x \in Nat
    OBVIOUS
  <2>2. \A x \in T : x \in 0..n
    OBVIOUS
  <2> QED BY <2>1, <2>2
<1>2. PICK d \in D : \A e \in D : d <= e
  <2> HIDE DEF D
  <2> QED BY <1>1, LeastNumber
<1>3. PICK x \in T : d = n - x
  OBVIOUS
<1>4. ASSUME NEW y \in T
      PROVE  y <= x
  <2>1. n - x <= n - y
    BY <1>2, <1>3
  <2> QED BY <2>1
<1> QED BY <1>4

\* "merge commits that are ready and modify the same drm planes"
LEMMA MergeSamePlanesPass ==
    ASSUME NEW ids \in SUBSET Nat, NEW cs \in Seq(CommitObjects(ids)), cs # <<>>,
           NEW r \in MergeSamePlanes(cs)
    PROVE  Pass(cs, r.list, r.deleted)
<1> DEFINE X == CommitObjects(ids)
           L == Len(cs)
           starts == {k \in 1..L :
                        k > 1 => ~Ready(cs[k]) \/ Modified(cs[k]) # Modified(cs[k - 1])}
           Run(f, n) == SubSeq(cs, f[n], IF n + 1 \in DOMAIN f THEN f[n + 1] - 1 ELSE L)
           m == Cardinality(starts)
<1>1. L \in Nat \ {0} /\ DOMAIN cs = 1..L /\ \A k \in 1..L : cs[k] \in X
  BY ElementOfSeq, LenProperties, EmptySeq
<1>2. starts \in SUBSET (1..L) /\ 1 \in starts /\ \A k \in (1..L) \ starts : Ready(cs[k])
  BY <1>1
<1>3. PICK f \in Ascending(starts) :
          r = Result([n \in DOMAIN f |-> MergeAll(Run(f, n))],
                     UNION {Replaced(Run(f, n)) : n \in DOMAIN f})
  BY DEF MergeSamePlanes
<1> HIDE DEF starts, L
<1>4. /\ m \in Nat /\ f \in [1..m -> starts]
      /\ \A i, j \in 1..m : i < j => f[i] < f[j]
      /\ \A k \in starts : \E i \in 1..m : f[i] = k
  BY <1>1, <1>2, <1>3, AscendingOnto
<1> HIDE DEF m
<1>5. DOMAIN f = 1..m /\ \A n \in 1..m : f[n] \in 1..L
  BY <1>2, <1>4
<1> DEFINE End(n) == IF n + 1 \in 1..m THEN f[n + 1] - 1 ELSE L
           new == [n \in 1..m |-> MergeAll(Run(f, n))]
           G == [n \in 1..m |-> f[n]..End(n)]
<1>6. ASSUME NEW n \in 1..m
      PROVE  End(n) \in f[n]..L
  <2>1. CASE n + 1 \in 1..m
    <3>1. f[n] < f[n + 1] /\ f[n] \in 1..L /\ f[n + 1] \in 1..L
      BY <1>4, <1>5, <2>1
    <3> QED BY <1>1, <2>1, <3>1
  <2>2. CASE n + 1 \notin 1..m
    BY <1>1, <1>5, <2>2
  <2> QED BY <2>1, <2>2
<1>7. \A n \in 1..m : Run(f, n) = SubSeq(cs, f[n], End(n))
  BY <1>5
<1>8. ASSUME NEW n \in 1..m
      PROVE  /\ MergedFrom(new[n], cs, f[n]..End(n)) /\ new[n] \in X
             /\ Len(Run(f, n)) = End(n) - f[n] + 1
             /\ Elements(Run(f, n)) = {cs[k] : k \in f[n]..End(n)}
             /\ f[n] = End(n) => new[n] = cs[f[n]]
  <2>1. f[n] \in 1..Len(cs) /\ End(n) \in f[n]..Len(cs)
    BY <1>5, <1>6 DEF L
  <2>2. Run(f, n) = SubSeq(cs, f[n], End(n)) /\ new[n] = MergeAll(Run(f, n))
    BY <1>7
  <2> HIDE DEF Run, End, new
  <2>3. Run(f, n) \in Seq(X)
    BY <2>1, <2>2, MergeAllRun
  <2>4. new[n] \in X
    BY <2>2, <2>3, MergeAllType
  <2> QED BY <2>1, <2>2, <2>4, MergeAllRun
<1>9. r.list = new /\ \A n \in 1..m : Replaced(Run(f, n)) \subseteq r.deleted
  <2>1. r.list = new
    BY <1>3, <1>5 DEF Result
  <2>2. r.deleted = UNION {Replaced(Run(f, n)) : n \in 1..m}
    BY <1>3, <1>5 DEF Result
  <2> HIDE DEF Run
  <2> QED BY <2>1, <2>2
<1>10. new \in Seq(X) /\ DOMAIN new = 1..m
  <2>1. new \in [1..m -> X]
    BY <1>8
  <2> HIDE DEF new, X
  <2> QED BY <1>4, <2>1
<1> HIDE DEF Run, new
<1>11. ASSUME NEW k \in 1..L
       PROVE  \E n \in 1..m : k \in f[n]..End(n)
  <2> DEFINE T == {n \in 1..m : f[n] <= k}
  <2>1. PICK i \in 1..m : f[i] = 1
    BY <1>2, <1>4
  <2>2. T \in SUBSET (0..m) /\ i \in T
    BY <2>1, <1>4
  <2>3. PICK n \in T : \A j \in T : j <= n
    <3> HIDE DEF T
    <3> QED BY <1>4, <2>2, GreatestNumber
  <2>4. CASE n + 1 \in 1..m
    <3>1. n + 1 \notin T
      BY <1>4, <2>3
    <3>2. ~(f[n + 1] <= k) /\ f[n + 1] \in 1..L /\ f[n] \in 1..L
      BY <1>5, <2>4, <3>1
    <3>3. End(n) = f[n + 1] - 1
      BY <2>4
    <3> QED BY <1>1, <3>2, <3>3
  <2>5. CASE n + 1 \notin 1..m
    <3>1. End(n) = L /\ f[n] \in 1..L
      BY <1>5, <2>5
    <3> QED BY <1>1, <3>1
  <2> QED BY <2>4, <2>5
<1>12. ASSUME NEW n \in 1..m, NEW i \in 1..m, n < i
       PROVE  End(n) < f[i]
  <2>1. n + 1 \in 1..m /\ (i = n + 1 \/ n + 1 < i)
    BY <1>4, <1>12
  <2>2. f[n + 1] <= f[i] /\ f[n + 1] \in 1..L /\ f[i] \in 1..L
    BY <1>1, <1>4, <1>5, <2>1
  <2> QED BY <1>1, <2>1, <2>2
<1>13. Arranged(cs, new)
  <2>1. \A n \in 1..m : f[n]..End(n) \subseteq 1..L
    BY <1>1, <1>5, <1>6
  <2> HIDE DEF End
  <2>2. G \in [DOMAIN new -> SUBSET DOMAIN cs]
    BY <1>1, <1>10, <2>1
  <2>3. \A n \in DOMAIN new : MergedFrom(new[n], cs, G[n])
    BY <1>8, <1>10
  <2>4. \A k \in DOMAIN cs : \E n \in DOMAIN new : k \in G[n]
    BY <1>1, <1>10, <1>11
  <2>5. ASSUME NEW n \in DOMAIN new, NEW i \in DOMAIN new, n < i,
               NEW k \in G[n], NEW j \in G[i]
        PROVE  k < j
    <3>1. k \in f[n]..End(n) /\ j \in f[i]..End(i) /\ End(n) < f[i]
      BY <1>10, <1>12, <2>5
    <3>2. End(n) \in f[n]..L /\ End(i) \in f[i]..L /\ f[n] \in 1..L /\ f[i] \in 1..L
      BY <1>5, <1>6, <1>10
    <3> QED BY <1>1, <3>1, <3>2
  <2> HIDE DEF G
  <2> QED BY <1>10, <2>2, <2>3, <2>4, <2>5, Grouping DEF X
<1>14. 1 \in 1..m /\ f[1] = 1
  <2>1. PICK i \in 1..m : f[i] = 1
    BY <1>2, <1>4
  <2>2. 1 \in 1..m /\ (i = 1 \/ 1 < i)
    BY <1>4, <2>1
  <2>3. CASE 1 < i
    BY <1>1, <1>4, <1>5, <2>1, <2>2, <2>3
  <2> QED BY <2>1, <2>2, <2>3
<1>15. Readable(cs[1]) => Readable(new[1])
  <2>1. ASSUME Readable(cs[1]), NEW k \in f[1]..End(1)
        PROVE  Readable(cs[k])
    <3>1. k \in 1..L
      BY <1>1, <1>6, <1>14
    <3>2. CASE k \in starts
      <4>1. PICK i \in 1..m : f[i] = k
        BY <1>4, <3>2
      <4>2. i = 1 \/ 1 < i
        BY <1>4, <4>1
      <4>3. CASE 1 < i
        <5>1. End(1) < k
          BY <1>12, <1>14, <4>1, <4>3
        <5>2. End(1) \in 1..L
          BY <1>6, <1>14
        <5> HIDE DEF End
        <5> QED BY <1>1, <1>14, <2>1, <5>1, <5>2
      <4> QED BY <1>14, <2>1, <4>1, <4>2, <4>3
    <3>3. CASE k \notin starts
      BY <1>2, <3>1, <3>3 DEF Ready
    <3> QED BY <3>2, <3>3
  <2> HIDE DEF End
  <2> QED BY <1>8, <1>14, <2>1, MergedReadable
<1>16. Elements(cs) \subseteq Elements(new) \cup r.deleted
  <2> SUFFICES ASSUME NEW k \in 1..L
               PROVE  cs[k] \in Elements(new) \cup r.deleted
    BY <1>1 DEF Elements
  <2>1. PICK n \in 1..m : k \in f[n]..End(n)
    BY <1>11
  <2>2. f[n] \in 1..L /\ End(n) \in f[n]..L
    BY <1>5, <1>6
  <2> HIDE DEF End
  <2>3. CASE f[n] = End(n)
    <3>1. new[n] = cs[k] /\ n \in DOMAIN new
      BY <1>1, <1>8, <1>10, <2>1, <2>2, <2>3
    <3> QED BY <3>1 DEF Elements
  <2>4. CASE f[n] # End(n)
    <3>1. Len(Run(f, n)) > 1
      BY <1>1, <1>8, <2>2, <2>4
    <3>2. cs[k] \in Replaced(Run(f, n))
      BY <1>8, <2>1, <3>1 DEF Replaced
    <3> QED BY <1>9, <3>2
  <2> QED BY <2>3, <2>4
<1> QED BY <1>9, <1>13, <1>15, <1>16 DEF Pass

\* "try to move commits that are ready to the front": the commits at the places
\* S get in front, where none of them passes one it shares a plane with.
LEMMA InFrontPass ==
    ASSUME NEW ids \in SUBSET Nat, NEW cs \in Seq(CommitObjects(ids)), cs # <<>>,
           NEW S \in SUBSET (1..Len(cs)),
           \A k \in S : Ready(cs[k]),
           \A k \in S : \A j \in (1..Len(cs)) \ S :
               j < k => Modified(cs[k]) \cap Modified(cs[j]) = {},
           NEW r \in InFront(cs, S)
    PROVE  Pass(cs, r.list, r.deleted)
<1> DEFINE X == CommitObjects(ids)
           L == Len(cs)
           T == (1..L) \ S
           t == Cardinality(T)
<1>1. L \in Nat \ {0} /\ DOMAIN cs = 1..L /\ \A k \in 1..L : cs[k] \in X
  BY ElementOfSeq, LenProperties, EmptySeq
<1>2. PICK kept \in At(cs, T) : \E moved \in At(cs, S) :
          r = Result((IF moved = <<>> THEN <<>> ELSE <<MergeAll(moved)>>) \o kept,
                     Elements(moved))
  BY DEF InFront
<1>3. PICK moved \in At(cs, S) :
          r = Result((IF moved = <<>> THEN <<>> ELSE <<MergeAll(moved)>>) \o kept,
                     Elements(moved))
  BY <1>2
<1> DEFINE first == IF moved = <<>> THEN <<>> ELSE <<MergeAll(moved)>>
           new == first \o kept
           o == IF S = {} THEN 0 ELSE 1
<1>4. /\ MergedFrom(MergeAll(moved), cs, S)
      /\ Elements(moved) = {cs[k] : k \in S}
      /\ moved \in Seq(X) /\ kept \in Seq(X)
      /\ S # {} => moved # <<>>
  <2>1. S \in SUBSET DOMAIN cs /\ T \in SUBSET DOMAIN cs /\ S \in SUBSET (1..Len(cs))
    BY <1>1
  <2> QED BY <2>1, MergeAllAt, AtType
<1>5. S = {} => moved = <<>>
  <2> SUFFICES ASSUME S = {} PROVE moved = <<>>
    OBVIOUS
  <2>1. Elements(moved) = {}
    BY <1>4
  <2>2. DOMAIN moved = 1..Len(moved) /\ Len(moved) \in Nat
    BY <1>4, LenProperties
  <2>3. Len(moved) = 0
    <3>1. CASE Len(moved) # 0
      <4>1. 1 \in DOMAIN moved
        BY <2>2, <3>1
      <4> QED BY <2>1, <4>1 DEF Elements
    <3> QED BY <3>1
  <2> QED BY <1>4, <2>3, EmptySeq
<1>6. /\ first \in Seq(X) /\ Len(first) = o
      /\ S # {} => first[1] = MergeAll(moved)
  <2>1. MergeAll(moved) \in X
    BY <1>4, MergeAllType
  <2> HIDE DEF X
  <2> QED BY <1>4, <1>5, <2>1
<1>7. r.list = new /\ r.deleted = {cs[k] : k \in S}
  BY <1>3, <1>4 DEF Result
<1>8. PICK f \in Ascending(T) : kept = [n \in DOMAIN f |-> cs[f[n]]]
  BY <1>2 DEF At
<1> HIDE DEF first, X
<1>9. /\ t \in Nat /\ f \in [1..t -> T]
      /\ \A i, j \in 1..t : i < j => f[i] < f[j]
      /\ \A k \in T : \E i \in 1..t : f[i] = k
  <2>1. T \in SUBSET (1..L)
    OBVIOUS
  <2> HIDE DEF T
  <2> QED BY <1>1, <1>8, <2>1, AscendingOnto
<1> HIDE DEF t, L
<1>10. Len(kept) = t /\ \A n \in 1..t : kept[n] = cs[f[n]]
  <2>1. kept = [n \in 1..t |-> cs[f[n]]]
    BY <1>8, <1>9
  <2> QED BY <1>9, <2>1
<1>11. o \in {0, 1} /\ (o = 1 <=> S # {})
  <2>1. CASE S = {}
    BY <2>1
  <2>2. CASE S # {}
    BY <2>2
  <2> QED BY <2>1, <2>2
<1> HIDE DEF o
<1>12. /\ new \in Seq(X) /\ DOMAIN new = 1..(o + t)
       /\ \A n \in 1..(o + t) : new[n] = IF n <= o THEN MergeAll(moved) ELSE cs[f[n - o]]
  <2>1. /\ new \in Seq(X) /\ Len(new) = o + t
        /\ \A n \in 1..(o + t) : new[n] = IF n <= o THEN first[n] ELSE kept[n - o]
    <3>1. /\ new \in Seq(X) /\ Len(new) = Len(first) + Len(kept)
          /\ \A n \in 1..(Len(first) + Len(kept)) :
                new[n] = IF n <= Len(first) THEN first[n] ELSE kept[n - Len(first)]
      BY <1>4, <1>6, ConcatProperties
    <3>2. Len(first) = o /\ Len(kept) = t
      BY <1>6, <1>10
    <3> HIDE DEF new
    <3> QED BY <3>1, <3>2
  <2>2. ASSUME NEW n \in 1..(o + t)
        PROVE  new[n] = IF n <= o THEN MergeAll(moved) ELSE cs[f[n - o]]
    <3>1. CASE n <= o
      <4>1. n = 1 /\ S # {}
        BY <1>9, <1>11, <3>1
      <4> QED BY <1>6, <2>1, <3>1, <4>1
    <3>2. CASE ~(n <= o)
      <4>1. n - o \in 1..t
        BY <1>9, <1>11, <3>2
      <4> QED BY <1>10, <2>1, <3>2, <4>1
    <3> QED BY <3>1, <3>2
  <2> HIDE DEF new
  <2>3. DOMAIN new = 1..(o + t)
    BY <2>1, LenProperties
  <2> QED BY <2>1, <2>2, <2>3
<1> DEFINE G == [n \in 1..(o + t) |-> IF n <= o THEN S ELSE {f[n - o]}]
<1> HIDE DEF new
<1>13. \A n \in 1..(o + t) : ~(n <= o) => n - o \in 1..t /\ f[n - o] \in T /\ f[n - o] \in Nat
  BY <1>1, <1>9, <1>11
<1>14. ASSUME NEW k \in T
       PROVE  \E n \in 1..(o + t) : ~(n <= o) /\ f[n - o] = k
  <2>1. PICK i \in 1..t : f[i] = k
    BY <1>9
  <2>2. i + o \in 1..(o + t) /\ ~(i + o <= o) /\ (i + o) - o = i
    BY <1>9, <1>11
  <2> QED BY <2>1, <2>2
<1>15. Arranged(cs, new)
  <2>1. G \in [DOMAIN new -> SUBSET DOMAIN cs]
    <3>1. \A n \in 1..(o + t) : G[n] \in SUBSET (1..L)
      BY <1>13 DEF L
    <3> QED BY <1>1, <1>12, <3>1
  <2>2. ASSUME NEW n \in DOMAIN new
        PROVE  MergedFrom(new[n], cs, G[n])
    <3>1. CASE n <= o
      <4>1. G[n] = S /\ new[n] = MergeAll(moved)
        BY <1>12, <3>1
      <4> QED BY <1>4, <4>1
    <3>2. CASE ~(n <= o)
      <4>1. G[n] = {f[n - o]} /\ new[n] = cs[f[n - o]] /\ f[n - o] \in Nat
        BY <1>12, <1>13, <3>2
      <4>2. MergedFrom(cs[f[n - o]], cs, {f[n - o]})
        BY <4>1, MergedFromOne
      <4> QED BY <4>1, <4>2
    <3> HIDE DEF G
    <3> QED BY <3>1, <3>2
  <2>3. ASSUME NEW k \in DOMAIN cs
        PROVE  \E n \in DOMAIN new : k \in G[n]
    <3>1. CASE k \in S
      <4>1. 1 \in 1..(o + t) /\ 1 <= o
        BY <1>9, <1>11, <3>1
      <4>2. 1 \in DOMAIN new /\ k \in G[1]
        BY <1>12, <3>1, <4>1
      <4> QED BY <4>2
    <3>2. CASE k \in T
      <4>1. PICK n \in 1..(o + t) : ~(n <= o) /\ f[n - o] = k
        BY <1>14, <3>2
      <4>2. n \in DOMAIN new /\ k \in G[n]
        BY <1>12, <4>1
      <4> QED BY <4>2
    <3>3. k \in S \/ k \in T
      BY <1>1
    <3> HIDE DEF G, T
    <3> QED BY <3>1, <3>2, <3>3
  <2>4. ASSUME NEW n \in DOMAIN new, NEW m \in DOMAIN new, n < m,
               NEW k \in G[n], NEW j \in G[m], Modified(cs[k]) \cap Modified(cs[j]) # {}
        PROVE  k < j
    <3>1. n \in 1..(o + t) /\ m \in 1..(o + t) /\ ~(m <= o)
      BY <1>9, <1>11, <1>12, <2>4
    <3>2. m - o \in 1..t /\ j = f[m - o] /\ j \in T
      BY <1>13, <3>1
    <3>3. CASE n <= o
      <4>1. k \in S
        BY <3>1, <3>3
      <4>2. ~(j < k)
        BY <2>4, <3>2, <4>1 DEF L
      <4>3. k \in Nat /\ j \in Nat /\ k # j
        BY <1>1, <3>2, <4>1 DEF L
      <4> QED BY <4>2, <4>3
    <3>4. CASE ~(n <= o)
      <4>1. n - o \in 1..t /\ k = f[n - o]
        BY <1>13, <3>1, <3>4
      <4>2. n - o < m - o
        BY <1>9, <1>11, <2>4, <3>1
      <4>3. f[n - o] < f[m - o]
        BY <1>9, <3>2, <4>1, <4>2
      <4> QED BY <3>2, <4>1, <4>3
    <3> HIDE DEF G
    <3> QED BY <3>3, <3>4
  <2> HIDE DEF G
  <2>5. new \in Seq(CommitObjects(ids))
    BY <1>12 DEF X
  <2>6. \A n \in DOMAIN new : MergedFrom(new[n], cs, G[n])
    BY <2>2
  <2>7. \A k \in DOMAIN cs : \E n \in DOMAIN new : k \in G[n]
    BY <2>3
  <2>8. \A n, m \in DOMAIN new : n < m =>
           \A k \in G[n], j \in G[m] :
              Modified(cs[k]) \cap Modified(cs[j]) # {} => k < j
    BY <2>4
  <2> QED BY <2>1, <2>5, <2>6, <2>7, <2>8, Grouping, Zenon
<1>16. Readable(cs[1]) => Readable(new[1])
  <2>1. CASE S # {}
    <3>1. new[1] = MergeAll(moved)
      BY <1>9, <1>11, <1>12, <2>1
    <3>2. \A k \in S : Readable(cs[k])
      BY DEF Ready
    <3> QED BY <1>4, <3>1, <3>2, MergedReadable
  <2>2. CASE S = {}
    <3>1. 1 \in T /\ o = 0
      BY <1>1, <1>11, <2>2
    <3>2. PICK i \in 1..t : f[i] = 1
      BY <1>9, <3>1
    <3>3. 1 \in 1..t /\ f[1] \in T /\ (i = 1 \/ 1 < i)
      BY <1>9, <3>2
    <3>4. f[1] = 1
      <4>1. CASE 1 < i
        BY <1>1, <1>9, <3>2, <3>3, <4>1
      <4> QED BY <3>2, <3>3, <4>1
    <3>5. new[1] = cs[1]
      BY <1>9, <1>12, <3>1, <3>3, <3>4
    <3> QED BY <3>5
  <2> QED BY <2>1, <2>2
<1>17. Elements(cs) \subseteq Elements(new) \cup r.deleted
  <2> SUFFICES ASSUME NEW k \in 1..L
               PROVE  cs[k] \in Elements(new) \cup r.deleted
    BY <1>1 DEF Elements
  <2>1. CASE k \in S
    BY <1>7, <2>1
  <2>2. CASE k \notin S
    <3>1. PICK n \in 1..(o + t) : ~(n <= o) /\ f[n - o] = k
      BY <1>14, <2>2
    <3>2. n \in DOMAIN new /\ new[n] = cs[k]
      BY <1>12, <3>1
    <3> QED BY <3>2 DEF Elements
  <2> QED BY <2>1, <2>2
<1> QED BY <1>7, <1>15, <1>16, <1>17 DEF Pass

LEMMA MoveReadyPass ==
    ASSUME NEW ids \in SUBSET Nat, NEW cs \in Seq(CommitObjects(ids)), cs # <<>>,
           NEW r \in MoveReady(cs)
    PROVE  Pass(cs, r.list, r.deleted)
<1> DEFINE L == Len(cs)
           front == IF Ready(cs[1]) THEN {1} ELSE {}
           rest == (1..L) \ front
<1>1. L \in Nat \ {0}
  BY LenProperties, EmptySeq
<1>2. PICK M \in SUBSET {k \in rest : k - 1 \in rest} :
          /\ \A k \in M : /\ Ready(cs[k])
                          /\ \A j \in rest \ M : j < k => ~Skipping(cs[k], cs[j])
          /\ r \in InFront(cs, front \cup M)
  BY DEF MoveReady
<1> DEFINE S == front \cup M
<1>3. S \in SUBSET (1..L)
  BY <1>1, <1>2
<1>4. \A k \in S : Ready(cs[k])
  BY <1>2
<1>5. ASSUME NEW k \in S, NEW j \in (1..L) \ S, j < k
      PROVE  Modified(cs[k]) \cap Modified(cs[j]) = {}
  <2>1. CASE k \in front
    BY <1>1, <1>5, <2>1
  <2>2. CASE k \in M
    <3>1. j \in rest \ M
      BY <1>5
    <3> QED BY <1>2, <1>5, <2>2, <3>1 DEF Skipping
  <2> QED BY <2>1, <2>2
<1>6. r \in InFront(cs, S)
  BY <1>2
<1> HIDE DEF S
<1> QED BY <1>3, <1>4, <1>5, <1>6, InFrontPass

\* The three passes of optimizeCommits together.
LEMMA OptimizePass ==
    ASSUME NEW ids \in SUBSET Nat, commits \in Seq(CommitObjects(ids)), commits # <<>>,
           OptimizeCommits
    PROVE  /\ Arranged(commits, commits')
           /\ Readable(commits[1]) => Readable(commits'[1])
           /\ Elements(commits) \cup toDelete \subseteq Elements(commits') \cup toDelete'
<1> DEFINE X == CommitObjects(ids)
           Third(cs) == IF Len(cs) = 1 THEN {Result(cs, {})} ELSE MoveReady(cs)
<1>1. CASE Len(commits) <= 1
  <2>1. commits' = commits /\ toDelete' = toDelete
    BY <1>1 DEF OptimizeCommits
  <2>2. Pass(commits, commits, {})
    BY PassNothing
  <2> QED BY <2>1, <2>2 DEF Pass
<1>2. CASE ~(Len(commits) <= 1)
  <2>1. PICK one \in MergeFront(commits) :
           \E two \in MergeSamePlanes(one.list) :
           \E three \in Third(two.list) :
              /\ commits' = three.list
              /\ toDelete' = toDelete \cup one.deleted \cup two.deleted \cup three.deleted
    BY <1>2, Zenon DEF OptimizeCommits
  <2>2. one.list \in Seq(X) /\ one.list # <<>> /\ Pass(commits, one.list, one.deleted)
    BY <2>1, MergeFrontType, ResultParts, MergeFrontPass
  <2>3. PICK two \in MergeSamePlanes(one.list) :
           \E three \in Third(two.list) :
              /\ commits' = three.list
              /\ toDelete' = toDelete \cup one.deleted \cup two.deleted \cup three.deleted
    BY <2>1
  <2>4. two.list \in Seq(X) /\ two.list # <<>> /\ Pass(one.list, two.list, two.deleted)
    BY <2>2, <2>3, MergeSamePlanesType, ResultParts, MergeSamePlanesPass
  <2>5. PICK three \in Third(two.list) :
              /\ commits' = three.list
              /\ toDelete' = toDelete \cup one.deleted \cup two.deleted \cup three.deleted
    BY <2>3
  <2>6. three.list \in Seq(X) /\ Pass(two.list, three.list, three.deleted)
    <3>1. CASE Len(two.list) = 1
      <4>1. three.list = two.list /\ three.deleted = {}
        BY <2>5, <3>1 DEF Result
      <4> QED BY <2>4, <4>1, PassNothing
    <3>2. CASE Len(two.list) # 1
      <4>1. three \in MoveReady(two.list)
        BY <2>5, <3>2
      <4> QED BY <2>4, <4>1, MoveReadyType, ResultParts, MoveReadyPass
    <3> QED BY <3>1, <3>2
  <2>7. Pass(commits, two.list, one.deleted \cup two.deleted)
    BY <2>2, <2>4, PassTransitive
  <2>8. Pass(commits, three.list, (one.deleted \cup two.deleted) \cup three.deleted)
    BY <2>4, <2>6, <2>7, PassTransitive
  <2>9. commits' = three.list
        /\ toDelete' = toDelete \cup ((one.deleted \cup two.deleted) \cup three.deleted)
    BY <2>5
  <2> QED BY <2>8, <2>9 DEF Pass
<1> QED BY <1>1, <1>2

\* submit collapses all commits into one.
LEMMA CollapseArranged ==
    ASSUME NEW ids \in SUBSET Nat, NEW cs \in Seq(CommitObjects(ids))
    PROVE  Arranged(cs, <<MergeAll(cs)>>)
<1> DEFINE c == MergeAll(cs)
           new == <<c>>
           e == [i \in DOMAIN cs |-> i]
           G == [n \in {1} |-> DOMAIN cs]
<1>1. DOMAIN cs \subseteq Nat /\ c \in CommitObjects(ids)
  BY LenProperties, MergeAllType
<1>2. MergedFrom(c, cs, DOMAIN cs)
  <2>1. e \in [DOMAIN cs -> Nat] /\ \A i \in DOMAIN cs : e[i] = i
    BY <1>1
  <2> HIDE DEF e
  <2> QED BY <2>1, MergeAllOf
<1> HIDE DEF c
<1>3. new \in Seq(CommitObjects(ids)) /\ DOMAIN new = {1} /\ new[1] = c
  BY <1>1
<1> HIDE DEF new
<1>4. /\ G \in [DOMAIN new -> SUBSET DOMAIN cs]
      /\ \A n \in DOMAIN new : G[n] = DOMAIN cs /\ n = 1
  BY <1>3
<1> HIDE DEF G
<1>5. Arranged(cs, new)
  <2>1. \A n \in DOMAIN new : MergedFrom(new[n], cs, G[n])
    BY <1>2, <1>3, <1>4
  <2>2. \A k \in DOMAIN cs : \E n \in DOMAIN new : k \in G[n]
    BY <1>3, <1>4
  <2>3. \A n, m \in DOMAIN new : ~(n < m)
    BY <1>3
  <2> QED BY <1>3, <1>4, <2>1, <2>2, <2>3, Grouping
<1> QED BY <1>5 DEF c, new

------------------------------------------------------------------------------
(* What the steps of the commit thread do to the commits                    *)

\* The queued commits are as arranged as before and no commit object is dropped.
\* Before a submission the first is readable, or still is if it was.
Worked ==
    /\ Arranged(commits, commits')
    /\ Elements(commits) \cup toDelete \subseteq Elements(commits') \cup toDelete'
    /\ committed' = committed
    /\ pc' \in {"delay", "submit"} =>
          \/ Readable(commits'[1])
          \/ pc = "delay" /\ (Readable(commits[1]) => Readable(commits'[1]))

LEMMA WorkedNothing ==
    ASSUME TypeOK, commits' = commits, committed' = committed, toDelete' = toDelete,
           pc' \in {"delay", "submit"} => pc' = pc /\ pc = "delay"
    PROVE  Worked
<1>1. commits \in Seq(CommitObjects(1..added)) /\ 1..added \in SUBSET Nat
  BY DEF TypeOK
<1>2. Pass(commits, commits, {})
  BY <1>1, PassNothing
<1> QED BY <1>2 DEF Worked, Pass

LEMMA OptimizeWorked ==
    ASSUME TypeOK, commits # <<>>, Optimize
    PROVE  Worked
<1>1. commits \in Seq(CommitObjects(1..added)) /\ 1..added \in SUBSET Nat
      /\ toDelete \in SUBSET CommitObjects(1..added)
  BY DEF TypeOK
<1>2. OptimizeCommits
  BY DEF Optimize
<1>3. /\ Arranged(commits, commits')
      /\ Elements(commits) \cup toDelete \subseteq Elements(commits') \cup toDelete'
  BY <1>1, <1>2, OptimizePass
<1>4. pc' \in {"delay", "submit"} => Readable(Head(commits'))
  BY DEF Optimize, Ready
<1>5. Head(commits') = commits'[1]
  <2>1. commits' \in Seq(CommitObjects(1..added)) /\ commits' # <<>>
    BY <1>1, <1>2, OptimizeType
  <2> QED BY <2>1
<1> QED BY <1>3, <1>4, <1>5 DEF Worked, Optimize

LEMMA GotoWorked ==
    ASSUME TypeOK, NEW label \in {"check", "idle", "flip", "pong", "sleep"}, Goto(label)
    PROVE  Worked
<1>1. /\ commits' = commits /\ committed' = committed /\ toDelete' = toDelete
      /\ pc' \notin {"delay", "submit"}
  BY DEF Goto, lists
<1> QED BY <1>1, WorkedNothing

LEMMA ProceedWorked ==
    ASSUME TypeOK, Proceed
    PROVE  Worked
<1>1. CASE Goto("check")
  BY <1>1, GotoWorked
<1>2. CASE Goto("sleep")
  BY <1>2, GotoWorked
<1>3. CASE commits # <<>> /\ Optimize
  BY <1>3, OptimizeWorked
<1> QED BY <1>1, <1>2, <1>3 DEF Proceed

\* A step of the commit thread submits or works on the queue.
LEMMA ThreadWorks ==
    ASSUME IInv, Thread
    PROVE  \/ SubmitSucceeds \/ SubmitFails
           \/ Worked /\ UNCHANGED <<mainThread, kernel, added, newest, failures>>
<1> USE DEF mainThread, kernel, history, handshake, lists, IInv
<1>0. TypeOK
  OBVIOUS
<1>1. CASE CheckInterruption
  BY <1>1, WorkedNothing DEF CheckInterruption
<1>2. CASE Lock
  BY <1>0, <1>2, GotoWorked, ProceedWorked DEF Lock
<1>3. CASE WakeIdle
  BY <1>0, <1>3, GotoWorked, ProceedWorked DEF WakeIdle
<1>4. ASSUME NEW timeout \in BOOLEAN, WakeFlip(timeout)
      PROVE  Worked /\ UNCHANGED <<mainThread, kernel, added, newest, failures>>
  BY <1>0, <1>4, GotoWorked, ProceedWorked DEF WakeFlip
<1>5. CASE WakePong
  BY <1>5, WorkedNothing DEF WakePong
<1>6. CASE WakeSleep
  BY <1>0, <1>6, GotoWorked, OptimizeWorked DEF WakeSleep
<1>7. ASSUME NEW timeout \in BOOLEAN, WakeDelay(timeout)
      PROVE  Worked /\ UNCHANGED <<mainThread, kernel, added, newest, failures>>
  <2>1. /\ pc = "delay" /\ pc' \in {"submit", "check"} /\ committed' = committed
        /\ UNCHANGED <<mainThread, kernel, added, newest, failures>>
    BY <1>7 DEF WakeDelay
  <2>2. /\ commits # <<>> /\ commits \in Seq(CommitObjects(1..added))
        /\ 1..added \in SUBSET Nat
    BY <2>1 DEF Handover, TypeOK
  <2>3. CASE OptimizeCommits
    <3>1. /\ Arranged(commits, commits')
          /\ Readable(commits[1]) => Readable(commits'[1])
          /\ Elements(commits) \cup toDelete \subseteq Elements(commits') \cup toDelete'
      BY <2>2, <2>3, OptimizePass
    <3> QED BY <2>1, <3>1 DEF Worked
  <2>4. CASE UNCHANGED <<commits, toDelete>>
    <3>1. Pass(commits, commits, {})
      BY <2>2, PassNothing
    <3> QED BY <2>1, <2>4, <3>1 DEF Worked, Pass
  <2> QED BY <1>7, <2>3, <2>4 DEF WakeDelay
<1> QED BY <1>1, <1>2, <1>3, <1>4, <1>5, <1>6, <1>7 DEF Thread

------------------------------------------------------------------------------
(* The order of the contents on a plane                                     *)

\* A new commit, with contents newer than those queued.
LEMMA AppendContents ==
    ASSUME NEW ids \in SUBSET Nat, NEW cs \in Seq(CommitObjects(ids)),
           NEW c \in CommitObjects(ids)
    PROVE  /\ \A p \in Planes : Contents(Append(cs, c), p) =
                  Contents(cs, p) \cup (IF p \in Modified(c) THEN {c.shows[p]} ELSE {})
           /\ /\ Ordered(cs)
              /\ \A p \in Modified(c) : \A x \in Contents(cs, p) : x < c.shows[p]
              => Ordered(Append(cs, c))
<1> DEFINE ds == Append(cs, c)
           n == Len(cs) + 1
<1>1. /\ ds \in Seq(CommitObjects(ids)) /\ DOMAIN ds = 1..n /\ DOMAIN cs = 1..Len(cs)
      /\ Len(cs) \in Nat
      /\ ds[n] = c /\ \A k \in DOMAIN cs : ds[k] = cs[k]
  BY AppendProperties, LenProperties
<1>2. DOMAIN ds = DOMAIN cs \cup {n} /\ n \notin DOMAIN cs /\ \A k \in DOMAIN cs : k < n
  BY <1>1
<1>n. n \in Nat /\ DOMAIN cs \subseteq Nat
  BY <1>1
<1> HIDE DEF ds, n
<1>3. ASSUME NEW p \in Planes
      PROVE  Contents(ds, p) =
                 Contents(cs, p) \cup (IF p \in Modified(c) THEN {c.shows[p]} ELSE {})
  <2>1. ASSUME NEW x \in Contents(ds, p)
        PROVE  x \in Contents(cs, p) \/ (p \in Modified(c) /\ x = c.shows[p])
    <3>0. ds \in Seq(CommitObjects(ids))
      BY <1>1
    <3>1. PICK k \in DOMAIN ds : p \in Modified(ds[k]) /\ ds[k].shows[p] = x
      BY <3>0, ContentsMember
    <3>2. CASE k = n
      BY <1>1, <3>1, <3>2
    <3>3. CASE k \in DOMAIN cs
      BY <1>1, <3>1, <3>3, ContentsMember
    <3> QED BY <1>2, <3>2, <3>3
  <2>2. ASSUME NEW x \in Contents(cs, p)
        PROVE  x \in Contents(ds, p)
    <3>1. PICK k \in DOMAIN cs : p \in Modified(cs[k]) /\ cs[k].shows[p] = x
      BY ContentsMember
    <3>2. k \in DOMAIN ds /\ ds[k] = cs[k]
      BY <1>1, <1>2
    <3> QED BY <1>1, <3>1, <3>2, ContentsMember
  <2>3. ASSUME p \in Modified(c)
        PROVE  c.shows[p] \in Contents(ds, p)
    BY <1>1, <1>2, <2>3, ContentsMember
  <2> QED BY <2>1, <2>2, <2>3
<1>4. ASSUME Ordered(cs), \A p \in Modified(c) : \A x \in Contents(cs, p) : x < c.shows[p]
      PROVE  Ordered(ds)
  <2> SUFFICES ASSUME NEW p \in Planes, NEW j \in DOMAIN ds, NEW k \in DOMAIN ds,
                      j < k, p \in Modified(ds[j]), p \in Modified(ds[k])
               PROVE  ds[j].shows[p] < ds[k].shows[p]
    BY DEF Ordered
  <2>1. j \in DOMAIN cs
    BY <1>2, <1>n
  <2>2. CASE k \in DOMAIN cs
    BY <1>1, <1>4, <2>1, <2>2 DEF Ordered
  <2>3. CASE k = n
    <3>1. cs[j].shows[p] \in Contents(cs, p) /\ ds[j] = cs[j] /\ ds[k] = c
      BY <1>1, <2>1, <2>3, ContentsMember
    <3> QED BY <1>4, <3>1
  <2> QED BY <1>2, <2>2, <2>3
<1> QED BY <1>3, <1>4 DEF ds

\* The first commit leaves the queue.
LEMMA TailContents ==
    ASSUME NEW ids \in SUBSET Nat, NEW cs \in Seq(CommitObjects(ids)), cs # <<>>,
           Ordered(cs)
    PROVE  /\ Ordered(Tail(cs))
           /\ Modified(Head(cs)) \subseteq Planes
           /\ \A p \in Modified(Head(cs)) :
                 /\ Head(cs).shows[p] \in Contents(cs, p)
                 /\ \A x \in Contents(cs, p) : Head(cs).shows[p] <= x
                 /\ Contents(Tail(cs), p) = Contents(cs, p) \ {Head(cs).shows[p]}
           /\ \A p \in Planes \ Modified(Head(cs)) : Contents(Tail(cs), p) = Contents(cs, p)
<1> DEFINE c == Head(cs)
           ds == Tail(cs)
           L == Len(cs)
           X == CommitObjects(ids)
<1>1. L \in Nat \ {0} /\ DOMAIN cs = 1..L
  BY LenProperties, EmptySeq
<1>2. /\ ds \in Seq(X) /\ DOMAIN ds = 1..(L - 1) /\ c = cs[1]
      /\ \A k \in 1..(L - 1) : ds[k] = cs[k + 1]
  <2>0. cs \in Seq(X)
    OBVIOUS
  <2> HIDE DEF X
  <2>1. ds \in Seq(X) /\ Len(ds) = L - 1
    BY <2>0, HeadTailProperties
  <2> QED BY <1>1, <2>0, <2>1
<1> HIDE DEF c, ds, L, X
<1>3. 1 \in DOMAIN cs /\ \A k \in DOMAIN ds : k + 1 \in DOMAIN cs /\ 1 < k + 1 /\ ds[k] = cs[k + 1]
  BY <1>1, <1>2
<1>4. \A k \in DOMAIN cs : k = 1 \/ (k - 1 \in DOMAIN ds /\ ds[k - 1] = cs[k])
  <2> TAKE k \in DOMAIN cs
  <2>1. k = 1 \/ (k - 1 \in 1..(L - 1) /\ (k - 1) + 1 = k)
    BY <1>1
  <2> QED BY <1>2, <2>1
<1>5. Ordered(ds)
  <2> SUFFICES ASSUME NEW p \in Planes, NEW j \in DOMAIN ds, NEW k \in DOMAIN ds,
                      j < k, p \in Modified(ds[j]), p \in Modified(ds[k])
               PROVE  ds[j].shows[p] < ds[k].shows[p]
    BY DEF Ordered
  <2>1. j + 1 < k + 1
    BY <1>1, <1>2
  <2> QED BY <1>3, <2>1 DEF Ordered
<1>6. \A p : \A x \in Contents(ds, p) :
          \E k \in DOMAIN cs : 1 < k /\ p \in Modified(cs[k]) /\ cs[k].shows[p] = x
  <2> SUFFICES ASSUME NEW p, NEW x \in Contents(ds, p)
               PROVE  \E k \in DOMAIN cs : 1 < k /\ p \in Modified(cs[k]) /\ cs[k].shows[p] = x
    OBVIOUS
  <2>0. ds \in Seq(CommitObjects(ids))
    BY <1>2 DEF X
  <2>1. PICK k \in DOMAIN ds : p \in Modified(ds[k]) /\ ds[k].shows[p] = x
    BY <2>0, ContentsMember
  <2> QED BY <1>3, <2>1
<1>7. \A p : \A x \in Contents(cs, p) :
          \/ p \in Modified(c) /\ c.shows[p] = x
          \/ x \in Contents(ds, p)
  <2> SUFFICES ASSUME NEW p, NEW x \in Contents(cs, p)
               PROVE  (p \in Modified(c) /\ c.shows[p] = x) \/ x \in Contents(ds, p)
    OBVIOUS
  <2>1. PICK k \in DOMAIN cs : p \in Modified(cs[k]) /\ cs[k].shows[p] = x
    BY ContentsMember
  <2>2. CASE k = 1
    BY <1>2, <2>1, <2>2
  <2>3. CASE k - 1 \in DOMAIN ds /\ ds[k - 1] = cs[k]
    BY <1>2, <2>1, <2>3, ContentsMember DEF X
  <2> QED BY <1>4, <2>2, <2>3
<1>8. \A p : Contents(ds, p) \subseteq Contents(cs, p)
  BY <1>6, ContentsMember
<1>9. Modified(c) \subseteq Planes /\ \A p \in Modified(c) : c.shows[p] \in Contents(cs, p)
  BY <1>2, <1>3, ContentsMember
<1>10. ASSUME NEW p \in Modified(c), NEW x \in Contents(ds, p)
       PROVE  c.shows[p] < x
  <2>1. PICK k \in DOMAIN cs : 1 < k /\ p \in Modified(cs[k]) /\ cs[k].shows[p] = x
    BY <1>6
  <2> QED BY <1>2, <1>3, <1>9, <2>1 DEF Ordered
<1>11. \A p : \A x \in Contents(cs, p) : x \in Nat
  BY ContentsMember
<1>12. ASSUME NEW p \in Modified(c)
       PROVE  /\ \A x \in Contents(cs, p) : c.shows[p] <= x
              /\ Contents(ds, p) = Contents(cs, p) \ {c.shows[p]}
  <2>1. c.shows[p] \in Nat
    BY <1>9, <1>11
  <2>2. ASSUME NEW x \in Contents(cs, p)
        PROVE  c.shows[p] <= x
    BY <1>7, <1>10, <1>11, <2>1
  <2>3. \A x \in Contents(ds, p) : x # c.shows[p]
    BY <1>10, <2>1
  <2> QED BY <1>7, <1>8, <2>2, <2>3
<1>13. ASSUME NEW p \in Planes \ Modified(c)
       PROVE  Contents(ds, p) = Contents(cs, p)
  <2>1. \A x \in Contents(cs, p) : x \in Contents(ds, p)
    BY <1>7
  <2> QED BY <1>8, <2>1
<1> QED BY <1>5, <1>9, <1>12, <1>13 DEF c, ds

\* The queue holds, in order, contents newer than what the kernel has.
Order ==
    /\ Ordered(commits)
    /\ \A p \in Planes :
          /\ screen[p] <= newest[p]
          /\ \A x \in Contents(commits, p) : screen[p] < x /\ x <= newest[p]

\* As long as nothing was refused, the newest content is queued or shown.
Complete ==
    failures = 0 /\ main # "gone" =>
        \A p \in Planes : newest[p] \in Contents(commits, p) \cup {screen[p]}

\* As long as nothing was refused, what is shown and what is about to be
\* submitted is readable.
ReadyToShow ==
    failures = 0 =>
        /\ \A p \in Planes : screen[p] \in readable \cup {0}
        /\ pc \in {"delay", "submit"} => Readable(commits[1])

\* A step that only rearranges the queue, as the kernel and the rest see it.
Rearranges ==
    /\ commits' \in Seq(CommitObjects(1..added))
    /\ Arranged(commits, commits')
    /\ UNCHANGED <<screen, newest, failures, added>>
    /\ main' = "gone" <=> main = "gone"
    /\ flip' # "none" <=> flip # "none"
    /\ readable \subseteq readable'
    /\ pc' \in {"delay", "submit"} =>
          \/ Readable(commits'[1])
          \/ pc \in {"delay", "submit"} /\ (Readable(commits[1]) => Readable(commits'[1]))

\* The page flip is reported; nothing of the queue changes.
Finishes ==
    /\ flip = "event" /\ flip' = "none"
    /\ UNCHANGED <<commits, screen, newest, failures, added, readable, pc>>
    /\ main' = "gone" <=> main = "gone"

LEMMA ArrangedSame ==
    ASSUME TypeOK
    PROVE  Arranged(commits, commits) /\ commits \in Seq(CommitObjects(1..added))
<1>1. commits \in Seq(CommitObjects(1..added)) /\ 1..added \in SUBSET Nat
  BY DEF TypeOK
<1> QED BY <1>1, PassNothing DEF Pass

\* Every step is one of these, adds a commit, submits one, or gives some up.
LEMMA StepKinds ==
    ASSUME IInv, [Next]_vars
    PROVE  \/ Rearranges \/ Finishes
           \/ \E S \in SUBSET Planes \ {{}}, framed \in BOOLEAN : AddCommit(S, framed)
           \/ SubmitSucceeds \/ SubmitFails \/ Join
<1> USE DEF mainThread, kernel, history, handshake, lists, thread
<1>0. TypeOK /\ Handover /\ IInv'
  BY NextInv DEF IInv
<1>1. ASSUME commits' = commits, UNCHANGED <<screen, newest, failures, added, pc>>,
             main' = "gone" <=> main = "gone", flip' # "none" <=> flip # "none",
             readable \subseteq readable'
      PROVE  Rearranges
  BY <1>0, <1>1, ArrangedSame DEF Rearranges
<1>2. CASE Thread
  <2>1. CASE Worked /\ UNCHANGED <<mainThread, kernel, added, newest, failures>>
    <3>1. commits' \in Seq(CommitObjects(1..added))
      BY <1>0, <2>1 DEF IInv, TypeOK
    <3> QED BY <2>1, <3>1 DEF Worked, Rearranges
  <2> QED BY <1>2, <2>1, ThreadWorks
<1>3. CASE EventLoop
  <2>1. CASE DispatchEvents
    BY <2>1 DEF DispatchEvents, PageFlipped, Finishes
  <2>2. CASE ClearDroppedCommits
    BY <1>1, <2>2 DEF ClearDroppedCommits
  <2>3. CASE HandlePing
    <3>1. CASE flip = "event"
      BY <2>3, <3>1 DEF HandlePing, PageFlipped, Finishes
    <3>2. CASE flip # "event"
      BY <1>1, <2>3, <3>2 DEF HandlePing
    <3> QED BY <3>1, <3>2
  <2>4. CASE Pong
    BY <1>1, <2>4 DEF Pong
  <2> QED BY <1>3, <2>1, <2>2, <2>3, <2>4 DEF EventLoop
<1>4. CASE SpuriousWakeup
  BY <1>1, <1>4 DEF SpuriousWakeup
<1>5. CASE Destroy
  BY <1>1, <1>5 DEF Destroy
<1>6. ASSUME NEW id \in 1..MaxCommits, BuffersReadable(id)
      PROVE  Rearranges
  BY <1>1, <1>6 DEF BuffersReadable
<1>7. CASE FlipDone
  BY <1>1, <1>7 DEF FlipDone
<1>8. CASE UNCHANGED vars
  BY <1>1, <1>8 DEF vars
<1> QED BY <1>2, <1>3, <1>4, <1>5, <1>6, <1>7, <1>8 DEF Next

LEMMA ArrangedOrder ==
    ASSUME TypeOK, Order, Complete, Arranged(commits, commits'),
           commits' \in Seq(CommitObjects(1..added)),
           UNCHANGED <<screen, newest>>
    PROVE  /\ Order'
           /\ failures' = failures /\ (main' = "gone" <=> main = "gone") => Complete'
<1>1. 1..added \in SUBSET Nat /\ commits \in Seq(CommitObjects(1..added))
      /\ screen \in [Planes -> Nat] /\ newest \in [Planes -> Nat]
  BY DEF TypeOK
<1>2. Ordered(commits')
  BY DEF Arranged, Order
<1>3. ASSUME NEW p \in Planes
      PROVE  \A x \in Contents(commits', p) : screen[p] < x /\ x <= newest[p]
  BY DEF Arranged, Order
<1>4. Order'
  BY <1>2, <1>3 DEF Order
<1>5. ASSUME failures' = failures, main' = "gone" <=> main = "gone"
      PROVE  Complete'
  <2> SUFFICES ASSUME failures = 0, main # "gone", NEW p \in Planes,
                      newest[p] \in Contents(commits, p)
               PROVE  newest[p] \in Contents(commits', p)
    BY <1>5 DEF Complete
  <2>1. PICK y \in Contents(commits', p) : newest[p] <= y
    BY DEF Arranged, Order
  <2>2. y <= newest[p] /\ y \in Nat /\ newest[p] \in Nat
    BY <1>1, <1>3, ContentsMember
  <2>3. y = newest[p]
    BY <2>1, <2>2
  <2> QED BY <2>3
<1> QED BY <1>4, <1>5

LEMMA AddOrder ==
    ASSUME IInv, Order, Complete, NEW S \in SUBSET Planes \ {{}}, NEW framed \in BOOLEAN,
           AddCommit(S, framed)
    PROVE  /\ Order' /\ Complete'
           /\ \A p \in Planes : Contents(commits', p) =
                  IF p \in S THEN Contents(commits, p) \cup {newest'[p]} ELSE Contents(commits, p)
           /\ \A p \in S : newest'[p] = added + 1
<1> USE DEF mainThread, kernel, history, handshake, lists, thread
<1> DEFINE c == Commit(added + 1, S, framed)
           ids == 1..(added + 1)
<1>1. /\ commits' = Append(commits, c) /\ added' = added + 1
      /\ newest' = [p \in Planes |-> IF p \in S THEN added + 1 ELSE newest[p]]
      /\ UNCHANGED <<screen, failures, main>>
  BY DEF AddCommit
<1>2. /\ added \in Nat /\ commits \in Seq(CommitObjects(1..added))
      /\ screen \in [Planes -> 0..added] /\ newest \in [Planes -> 0..added]
  BY DEF IInv, TypeOK
<1>3. Modified(c) = S /\ \A p \in S : c.shows[p] = added + 1
  BY DEF Commit, Modified
<1>4. commits \in Seq(CommitObjects(ids)) /\ c \in CommitObjects(ids) /\ ids \in SUBSET Nat
  <2>1. 1..added \subseteq ids /\ added + 1 \in ids /\ ids \in SUBSET Nat
    BY <1>2
  <2>2. CommitObjects(1..added) \subseteq CommitObjects(ids)
    BY <2>1, CommitObjectsMonotonic
  <2> HIDE DEF ids
  <2>3. commits \in Seq(CommitObjects(ids))
    <3> DEFINE X == CommitObjects(1..added)
               Y == CommitObjects(ids)
    <3>1. commits \in Seq(X) /\ X \subseteq Y
      BY <1>2, <2>2
    <3> HIDE DEF X, Y
    <3>2. commits \in Seq(Y)
      BY <3>1, SeqMonotonic
    <3> QED BY <3>2 DEF Y
  <2>4. c \in CommitObjects(ids)
    <3>1. [p \in S |-> added + 1] \in [S -> ids] /\ S \in SUBSET Planes
      BY <2>1
    <3> QED BY <2>1, <3>1 DEF Commit, CommitObjects
  <2> QED BY <2>1, <2>3, <2>4
<1> HIDE DEF c, ids
<1>5. /\ \A p \in Planes : Contents(Append(commits, c), p) =
             Contents(commits, p) \cup (IF p \in Modified(c) THEN {c.shows[p]} ELSE {})
      /\ /\ Ordered(commits)
         /\ \A p \in Modified(c) : \A x \in Contents(commits, p) : x < c.shows[p]
         => Ordered(Append(commits, c))
  BY <1>4, AppendContents
<1>6. \A p \in Planes : Contents(commits', p) =
          IF p \in S THEN Contents(commits, p) \cup {newest'[p]} ELSE Contents(commits, p)
  BY <1>1, <1>3, <1>5
<1>7. \A p \in Planes : \A x \in Contents(commits, p) : x \in Nat /\ x <= added
  <2>1. 1..added \in SUBSET Nat
    BY <1>2
  <2>2. \A p \in Planes : \A x \in Contents(commits, p) : x \in 1..added
    BY <1>2, <2>1, ContentsMember
  <2> QED BY <1>2, <2>2
<1>8. Ordered(commits')
  <2>1. \A p \in Modified(c) : \A x \in Contents(commits, p) : x < c.shows[p]
    BY <1>2, <1>3, <1>7
  <2> QED BY <1>1, <1>5, <2>1 DEF Order
<1>9. ASSUME NEW p \in Planes
      PROVE  /\ screen[p] <= newest'[p]
             /\ \A x \in Contents(commits', p) : screen[p] < x /\ x <= newest'[p]
  <2>1. screen[p] \in Nat /\ screen[p] <= added /\ newest[p] \in Nat
    BY <1>2
  <2>2. /\ screen[p] <= newest[p]
        /\ \A x \in Contents(commits, p) : screen[p] < x /\ x <= newest[p]
    BY DEF Order
  <2>3. CASE p \in S
    <3>1. newest'[p] = added + 1
      BY <1>1, <2>3
    <3>2. \A x \in Contents(commits', p) : x \in Contents(commits, p) \/ x = added + 1
      BY <1>6, <2>3, <3>1
    <3> QED BY <1>2, <1>7, <2>1, <2>2, <3>1, <3>2
  <2>4. CASE p \notin S
    BY <1>1, <1>6, <2>2, <2>4
  <2> QED BY <2>3, <2>4
<1>10. Order'
  BY <1>1, <1>8, <1>9 DEF Order
<1>11. Complete'
  BY <1>1, <1>6 DEF Complete
<1> QED BY <1>1, <1>6, <1>10, <1>11

\* What submit does to the contents of a plane.
LEMMA SubmitOrder ==
    ASSUME IInv, Order, Complete, SubmitSucceeds
    PROVE  /\ Order' /\ Complete'
           /\ Modified(Head(commits)) \subseteq Planes
           /\ \A p \in Modified(Head(commits)) :
                 /\ screen'[p] = Head(commits).shows[p]
                 /\ screen'[p] \in Contents(commits, p)
                 /\ \A x \in Contents(commits, p) : screen'[p] <= x
                 /\ Contents(commits', p) = Contents(commits, p) \ {screen'[p]}
           /\ \A p \in Planes \ Modified(Head(commits)) :
                 screen'[p] = screen[p] /\ Contents(commits', p) = Contents(commits, p)
           /\ screen' \in [Planes -> Nat]
<1> USE DEF mainThread, kernel, history, handshake, lists, thread
<1> DEFINE c == Head(commits)
<1>1. /\ commits' = Tail(commits) /\ UNCHANGED <<newest, failures, main>>
      /\ screen' = [p \in Planes |-> IF p \in Modified(c) THEN c.shows[p] ELSE screen[p]]
  BY DEF SubmitSucceeds
<1>2. /\ commits \in Seq(CommitObjects(1..added)) /\ 1..added \in SUBSET Nat /\ commits # <<>>
      /\ screen \in [Planes -> Nat] /\ newest \in [Planes -> Nat]
  BY DEF IInv, TypeOK, Handover, SubmitSucceeds
<1>3. /\ Ordered(commits')
      /\ Modified(c) \subseteq Planes
      /\ \A p \in Modified(c) :
            /\ c.shows[p] \in Contents(commits, p)
            /\ \A x \in Contents(commits, p) : c.shows[p] <= x
            /\ Contents(commits', p) = Contents(commits, p) \ {c.shows[p]}
      /\ \A p \in Planes \ Modified(c) : Contents(commits', p) = Contents(commits, p)
  <2> DEFINE ids == 1..added
  <2>1. /\ ids \in SUBSET Nat /\ commits \in Seq(CommitObjects(ids)) /\ commits # <<>>
        /\ Ordered(commits)
    BY <1>2 DEF Order
  <2> HIDE DEF ids
  <2>2. /\ Ordered(Tail(commits))
        /\ Modified(Head(commits)) \subseteq Planes
        /\ \A p \in Modified(Head(commits)) :
              /\ Head(commits).shows[p] \in Contents(commits, p)
              /\ \A x \in Contents(commits, p) : Head(commits).shows[p] <= x
              /\ Contents(Tail(commits), p) = Contents(commits, p) \ {Head(commits).shows[p]}
        /\ \A p \in Planes \ Modified(Head(commits)) :
              Contents(Tail(commits), p) = Contents(commits, p)
    BY <2>1, TailContents
  <2> QED BY <1>1, <2>2, Zenon
<1> HIDE DEF c
<1>4. \A p \in Planes : \A x \in Contents(commits, p) : x \in Nat
  BY <1>2, ContentsMember
<1>5. \A p \in Modified(c) : screen'[p] = c.shows[p]
  BY <1>1, <1>3
<1>6. \A p \in Planes \ Modified(c) : screen'[p] = screen[p]
  BY <1>1
<1>7. screen' \in [Planes -> Nat]
  <2>1. \A p \in Planes : p \in Modified(c) => c.shows[p] \in Nat
    BY <1>3, <1>4
  <2> QED BY <1>1, <1>2, <2>1
<1>8. ASSUME NEW p \in Planes
      PROVE  /\ screen'[p] <= newest[p]
             /\ \A x \in Contents(commits', p) : screen'[p] < x /\ x <= newest[p]
             /\ newest[p] \in Contents(commits, p) \cup {screen[p]}
                   => newest[p] \in Contents(commits', p) \cup {screen'[p]}
  <2>1. /\ screen[p] <= newest[p] /\ screen[p] \in Nat /\ newest[p] \in Nat
        /\ \A x \in Contents(commits, p) : screen[p] < x /\ x <= newest[p]
    BY <1>2 DEF Order
  <2>2. CASE p \in Modified(c)
    <3>1. /\ screen'[p] \in Contents(commits, p) /\ screen'[p] \in Nat
          /\ \A x \in Contents(commits, p) : screen'[p] <= x
          /\ Contents(commits', p) = Contents(commits, p) \ {screen'[p]}
      BY <1>3, <1>4, <1>5, <2>2
    <3>2. screen'[p] <= newest[p]
      BY <2>1, <3>1
    <3>3. ASSUME NEW x \in Contents(commits', p)
          PROVE  screen'[p] < x /\ x <= newest[p]
      <4>1. x \in Contents(commits, p) /\ x # screen'[p] /\ x \in Nat
        BY <1>4, <3>1
      <4> QED BY <2>1, <3>1, <4>1
    <3>4. newest[p] # screen[p]
      BY <2>1, <3>1
    <3> QED BY <3>1, <3>2, <3>3, <3>4
  <2>3. CASE p \notin Modified(c)
    BY <1>3, <1>6, <2>1, <2>3
  <2> QED BY <2>2, <2>3
<1>9. Order'
  BY <1>1, <1>3, <1>8 DEF Order
<1>10. Complete'
  BY <1>1, <1>8 DEF Complete
<1> QED BY <1>3, <1>5, <1>6, <1>7, <1>9, <1>10 DEF c

\* What a refusal or the end of the output leaves.
LEMMA LoseOrder ==
    ASSUME IInv, Order, SubmitFails \/ Join
    PROVE  /\ Order' /\ Complete'
           /\ \A p \in Planes : Contents(commits', p) \subseteq Contents(commits, p)
           /\ ~(failures' = 0 /\ main' # "gone")
           /\ UNCHANGED <<screen, newest, flip>>
<1> USE DEF mainThread, kernel, history, handshake, lists, thread
<1>1. commits \in Seq(CommitObjects(1..added)) /\ 1..added \in SUBSET Nat /\ failures \in Nat
  BY DEF IInv, TypeOK
<1>2. UNCHANGED <<screen, newest, flip>> /\ ~(failures' = 0 /\ main' # "gone")
  BY <1>1 DEF SubmitFails, Join
<1>3. Complete'
  BY <1>2 DEF Complete
<1>4. CASE commits' = <<>>
  <2>1. Ordered(commits') /\ \A p \in Planes : Contents(commits', p) = {}
    BY <1>4 DEF Ordered, Contents
  <2>2. Order'
    BY <1>2, <2>1 DEF Order
  <2> QED BY <1>2, <1>3, <2>1, <2>2
<1>5. CASE commits' = <<MergeAll(commits)>>
  <2>1. Arranged(commits, commits')
    BY <1>1, <1>5, CollapseArranged
  <2>2. Order'
    BY <1>2, <2>1 DEF Order, Arranged
  <2> QED BY <1>2, <1>3, <2>1, <2>2 DEF Arranged
<1> QED BY <1>4, <1>5 DEF SubmitFails, Join

LEMMA OrderNext ==
    ASSUME IInv, Order, Complete, [Next]_vars
    PROVE  Order' /\ Complete'
<1>1. CASE Rearranges
  BY <1>1, ArrangedOrder DEF IInv, Rearranges
<1>2. CASE Finishes
  BY <1>2 DEF Finishes, Order, Complete
<1>3. ASSUME NEW S \in SUBSET Planes \ {{}}, NEW framed \in BOOLEAN, AddCommit(S, framed)
      PROVE  Order' /\ Complete'
  BY <1>3, AddOrder
<1>4. CASE SubmitSucceeds
  BY <1>4, SubmitOrder
<1>5. CASE SubmitFails \/ Join
  BY <1>5, LoseOrder
<1> QED BY <1>1, <1>2, <1>3, <1>4, <1>5, StepKinds

LEMMA OrderInit == Init => Order /\ Complete /\ ReadyToShow
<1> SUFFICES ASSUME Init PROVE Order /\ Complete /\ ReadyToShow
  OBVIOUS
<1> USE DEF Init
<1>1. Ordered(commits) /\ \A p \in Planes : Contents(commits, p) = {}
  BY DEF Ordered, Contents
<1>2. \A p \in Planes : screen[p] = 0 /\ newest[p] = 0
  OBVIOUS
<1> QED BY <1>1, <1>2 DEF Order, Complete, ReadyToShow

LEMMA OrderInvariance == Spec => [](IInv /\ Order /\ Complete)
<1>1. Init => Order /\ Complete
  BY OrderInit
<1>2. IInv /\ Order /\ Complete /\ [Next]_vars => Order' /\ Complete'
  BY OrderNext
<1> QED BY <1>1, <1>2, Invariance, PTL DEF Spec

\* submit never gives the kernel an older content of a plane after a newer one,
\* whatever optimizeCommits merged or moved in front of what, and whatever the
\* kernel refused in between.
THEOREM PlanesInOrderHolds == Spec => PlanesInOrder
<1> DEFINE Later == \A p \in Planes : screen'[p] >= screen[p]
<1>1. IInv /\ Order /\ Complete /\ [Next]_vars => [Later]_vars
  <2> SUFFICES ASSUME IInv, Order, Complete, [Next]_vars
               PROVE  Later
    OBVIOUS
  <2>0. \A p \in Planes : screen[p] \in Nat
    BY DEF IInv, TypeOK
  <2>1. CASE screen' = screen
    BY <2>0, <2>1
  <2>2. CASE SubmitSucceeds
    <3> TAKE p \in Planes
    <3>1. CASE p \in Modified(Head(commits))
      <4>1. screen'[p] \in Contents(commits, p) /\ screen' \in [Planes -> Nat]
        BY <2>2, <3>1, SubmitOrder
      <4>2. screen[p] < screen'[p] /\ screen'[p] \in Nat
        BY <4>1 DEF Order
      <4> QED BY <2>0, <4>2
    <3>2. CASE p \notin Modified(Head(commits))
      <4>1. screen'[p] = screen[p]
        BY <2>2, <3>2, SubmitOrder
      <4> QED BY <2>0, <4>1
    <3> QED BY <3>1, <3>2
  <2>3. ASSUME NEW S \in SUBSET Planes \ {{}}, NEW framed \in BOOLEAN, AddCommit(S, framed)
        PROVE  screen' = screen
    BY <2>3 DEF AddCommit, kernel
  <2>4. CASE SubmitFails \/ Join
    BY <2>1, <2>4, LoseOrder
  <2> HIDE DEF Later
  <2> QED BY <2>1, <2>2, <2>3, <2>4, StepKinds DEF Rearranges, Finishes
<1>2. Spec => [][Later]_vars
  <2> HIDE DEF Later
  <2> QED BY <1>1, OrderInvariance, PTL DEF Spec
<1> QED BY <1>2 DEF PlanesInOrder

\* Merging and reordering lose no update: as long as the kernel refuses nothing,
\* the last commit of m_commits on a plane, or else the kernel, has the newest
\* content added for it.
THEOREM NewestKeptHolds == Spec => []NewestKept
<1>1. IInv /\ Order /\ Complete => NewestKept
  <2> SUFFICES ASSUME IInv, Order, Complete, failures = 0, main # "gone", NEW p \in Planes
               PROVE  newest[p] = IF \A c \in Elements(commits) : p \notin Modified(c)
                                  THEN screen[p]
                                  ELSE commits[LastOn(commits, p)].shows[p]
    BY DEF NewestKept
  <2>1. /\ commits \in Seq(CommitObjects(1..added)) /\ 1..added \in SUBSET Nat
        /\ screen[p] \in Nat /\ newest[p] \in Nat
    BY DEF IInv, TypeOK
  <2>2. newest[p] \in Contents(commits, p) \cup {screen[p]}
    BY DEF Complete
  <2>3. CASE \A k \in DOMAIN commits : p \notin Modified(commits[k])
    <3>1. Contents(commits, p) = {}
      BY <2>3 DEF Contents
    <3>2. \A c \in Elements(commits) : p \notin Modified(c)
      BY <2>3 DEF Elements
    <3> QED BY <2>2, <3>1, <3>2
  <2>4. CASE \E k \in DOMAIN commits : p \in Modified(commits[k])
    <3> DEFINE l == LastOn(commits, p)
    <3>1. ~\A c \in Elements(commits) : p \notin Modified(c)
      BY <2>4 DEF Elements
    <3>2. /\ l \in DOMAIN commits /\ p \in Modified(commits[l])
          /\ \A j \in DOMAIN commits : p \in Modified(commits[j]) => j <= l
      BY <2>1, <2>4, LastOnFound
    <3> HIDE DEF l
    <3>3. commits[l].shows[p] \in Contents(commits, p) /\ commits[l].shows[p] \in Nat
      BY <2>1, <3>2, ContentsMember
    <3>4. screen[p] < commits[l].shows[p] /\ commits[l].shows[p] <= newest[p]
      BY <3>3 DEF Order
    <3>5. newest[p] \in Contents(commits, p)
      BY <2>1, <2>2, <3>3, <3>4
    <3>6. PICK k \in DOMAIN commits : p \in Modified(commits[k]) /\ commits[k].shows[p] = newest[p]
      BY <3>5 DEF Contents
    <3>7. k = l \/ k < l
      <4>1. DOMAIN commits \subseteq Nat
        BY <2>1, LenProperties
      <4> QED BY <3>2, <3>6, <4>1
    <3>8. newest[p] <= commits[l].shows[p]
      BY <2>1, <3>2, <3>3, <3>6, <3>7 DEF Order, Ordered
    <3>9. newest[p] = commits[l].shows[p]
      BY <2>1, <3>3, <3>4, <3>8
    <3> QED BY <3>1, <3>9 DEF l
  <2> QED BY <2>3, <2>4
<1> QED BY <1>1, OrderInvariance, PTL

LEMMA ReadyNext ==
    ASSUME IInv, Order, Complete, ReadyToShow, [Next]_vars
    PROVE  ReadyToShow'
<1> USE DEF mainThread, kernel, history, handshake, lists, thread
<1> SUFFICES ASSUME failures' = 0
             PROVE  /\ \A p \in Planes : screen'[p] \in readable' \cup {0}
                    /\ pc' \in {"delay", "submit"} => Readable(commits[1])'
  BY DEF ReadyToShow
<1>1. CASE Rearranges
  <2>1. failures = 0 /\ \A p \in Planes : screen'[p] \in readable' \cup {0}
    BY <1>1 DEF Rearranges, ReadyToShow
  <2>2. ASSUME pc' \in {"delay", "submit"}
        PROVE  Readable(commits[1])'
    <3>1. Readable(commits'[1])
      BY <1>1, <2>1, <2>2 DEF Rearranges, ReadyToShow
    <3>2. readable \subseteq readable'
      BY <1>1 DEF Rearranges
    <3> QED BY <3>1, <3>2 DEF Readable
  <2> QED BY <2>1, <2>2
<1>2. CASE Finishes
  BY <1>2 DEF Finishes, ReadyToShow, Readable
<1>3. ASSUME NEW S \in SUBSET Planes \ {{}}, NEW framed \in BOOLEAN, AddCommit(S, framed)
      PROVE  /\ \A p \in Planes : screen'[p] \in readable' \cup {0}
             /\ pc' \in {"delay", "submit"} => Readable(commits[1])'
  <2> DEFINE c == Commit(added', S, framed)
  <2>1. /\ commits' = Append(commits, c)
        /\ UNCHANGED <<readable, screen, failures, pc>>
    BY <1>3 DEF AddCommit
  <2>2. commits \in Seq(CommitObjects(1..added))
    BY DEF IInv, TypeOK
  <2> HIDE DEF c
  <2>3. commits # <<>> => commits'[1] = commits[1]
    BY <2>1, <2>2
  <2>4. pc \in {"delay", "submit"} => commits # <<>>
    BY DEF IInv, Handover
  <2> QED BY <2>1, <2>3, <2>4 DEF ReadyToShow, Readable
<1>4. CASE SubmitSucceeds
  <2>1. /\ pc = "submit" /\ pc' = "check" /\ UNCHANGED <<failures, readable>>
    BY <1>4 DEF SubmitSucceeds
  <2>2. Readable(commits[1]) /\ \A p \in Planes : screen[p] \in readable \cup {0}
    BY <2>1 DEF ReadyToShow
  <2>3. Head(commits) = commits[1]
    BY <2>1 DEF IInv, Handover, TypeOK
  <2>4. \A p \in Planes : screen'[p] \in readable \cup {0}
    BY <1>4, <2>2, <2>3 DEF SubmitSucceeds, Readable
  <2> QED BY <2>1, <2>4
<1>5. CASE SubmitFails
  BY <1>5 DEF SubmitFails, IInv, TypeOK
<1>6. CASE Join
  BY <1>6 DEF Join, ReadyToShow, Readable, IInv, Handover
<1> QED BY <1>1, <1>2, <1>3, <1>4, <1>5, <1>6, StepKinds

\* As long as the kernel takes every commit, it is never given a buffer that the
\* GPU still writes to.
THEOREM ShownReadableHolds == Spec => []ShownReadable
<1>1. Init => ReadyToShow
  BY OrderInit
<1>2. IInv /\ Order /\ Complete /\ ReadyToShow /\ [Next]_vars => ReadyToShow'
  BY ReadyNext
<1>3. ReadyToShow => ShownReadable
  BY DEF ReadyToShow, ShownReadable
<1> QED BY <1>1, <1>2, <1>3, OrderInvariance, PTL DEF Spec

\* No step of the commit thread drops the last reference to an OutputFrame: what
\* it replaces by a merged copy is left in m_commitsToDelete for the main thread.
THEOREM FramesDroppedByMainHolds == Spec => FramesDroppedByMain
<1> DEFINE Objects == Elements(commits) \cup toDelete
                        \cup (IF committed = None THEN {} ELSE {committed})
           Of(objects) == UNION {{<<p, c.shows[p]>> : p \in Modified(c)} : c \in objects}
<1>1. ASSUME NEW A, NEW B, A \subseteq B
      PROVE  Of(A) \subseteq Of(B)
  BY <1>1
<1>2. IInv /\ Thread => Frames \subseteq Frames'
  <2> SUFFICES ASSUME IInv, Thread PROVE Objects \subseteq Objects'
    <3>1. Frames = Of(Objects) /\ Frames' = Of(Objects')
      BY DEF Frames
    <3> HIDE DEF Of, Objects
    <3> QED BY <1>1, <3>1
  <2>1. CASE Worked
    BY <2>1 DEF Worked
  <2>2. CASE SubmitSucceeds
    <3>1. /\ commits' = Tail(commits) /\ committed' = Head(commits) /\ toDelete' = toDelete
      BY <2>2 DEF SubmitSucceeds
    <3>2. commits \in Seq(CommitObjects(1..added)) /\ commits # <<>> /\ committed = None
      BY <2>2 DEF SubmitSucceeds, IInv, TypeOK, Handover
    <3>3. committed' # None
      <4>1. IInv' /\ main # "gone" /\ main' = main /\ flip' # "none"
        BY <2>2, ThreadInv DEF SubmitSucceeds, mainThread, IInv, Handover
      <4> QED BY <4>1 DEF IInv, Handover
    <3>4. Elements(commits) \subseteq Elements(Tail(commits)) \cup {Head(commits)}
      <4> SUFFICES ASSUME NEW k \in DOMAIN commits
                   PROVE  commits[k] \in Elements(Tail(commits)) \cup {Head(commits)}
        BY DEF Elements
      <4>1. CASE k = 1
        BY <3>2, <4>1
      <4>2. CASE k # 1
        <5>1. k - 1 \in DOMAIN Tail(commits) /\ Tail(commits)[k - 1] = commits[k]
          BY <3>2, <4>2
        <5> QED BY <5>1 DEF Elements
      <4> QED BY <4>1, <4>2
    <3> QED BY <3>1, <3>2, <3>3, <3>4
  <2>3. CASE SubmitFails
    BY <2>3 DEF SubmitFails
  <2> HIDE DEF Objects
  <2> QED BY <2>1, <2>2, <2>3, ThreadWorks
<1>3. Spec => [][Thread => Frames \subseteq Frames']_vars
  <2>1. IInv => [Thread => Frames \subseteq Frames']_vars
    BY <1>2
  <2> QED BY <2>1, Invariance, PTL DEF Spec
<1> QED BY <1>3 DEF FramesDroppedByMain

------------------------------------------------------------------------------
(* The refinement of the mailboxes                                          *)

\* What PlaneUpdates sees of the state.
Mailbox == [p \in Planes |-> Contents(commits, p)]
Flipping == flip # "none"
Lossless == failures = 0 /\ main # "gone"

LEMMA UpdatesInit == Init => Updates!Init
<1> SUFFICES ASSUME Init PROVE Updates!Init
  OBVIOUS
<1>1. \A p \in Planes : Contents(commits, p) = {}
  BY DEF Init, Contents
<1>2. Mailbox = [p \in Planes |-> {}]
  BY <1>1 DEF Mailbox
<1> QED BY <1>2 DEF Init, Updates!Init, Mailbox

\* optimizeCommits skips contents that later ones replace.
LEMMA UpdatesSkip ==
    ASSUME IInv, Order, Rearranges
    PROVE  Updates!Skip
<1>1. \A p \in Planes : /\ Contents(commits', p) \subseteq Contents(commits, p)
                        /\ \A x \in Contents(commits, p) : \E y \in Contents(commits', p) : x <= y
  BY DEF Rearranges, Arranged, Order
<1>2. /\ DOMAIN Mailbox' = Planes
      /\ \A p \in Planes : Mailbox[p] = Contents(commits, p) /\ Mailbox'[p] = Contents(commits', p)
  BY DEF Mailbox
<1>3. /\ DOMAIN Mailbox' = Planes
      /\ \A p \in Planes : /\ Mailbox'[p] \subseteq Mailbox[p]
                           /\ \A x \in Mailbox[p] : \E y \in Mailbox'[p] : x <= y
  BY <1>1, <1>2
<1>4. UNCHANGED <<newest, screen, Flipping, Lossless>>
  BY DEF Rearranges, Flipping, Lossless
<1> QED BY <1>3, <1>4 DEF Updates!Skip, Mailbox, Flipping, Lossless

\* addCommit adds a content.
LEMMA UpdatesAdd ==
    ASSUME IInv, Order, Complete, NEW S \in SUBSET Planes \ {{}}, NEW framed \in BOOLEAN,
           AddCommit(S, framed)
    PROVE  Updates!Add(S)
<1>1. /\ \A p \in Planes : Contents(commits', p) =
             IF p \in S THEN Contents(commits, p) \cup {newest'[p]} ELSE Contents(commits, p)
      /\ \A p \in S : newest'[p] = added + 1
  BY AddOrder
<1> USE DEF mainThread, kernel, history, handshake, lists, thread
<1>2. /\ newest' = [p \in Planes |-> IF p \in S THEN added + 1 ELSE newest[p]]
      /\ UNCHANGED <<screen, failures, main, flip>>
  BY DEF AddCommit
<1>3. added \in Nat /\ newest \in [Planes -> 0..added]
  BY DEF IInv, TypeOK
<1>4. newest' \in [Planes -> Nat] /\ \A p \in Planes \ S : newest'[p] = newest[p]
  BY <1>2, <1>3
<1>5. \A p \in S : /\ \A q \in Planes : newest'[p] > newest[q]
                   /\ \A q \in S : newest'[p] = newest'[q]
  BY <1>1, <1>3
<1>6. Mailbox' = [p \in Planes |->
                    IF p \in S THEN Mailbox[p] \cup {newest'[p]} ELSE Mailbox[p]]
  BY <1>1 DEF Mailbox
<1>7. UNCHANGED <<screen, Flipping, Lossless>>
  BY <1>2 DEF Flipping, Lossless
<1> QED BY <1>4, <1>5, <1>6, <1>7 DEF Updates!Add, Mailbox, Flipping, Lossless

\* A commit the kernel takes shows the next contents of its planes, if it
\* modifies any.
LEMMA UpdatesPresent ==
    ASSUME IInv, Order, Complete, SubmitSucceeds
    PROVE  \E S \in SUBSET Planes : Updates!Present(S)
<1> USE DEF mainThread, kernel, history, handshake, lists, thread
<1> DEFINE S == Modified(Head(commits))
<1>1. /\ S \subseteq Planes
      /\ \A p \in S : /\ screen'[p] \in Contents(commits, p)
                      /\ \A x \in Contents(commits, p) : screen'[p] <= x
                      /\ Contents(commits', p) = Contents(commits, p) \ {screen'[p]}
      /\ \A p \in Planes \ S :
            screen'[p] = screen[p] /\ Contents(commits', p) = Contents(commits, p)
      /\ screen' \in [Planes -> Nat]
  BY SubmitOrder
<1> HIDE DEF S
<1>2. flip = "none" /\ flip' = "pending" /\ UNCHANGED <<newest, failures, main>>
  BY DEF SubmitSucceeds
<1>3. \A p \in S : screen'[p] \in Mailbox[p] /\ \A x \in Mailbox[p] : screen'[p] <= x
  BY <1>1 DEF Mailbox
<1>4. screen' = [p \in Planes |-> IF p \in S THEN screen'[p] ELSE screen[p]]
  BY <1>1
<1>5. Mailbox' = [p \in Planes |-> IF p \in S THEN Mailbox[p] \ {screen'[p]} ELSE Mailbox[p]]
  BY <1>1 DEF Mailbox
<1>6. ~Flipping /\ Flipping' = TRUE /\ UNCHANGED <<newest, Lossless>>
  BY <1>2 DEF Flipping, Lossless
<1>7. Updates!Present(S)
  BY <1>3, <1>4, <1>5, <1>6 DEF Updates!Present, Mailbox, Flipping, Lossless
<1> QED BY <1>1, <1>7

\* The page flip event ends a page flip.
LEMMA UpdatesFinish ==
    ASSUME Finishes
    PROVE  Updates!Finish
<1>1. Flipping /\ Flipping' = FALSE /\ UNCHANGED <<Mailbox, newest, screen, Lossless>>
  BY DEF Finishes, Flipping, Mailbox, Lossless
<1> QED BY <1>1 DEF Updates!Finish, Flipping, Mailbox, Lossless

\* A refused commit, and the end of the output, give contents up.
LEMMA UpdatesLose ==
    ASSUME IInv, Order, SubmitFails \/ Join
    PROVE  Updates!Lose
<1>1. /\ \A p \in Planes : Contents(commits', p) \subseteq Contents(commits, p)
      /\ ~(failures' = 0 /\ main' # "gone")
      /\ UNCHANGED <<screen, newest, flip>>
  BY LoseOrder
<1>2. /\ DOMAIN Mailbox' = Planes
      /\ \A p \in Planes : Mailbox'[p] \subseteq Mailbox[p]
  BY <1>1 DEF Mailbox
<1>3. Lossless' = FALSE /\ UNCHANGED <<newest, screen, Flipping>>
  BY <1>1 DEF Flipping, Lossless
<1> QED BY <1>2, <1>3 DEF Updates!Lose, Mailbox, Flipping, Lossless

\* The commit thread implements the mailboxes: a plane shows its contents in the
\* order addCommit got them, one page flip at a time, and skips one only for a
\* later one, unless the kernel refuses a commit or the output goes away.
THEOREM UpdatesImplemented == Spec => ImplementsUpdates
<1>1. Init => Updates!Init
  BY UpdatesInit
<1>2. IInv /\ Order /\ Complete /\ [Next]_vars => [Updates!Next]_(Updates!vars)
  <2> SUFFICES ASSUME IInv, Order, Complete, [Next]_vars
               PROVE  Updates!Next
    OBVIOUS
  <2>1. CASE Rearranges
    BY <2>1, UpdatesSkip DEF Updates!Next
  <2>2. CASE Finishes
    BY <2>2, UpdatesFinish DEF Updates!Next
  <2>3. ASSUME NEW S \in SUBSET Planes \ {{}}, NEW framed \in BOOLEAN, AddCommit(S, framed)
        PROVE  Updates!Next
    BY <2>3, UpdatesAdd DEF Updates!Next
  <2>4. CASE SubmitSucceeds
    BY <2>4, UpdatesPresent DEF Updates!Next
  <2>5. CASE SubmitFails \/ Join
    BY <2>5, UpdatesLose DEF Updates!Next
  <2> QED BY <2>1, <2>2, <2>3, <2>4, <2>5, StepKinds
<1> QED BY <1>1, <1>2, OrderInvariance, PTL DEF Spec, ImplementsUpdates, Updates!Spec

==============================================================================
