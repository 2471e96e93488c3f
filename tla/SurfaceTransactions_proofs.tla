---------------------- MODULE SurfaceTransactions_proofs ----------------------
(***************************************************************************)
(* Proof that the variables of SurfaceTransactions keep their types, with  *)
(* the facts about its operators and its call stack that the proofs about  *)
(* the transactions use as well.                                           *)
(***************************************************************************)
EXTENDS SurfaceTransactions, SequenceTheorems, WellFoundedInduction, TLAPS

------------------------------------------------------------------------------
(* The call stack                                                           *)

\* The fields a call has, by the function it calls.
LEMMA CallFields ==
    ASSUME NEW c \in CallType
    PROVE  /\ c.op \in {"commit", "tryApply", "applyStates", "unlink"}
                => c.tx \in Transactions
           /\ c.op \in {"applyStates", "unlink"} => c.index \in Nat \ {0}
           /\ c.op \in SurfaceCalls => c.todo \in SUBSET Surfaces
           /\ c.op = "merge" => c.tx \in Transactions /\ c.surface \in Surfaces
           /\ c.op = "add" => /\ c.tx \in Transactions
                              /\ c.surface \in Surfaces
                              /\ c.state \in StateType
           /\ c.op = "addChild" => c.surface \in Surfaces /\ c.parent \in Surfaces
<1> DEFINE T1 == [op: {"commit", "tryApply"}, tx: Transactions]
           T2 == [op: {"applyStates", "unlink"}, tx: Transactions,
                  index: Nat \ {0}]
           T3 == [op: SurfaceCalls, todo: SUBSET Surfaces]
           T4 == [op: {"merge"}, tx: Transactions, surface: Surfaces]
           T5 == [op: {"add"}, tx: Transactions, surface: Surfaces,
                  state: StateType]
           T6 == [op: {"addChild"}, surface: Surfaces, parent: Surfaces]
<1>0. c \in T1 \/ c \in T2 \/ c \in T3 \/ c \in T4 \/ c \in T5 \/ c \in T6
  BY DEF CallType
<1>1. ASSUME c \in T1
      PROVE  c.op \in {"commit", "tryApply"} /\ c.tx \in Transactions
  BY <1>1
<1>2. ASSUME c \in T2
      PROVE  /\ c.op \in {"applyStates", "unlink"}
             /\ c.tx \in Transactions /\ c.index \in Nat \ {0}
  BY <1>2
<1>3. ASSUME c \in T3
      PROVE  c.op \in SurfaceCalls /\ c.todo \in SUBSET Surfaces
  BY <1>3
<1>4. ASSUME c \in T4
      PROVE  c.op = "merge" /\ c.tx \in Transactions /\ c.surface \in Surfaces
  BY <1>4
<1>5. ASSUME c \in T5
      PROVE  /\ c.op = "add" /\ c.tx \in Transactions /\ c.surface \in Surfaces
             /\ c.state \in StateType
  BY <1>5
<1>6. ASSUME c \in T6
      PROVE  c.op = "addChild" /\ c.surface \in Surfaces /\ c.parent \in Surfaces
  BY <1>6
<1> HIDE DEF T1, T2, T3, T4, T5, T6
<1> QED
  BY <1>0, <1>1, <1>2, <1>3, <1>4, <1>5, <1>6 DEF SurfaceCalls

\* The calls the functions make are calls.
LEMMA CallsTyped ==
    /\ \A op \in {"commit", "tryApply"} : \A t \in Transactions :
          OnTx(op, t) \in CallType
    /\ \A op \in {"applyStates", "unlink"} : \A t \in Transactions :
          \A i \in Nat \ {0} : OnEntry(op, t, i) \in CallType
    /\ \A op \in SurfaceCalls : \A S \in SUBSET Surfaces :
          OnSurfaces(op, S) \in CallType
    /\ \A t \in Transactions, s \in Surfaces : Merge(t, s) \in CallType
    /\ \A t \in Transactions, s \in Surfaces, state \in StateType :
          Add(t, s, state) \in CallType
    /\ \A s, p \in Surfaces : AddChild(s, p) \in CallType
<1>1. \A op \in {"commit", "tryApply"} : \A t \in Transactions :
         OnTx(op, t) \in CallType
  BY DEF CallType, OnTx
<1>2. \A op \in {"applyStates", "unlink"} : \A t \in Transactions :
         \A i \in Nat \ {0} : OnEntry(op, t, i) \in CallType
  BY DEF CallType, OnEntry
<1>3. \A op \in SurfaceCalls : \A S \in SUBSET Surfaces :
         OnSurfaces(op, S) \in CallType
  BY DEF CallType, OnSurfaces
<1>4. \A t \in Transactions, s \in Surfaces : Merge(t, s) \in CallType
  BY DEF CallType, Merge
<1>5. \A t \in Transactions, s \in Surfaces, state \in StateType :
         Add(t, s, state) \in CallType
  BY DEF CallType, Add
<1>6. \A s, p \in Surfaces : AddChild(s, p) \in CallType
  BY DEF CallType, AddChild
<1> QED BY <1>1, <1>2, <1>3, <1>4, <1>5, <1>6

\* What the running function is.
LEMMA RunningCall ==
    ASSUME TypeOK, NEW op, Running(op)
    PROVE  /\ stack # <<>>
           /\ Head(stack) \in CallType
           /\ Head(stack).op = op
           /\ Tail(stack) \in Seq(CallType)
BY HeadTailProperties DEF TypeOK, Running

LEMMA ReturnViaTyped ==
    ASSUME TypeOK, stack # <<>>, NEW calls \in Seq(CallType), ReturnVia(calls)
    PROVE  stack' \in Seq(CallType)
<1>1. Tail(stack) \in Seq(CallType)
  BY HeadTailProperties DEF TypeOK
<1> QED BY <1>1, ConcatProperties DEF ReturnVia

\* A loop stays on the stack without the surface it has visited.
LEMMA VisitViaTyped ==
    ASSUME TypeOK, stack # <<>>, Head(stack).op \in SurfaceCalls,
           NEW s, NEW calls \in Seq(CallType), VisitVia(s, calls)
    PROVE  stack' \in Seq(CallType)
<1> DEFINE c == Head(stack)
           rest == [c EXCEPT !.todo = @ \ {s}]
<1>1. c \in CallType /\ Tail(stack) \in Seq(CallType)
  BY HeadTailProperties DEF TypeOK
<1>2. c \in [op: SurfaceCalls, todo: SUBSET Surfaces]
  BY <1>1 DEF CallType, SurfaceCalls
<1>3. rest \in [op: SurfaceCalls, todo: SUBSET Surfaces]
  BY <1>2
<1>4. rest \in CallType
  BY <1>3 DEF CallType
<1>5. <<rest>> \in Seq(CallType)
  BY <1>4
<1>6. stack' = calls \o <<rest>> \o Tail(stack)
  BY DEF VisitVia
<1> HIDE DEF rest
<1> QED BY <1>1, <1>5, <1>6, ConcatProperties

------------------------------------------------------------------------------
(* States and entries                                                       *)

\* A set of natural numbers has a least element.
LEMMA LeastPlace ==
    ASSUME NEW T \in SUBSET Nat, T # {}
    PROVE  \E x \in T : \A y \in T : x <= y
<1> DEFINE R == OpToRel(<, Nat)
<1>1. PICK x \in T : \A y \in T : <<y, x>> \notin R
  BY NatLessThanWellFounded, WFMin, Zenon
<1>2. \A y \in T : ~(y < x)
  BY <1>1 DEF OpToRel
<1> QED BY <1>2

LEMMA MergeIntoTyped ==
    ASSUME NEW source \in StateType, NEW target \in StateType
    PROVE  MergeInto(source, target) \in StateType
BY DEF StateType, MergeInto, Buffers

LEMMA MainGenerationTyped ==
    ASSUME TypeOK, NEW s \in Surfaces
    PROVE  MainGeneration(s) \in Nat
BY DEF TypeOK, MainGeneration, MainSurfaces, Path

\* Changing fields of the entries at some places leaves a sequence of entries.
LEMMA EntriesMapped ==
    ASSUME NEW es \in Seq(EntryType), NEW fs,
           fs = [i \in DOMAIN es |-> fs[i]],
           \A i \in DOMAIN es : fs[i] \in EntryType
    PROVE  fs \in Seq(EntryType) /\ Len(fs) = Len(es)
<1>1. DOMAIN es = 1..Len(es) /\ Len(es) \in Nat
  BY LenProperties
<1>2. fs \in [1..Len(es) -> EntryType]
  BY <1>1
<1> QED BY <1>1, <1>2, LenProperties

LEMMA AmendedTyped ==
    ASSUME entries \in [Transactions -> Seq(EntryType)],
           NEW s \in Surfaces, NEW added \in SUBSET Surfaces,
           NEW removed \in SUBSET Surfaces
    PROVE  AmendChildren(s, added, removed) \in [Transactions -> Seq(EntryType)]
<1> DEFINE Amended(e) == [e EXCEPT !.state.children = (@ \cup added) \ removed]
<1>1. \A e \in EntryType : Amended(e) \in EntryType
  <2> SUFFICES ASSUME NEW e \in EntryType PROVE Amended(e) \in EntryType
    OBVIOUS
  <2>1. e.state \in StateType
    BY DEF EntryType
  <2>2. [e.state EXCEPT !.children = (@ \cup added) \ removed] \in StateType
    BY <2>1 DEF StateType
  <2>3. Amended(e) = [e EXCEPT !.state =
                        [e.state EXCEPT !.children = (@ \cup added) \ removed]]
    BY DEF EntryType
  <2> HIDE DEF Amended
  <2> QED BY <2>2, <2>3 DEF EntryType
<1> SUFFICES ASSUME NEW t \in Transactions
             PROVE  AmendChildren(s, added, removed)[t] \in Seq(EntryType)
  BY DEF AmendChildren
<1> DEFINE fs == AmendChildren(s, added, removed)[t]
           es == entries[t]
<1>2. es \in Seq(EntryType)
  OBVIOUS
<1>3. CASE ~(t = cached[s] \/ t \in Chain(s))
  BY <1>2, <1>3 DEF AmendChildren
<1>4. CASE t = cached[s] \/ t \in Chain(s)
  <2>1. fs = [i \in DOMAIN es |-> IF es[i].surface = s THEN Amended(es[i])
                                  ELSE es[i]]
    BY <1>4 DEF AmendChildren
  <2> HIDE DEF fs, Amended
  <2>2. fs = [i \in DOMAIN es |-> fs[i]]
    BY <2>1
  <2>3. \A i \in DOMAIN es : es[i] \in EntryType
    BY <1>2, ElementOfSeq, LenProperties
  <2>4. \A i \in DOMAIN es : fs[i] \in EntryType
    BY <1>1, <2>1, <2>3
  <2> HIDE DEF es
  <2> QED BY <1>2, <2>2, <2>4, EntriesMapped DEF fs
<1> QED BY <1>3, <1>4

LEMMA WithStateTyped ==
    ASSUME entries \in [Transactions -> Seq(EntryType)],
           NEW t \in Transactions, NEW s \in Surfaces, NEW state \in StateType
    PROVE  WithState(t, s, state) \in Seq(EntryType)
<1> DEFINE fresh == [surface |-> s, state |-> state, fence |-> FALSE,
                     prev |-> None, next |-> None]
           same == EntriesOf(t, s)
           es == entries[t]
           i == CHOOSE j \in same : \A k \in same : j <= k
<1>1. fresh \in EntryType
  BY DEF EntryType
<1>2. es \in Seq(EntryType) /\ DOMAIN es = 1..Len(es) /\ Len(es) \in Nat
  BY LenProperties
<1>3. CASE same = {}
  BY <1>1, <1>2, <1>3, AppendProperties DEF WithState
<1>4. CASE same # {}
  <2> DEFINE merged == [es[i] EXCEPT !.state = MergeInto(state, @)]
  <2>0. same \subseteq 1..Len(es)
    BY <1>2 DEF EntriesOf
  <2>1. i \in same
    <3>2. same \in SUBSET Nat
      BY <2>0, <1>2
    <3> HIDE DEF same
    <3> QED BY <1>4, <3>2, LeastPlace
  <2>2. es[i] \in EntryType
    BY <1>2, <2>0, <2>1, ElementOfSeq
  <2>3. MergeInto(state, es[i].state) \in StateType
    <3>1. es[i].state \in StateType
      BY <2>2 DEF EntryType
    <3> QED BY <3>1, MergeIntoTyped
  <2>4. merged \in EntryType
    BY <2>2, <2>3 DEF EntryType
  <2>5. WithState(t, s, state) = [es EXCEPT ![i] = merged]
    BY <1>4 DEF WithState
  <2> HIDE DEF merged, i, same, es
  <2> QED BY <1>2, <2>0, <2>1, <2>4, <2>5, ExceptSeq
<1> QED BY <1>3, <1>4

------------------------------------------------------------------------------
(* The steps keep the types                                                 *)

LEMMA InitTyped == Init => TypeOK
<1> SUFFICES ASSUME Init PROVE TypeOK
  OBVIOUS
<1> USE ConstantsAssumption
<1>1. current \in [Surfaces -> StateType]
  BY DEF Init, StateType, Buffers
<1>2. entries \in [Transactions -> Seq(EntryType)]
  <2>1. <<>> \in Seq(EntryType)
    BY EmptySeq
  <2> QED BY <2>1 DEF Init
<1>3. latched \in [Surfaces -> Seq([Surfaces -> Nat])] /\ stack \in Seq(CallType)
  <2>1. <<>> \in Seq([Surfaces -> Nat]) /\ <<>> \in Seq(CallType)
    BY EmptySeq
  <2> QED BY <2>1 DEF Init
<1> QED BY <1>1, <1>2, <1>3 DEF Init, TypeOK

LEMMA SurfaceCommitTyped ==
    ASSUME TypeOK, NEW s \in Surfaces, NEW shape \in CommitShapes,
           SurfaceCommit(s, shape)
    PROVE  TypeOK'
<1> DEFINE sync == Synchronized(s)
           state == [content |-> commits[s] + 1,
                     buffer |-> shape.buffer,
                     barrier |-> shape.barrier,
                     wait |-> shape.wait /\ ~sync,
                     generation |-> MainGeneration(s),
                     children |-> children[s]]
           counts == [c \in Surfaces |->
                        IF c \in children[s] THEN commits[c] ELSE 0]
<1>1. PICK t \in Transactions :
        /\ status' = [status EXCEPT ![t] = "pending"]
        /\ cached' = IF sync THEN [cached EXCEPT ![s] = t] ELSE cached
        /\ stack' = <<Merge(t, s), Add(t, s, state)>>
                      \o (IF sync THEN <<>> ELSE <<OnTx("commit", t)>>)
  BY DEF SurfaceCommit
<1>2. state \in StateType
  <2>1. shape \in Shapes
    BY ConstantsAssumption
  <2>2. shape.buffer \in Buffers /\ shape.barrier \in BOOLEAN
    BY <2>1 DEF Shapes
  <2>3. MainGeneration(s) \in Nat
    BY MainGenerationTyped
  <2>4. (shape.wait /\ ~sync) \in BOOLEAN
    OBVIOUS
  <2>5. commits[s] + 1 \in Nat /\ children[s] \in SUBSET Surfaces
    BY DEF TypeOK
  <2> QED BY <2>2, <2>3, <2>4, <2>5 DEF StateType
<1>3. stack' \in Seq(CallType)
  <2> HIDE DEF state
  <2>1. <<Merge(t, s), Add(t, s, state)>> \in Seq(CallType)
    <3>1. Merge(t, s) \in CallType /\ Add(t, s, state) \in CallType
      BY <1>2, CallsTyped
    <3> QED BY <3>1
  <2>2. (IF sync THEN <<>> ELSE <<OnTx("commit", t)>>) \in Seq(CallType)
    <3>1. OnTx("commit", t) \in CallType
      BY CallsTyped
    <3> QED BY <3>1
  <2> QED BY <1>1, <2>1, <2>2, ConcatProperties
<1>4. latched' \in [Surfaces -> Seq([Surfaces -> Nat])]
  <2>1. counts \in [Surfaces -> Nat]
    BY DEF TypeOK
  <2>2. latched' = [latched EXCEPT ![s] = Append(@, counts)]
    BY DEF SurfaceCommit
  <2> HIDE DEF counts
  <2>3. Append(latched[s], counts) \in Seq([Surfaces -> Nat])
    BY <2>1, AppendProperties DEF TypeOK
  <2> QED BY <2>2, <2>3 DEF TypeOK
<1>5. commits' \in [Surfaces -> Nat] /\ cached' \in [Surfaces -> Transactions \cup {None}]
  BY <1>1 DEF SurfaceCommit, TypeOK
<1> QED
  BY <1>1, <1>3, <1>4, <1>5 DEF SurfaceCommit, TypeOK, tree, shown

LEMMA MergeChildTyped == TypeOK /\ MergeChild => TypeOK'
<1> SUFFICES ASSUME TypeOK, MergeChild PROVE TypeOK'
  OBVIOUS
<1> DEFINE t == Head(stack).tx
           holders == {c \in children[Head(stack).surface] : cached[c] # None}
<1>1. /\ stack # <<>> /\ t \in Transactions
      /\ Head(stack).surface \in Surfaces
  BY RunningCall, CallFields DEF MergeChild
<1>2. CASE holders = {}
  <2>1. stack' \in Seq(CallType)
    BY <1>1, <1>2, EmptySeq, ReturnViaTyped DEF MergeChild
  <2> QED
    BY <1>2, <2>1 DEF MergeChild, TypeOK, tree, shown, history
<1>3. CASE holders # {}
  <2> DEFINE c == CHOOSE h \in holders : TRUE
  <2>1. /\ entries' = [entries EXCEPT ![t] = @ \o entries[cached[c]],
                                      ![cached[c]] = <<>>]
        /\ status' = [status EXCEPT ![cached[c]] = "free"]
        /\ cached' = [cached EXCEPT ![c] = None]
        /\ UNCHANGED stack
    BY <1>3 DEF MergeChild
  <2>2. c \in Surfaces /\ cached[c] \in Transactions
    BY <1>1, <1>3 DEF TypeOK
  <2>3. entries[t] \o entries[cached[c]] \in Seq(EntryType)
    <3>1. entries[t] \in Seq(EntryType) /\ entries[cached[c]] \in Seq(EntryType)
      BY <1>1, <2>2 DEF TypeOK
    <3> QED BY <3>1, ConcatProperties
  <2> HIDE DEF c, t
  <2>4. entries' \in [Transactions -> Seq(EntryType)]
    BY <1>1, <2>1, <2>2, <2>3, EmptySeq DEF TypeOK
  <2> QED
    BY <2>1, <2>2, <2>4 DEF MergeChild, TypeOK, tree, shown, history
<1> QED BY <1>2, <1>3

LEMMA AddSurfaceTyped == TypeOK /\ AddSurface => TypeOK'
<1> SUFFICES ASSUME TypeOK, AddSurface PROVE TypeOK'
  OBVIOUS
<1> DEFINE call == Head(stack)
<1>1. /\ stack # <<>> /\ call.tx \in Transactions
      /\ call.surface \in Surfaces /\ call.state \in StateType
  BY RunningCall, CallFields DEF AddSurface
<1>2. stack' \in Seq(CallType)
  BY <1>1, EmptySeq, ReturnViaTyped DEF AddSurface
<1>3. WithState(call.tx, call.surface, call.state) \in Seq(EntryType)
  BY <1>1, WithStateTyped DEF TypeOK
<1>4. entries' = [entries EXCEPT ![call.tx] = WithState(call.tx, call.surface, call.state)]
  BY DEF AddSurface
<1> HIDE DEF call
<1>5. entries' \in [Transactions -> Seq(EntryType)]
  BY <1>1, <1>3, <1>4 DEF TypeOK
<1> QED BY <1>2, <1>5 DEF AddSurface, TypeOK, tree, shown, history

LEMMA CommitTyped == TypeOK /\ Commit => TypeOK'
<1> SUFFICES ASSUME TypeOK, Commit PROVE TypeOK'
  OBVIOUS
<1> USE ConstantsAssumption
<1> DEFINE t == Head(stack).tx
           own == entries[t]
           joins == {i \in DOMAIN own : life[own[i].surface] # "dead"}
           touched == {own[i].surface : i \in joins}
           again == {i \in joins : \E j \in joins :
                       j < i /\ own[j].surface = own[i].surface}
           repeated == {own[i].surface : i \in again}
           watchable == {i \in joins : HasBuffer(own[i].state)
                                         /\ own[i].surface \in Fenced}
           New(busy, u, i) ==
             LET e == entries[u][i]
             IN  IF u = t
                 THEN [e EXCEPT !.fence = i \in busy,
                                !.prev = IF i \notin joins THEN None
                                         ELSE IF i \in again THEN t
                                         ELSE last[e.surface],
                                !.next = IF e.surface \in repeated THEN t ELSE @]
                 ELSE IF e.surface \in touched /\ last[e.surface] = u
                 THEN [e EXCEPT !.next = t]
                 ELSE e
<1>1. stack # <<>> /\ t \in Transactions
  BY RunningCall, CallFields DEF Commit
<1>2. PICK busy \in SUBSET watchable :
        entries' = [u \in Transactions |-> [i \in DOMAIN entries[u] |->
                      New(busy, u, i)]]
  BY Zenon DEF Commit
<1>3. \A u \in Transactions : entries[u] \in Seq(EntryType)
  BY DEF TypeOK
<1>4. \A u \in Transactions : \A i \in DOMAIN entries[u] :
         entries[u][i] \in EntryType
  BY <1>3, ElementOfSeq, LenProperties
<1>5. \A u \in Transactions : \A i \in DOMAIN entries[u] :
         New(busy, u, i) \in EntryType
  <2> SUFFICES ASSUME NEW u \in Transactions, NEW i \in DOMAIN entries[u]
               PROVE  New(busy, u, i) \in EntryType
    OBVIOUS
  <2>1. entries[u][i] \in EntryType
    BY <1>4
  <2>2. last[entries[u][i].surface] \in Transactions \cup {None}
    BY <2>1 DEF TypeOK, EntryType
  <2> DEFINE e == entries[u][i]
             fence == i \in busy
             prev == IF i \notin joins THEN None
                     ELSE IF i \in again THEN t ELSE last[e.surface]
             next == IF e.surface \in repeated THEN t ELSE e.next
  <2>3. fence \in BOOLEAN
    OBVIOUS
  <2>4. prev \in Transactions \cup {None} /\ next \in Transactions \cup {None}
    <3> HIDE DEF t, joins, again, repeated
    <3> QED BY <1>1, <2>1, <2>2 DEF EntryType
  <2>5. \/ New(busy, u, i) = [e EXCEPT !.fence = fence, !.prev = prev, !.next = next]
        \/ New(busy, u, i) = [e EXCEPT !.next = t]
        \/ New(busy, u, i) = e
    <3> HIDE DEF joins, again, repeated, touched, own
    <3> QED OBVIOUS
  <2> HIDE DEF t, joins, again, repeated, touched, New, fence, prev, next, e
  <2>6. e \in EntryType
    BY <2>1 DEF e
  <2> QED BY <1>1, <2>3, <2>4, <2>5, <2>6 DEF EntryType
<1>6. entries' \in [Transactions -> Seq(EntryType)]
  <2> HIDE DEF New
  <2> SUFFICES ASSUME NEW u \in Transactions PROVE entries'[u] \in Seq(EntryType)
    BY <1>2
  <2> DEFINE fs == entries'[u]
             es == entries[u]
  <2>1. fs = [i \in DOMAIN es |-> New(busy, u, i)]
    BY <1>2
  <2>2. \A i \in DOMAIN es : fs[i] \in EntryType
    BY <1>5, <2>1
  <2>3. fs = [i \in DOMAIN es |-> fs[i]]
    BY <2>1
  <2>4. es \in Seq(EntryType)
    BY <1>3
  <2> HIDE DEF fs, es
  <2> QED BY <2>2, <2>3, <2>4, EntriesMapped DEF fs
<1>7. stack' \in Seq(CallType)
  <2>1. <<OnTx("tryApply", t)>> \in Seq(CallType)
    <3>1. OnTx("tryApply", t) \in CallType
      BY <1>1, CallsTyped
    <3> QED BY <3>1
  <2>2. ReturnVia(<<OnTx("tryApply", t)>>)
    BY DEF Commit
  <2> QED BY <1>1, <2>1, <2>2, ReturnViaTyped
<1>8. /\ first' \in [Surfaces -> Transactions \cup {None}]
      /\ last' \in [Surfaces -> Transactions \cup {None}]
  <2>1. Enqueue(t, touched)
    BY DEF Commit
  <2> HIDE DEF t, touched
  <2> QED BY <1>1, <2>1 DEF Enqueue, TypeOK
<1>9. status' \in [Transactions -> {"free", "pending", "queued", "applying"}]
  BY <1>1 DEF Commit, TypeOK
<1> QED
  BY <1>6, <1>7, <1>8, <1>9 DEF Commit, TypeOK, tree, shown, history

LEMMA TryApplyTyped == TypeOK /\ TryApply => TypeOK'
<1> SUFFICES ASSUME TypeOK, TryApply PROVE TypeOK'
  OBVIOUS
<1> DEFINE t == Head(stack).tx
           es == entries[t]
           Sorted(p) == [i \in DOMAIN es |-> es[p[i]]]
<1>1. stack # <<>> /\ t \in Transactions
  BY RunningCall, CallFields DEF TryApply
<1>2. CASE IsReady(t)
  <2>1. PICK p \in Orders(Len(es)) : entries' = [entries EXCEPT ![t] = Sorted(p)]
    BY <1>2 DEF TryApply
  <2>2. es \in Seq(EntryType) /\ DOMAIN es = 1..Len(es) /\ Len(es) \in Nat
    BY <1>1, LenProperties DEF TypeOK
  <2>3. \A i \in DOMAIN es : es[i] \in EntryType
    BY <2>2, ElementOfSeq
  <2>4. p \in [1..Len(es) -> 1..Len(es)]
    BY <2>1 DEF Orders
  <2>5. Sorted(p) \in Seq(EntryType)
    <3> DEFINE fs == Sorted(p)
    <3>1. fs = [i \in DOMAIN es |-> fs[i]] /\ \A i \in DOMAIN es : fs[i] \in EntryType
      BY <2>2, <2>3, <2>4
    <3> HIDE DEF fs, es
    <3>2. fs \in Seq(EntryType)
      BY <2>2, <3>1, EntriesMapped
    <3> QED BY <3>2 DEF fs
  <2>6. stack' \in Seq(CallType)
    <3>1. <<OnEntry("applyStates", t, 1)>> \in Seq(CallType)
      <4>1. OnEntry("applyStates", t, 1) \in CallType
        BY <1>1, CallsTyped
      <4> QED BY <4>1
    <3>2. ReturnVia(<<OnEntry("applyStates", t, 1)>>)
      BY <1>2 DEF TryApply
    <3> QED BY <1>1, <3>1, <3>2, ReturnViaTyped
  <2>7. entries' \in [Transactions -> Seq(EntryType)]
    <3> HIDE DEF Sorted, t
    <3> QED BY <1>1, <2>1, <2>5 DEF TypeOK
  <2>8. status' \in [Transactions -> {"free", "pending", "queued", "applying"}]
    BY <1>1, <1>2 DEF TryApply, TypeOK
  <2> QED
    BY <2>6, <2>7, <2>8 DEF TryApply, TypeOK, tree, shown, history
<1>3. CASE ~IsReady(t)
  <2>1. stack' \in Seq(CallType)
    BY <1>1, <1>3, EmptySeq, ReturnViaTyped DEF TryApply
  <2> QED
    BY <1>3, <2>1 DEF TryApply, TypeOK, tree, shown, history
<1> QED BY <1>2, <1>3

LEMMA ApplyStateTyped == TypeOK /\ ApplyState => TypeOK'
<1> SUFFICES ASSUME TypeOK, ApplyState PROVE TypeOK'
  OBVIOUS
<1> DEFINE t == Head(stack).tx
           i == Head(stack).index
           e == entries[t][i]
           s == e.surface
           applied == MergeInto(e.state, current[s])
           visibilityChanged == HasBuffer(applied) # HasBuffer(current[s])
           rest == <<OnEntry("applyStates", t, i + 1)>>
           calls == (IF visibilityChanged
                     THEN <<OnSurfaces("updateMapped", {s})>> ELSE <<>>)
                      \o <<OnSurfaces("clearUnmapped", {s})>> \o rest
<1>1. stack # <<>> /\ t \in Transactions /\ i \in Nat \ {0}
  BY RunningCall, CallFields DEF ApplyState
<1>2. entries[t] \in Seq(EntryType) /\ DOMAIN entries[t] = 1..Len(entries[t])
      /\ Len(entries[t]) \in Nat
  BY <1>1, LenProperties DEF TypeOK
<1>3. CASE i > Len(entries[t])
  <2>1. OnEntry("unlink", t, 1) \in CallType
    BY <1>1, CallsTyped
  <2>2. <<OnEntry("unlink", t, 1)>> \in Seq(CallType)
    BY <2>1
  <2>3. ReturnVia(<<OnEntry("unlink", t, 1)>>) /\ UNCHANGED current
    BY <1>3 DEF ApplyState
  <2>4. stack' \in Seq(CallType)
    BY <1>1, <2>2, <2>3, ReturnViaTyped
  <2> QED
    BY <2>3, <2>4 DEF ApplyState, TypeOK, tree, queue, history
<1>4. CASE ~(i > Len(entries[t]))
  <2>1. e \in EntryType
    BY <1>1, <1>2, <1>4, ElementOfSeq
  <2>2. s \in Surfaces /\ e.state \in StateType
    BY <2>1 DEF EntryType
  <2>3. applied \in StateType
    BY <2>2, MergeIntoTyped DEF TypeOK
  <2>4. rest \in Seq(CallType)
    <3>1. OnEntry("applyStates", t, i + 1) \in CallType
      <4>1. i + 1 \in Nat \ {0}
        BY <1>1
      <4> HIDE DEF t, i
      <4> QED BY <1>1, <4>1, CallsTyped
    <3> QED BY <3>1
  <2>5. calls \in Seq(CallType)
    <3>1. OnSurfaces("updateMapped", {s}) \in CallType
          /\ OnSurfaces("clearUnmapped", {s}) \in CallType
      <4> HIDE DEF s
      <4>1. {s} \in SUBSET Surfaces
        BY <2>2
      <4> QED BY <4>1, CallsTyped DEF SurfaceCalls
    <3>2. (IF visibilityChanged THEN <<OnSurfaces("updateMapped", {s})>>
           ELSE <<>>) \in Seq(CallType)
      <4> HIDE DEF visibilityChanged, s
      <4> QED BY <3>1
    <3>3. <<OnSurfaces("clearUnmapped", {s})>> \in Seq(CallType)
      BY <3>1
    <3> HIDE DEF visibilityChanged, s, rest
    <3> QED BY <2>4, <3>2, <3>3, ConcatProperties
  <2>6. CASE Discarded(e)
    <3>1. ReturnVia(rest) /\ UNCHANGED current
      BY <1>4, <2>6 DEF ApplyState
    <3>2. stack' \in Seq(CallType)
      <4> HIDE DEF rest
      <4> QED BY <1>1, <2>4, <3>1, ReturnViaTyped
    <3> QED
      BY <3>1, <3>2 DEF ApplyState, TypeOK, tree, queue, history
  <2>7. CASE ~Discarded(e)
    <3>1. current' = [current EXCEPT ![s] = applied] /\ ReturnVia(calls)
      BY <1>4, <2>7 DEF ApplyState
    <3>2. stack' \in Seq(CallType)
      <4> HIDE DEF calls
      <4> QED BY <1>1, <2>5, <3>1, ReturnViaTyped
    <3>3. current' \in [Surfaces -> StateType]
      <4> HIDE DEF applied, s
      <4> QED BY <2>2, <2>3, <3>1 DEF TypeOK
    <3> QED
      BY <3>2, <3>3 DEF ApplyState, TypeOK, tree, queue, history
  <2> QED BY <2>6, <2>7
<1> QED BY <1>3, <1>4

\* A loop over surfaces on top of the stack.
LEMMA RunningLoop ==
    ASSUME TypeOK, NEW op \in SurfaceCalls, Running(op)
    PROVE  /\ stack # <<>> /\ Head(stack).op \in SurfaceCalls
           /\ Head(stack).todo \in SUBSET Surfaces
BY RunningCall, CallFields

\* A call on surfaces is a sequence of calls.
LEMMA OneLoop ==
    ASSUME NEW op \in SurfaceCalls, NEW S \in SUBSET Surfaces
    PROVE  <<OnSurfaces(op, S)>> \in Seq(CallType)
BY CallsTyped

LEMMA LoopDoneTyped == TypeOK /\ LoopDone => TypeOK'
<1> SUFFICES ASSUME TypeOK, LoopDone PROVE TypeOK'
  OBVIOUS
<1>1. stack' \in Seq(CallType)
  BY EmptySeq, ReturnViaTyped DEF LoopDone
<1> QED
  BY <1>1 DEF LoopDone, TypeOK, tree, queue, shown, history

LEMMA UpdateMappedTyped == TypeOK /\ UpdateMapped => TypeOK'
<1> SUFFICES ASSUME TypeOK, UpdateMapped PROVE TypeOK'
  OBVIOUS
<1>1. /\ stack # <<>> /\ Head(stack).op \in SurfaceCalls
      /\ Head(stack).todo \in SUBSET Surfaces
  BY RunningLoop DEF UpdateMapped, SurfaceCalls
<1>2. PICK s \in Head(stack).todo :
        LET effective == /\ HasBuffer(current[s])
                         /\ sub[s] => parent[s] # None /\ mapped[parent[s]]
        IN  IF mapped[s] = effective
            THEN VisitVia(s, <<>>) /\ UNCHANGED mapped
            ELSE /\ mapped' = [mapped EXCEPT ![s] = effective]
                 /\ VisitVia(s, <<OnSurfaces("updateMapped", current[s].children)>>)
  BY DEF UpdateMapped
<1> DEFINE effective == /\ HasBuffer(current[s])
                        /\ sub[s] => parent[s] # None /\ mapped[parent[s]]
<1>3. s \in Surfaces /\ current[s].children \in SUBSET Surfaces
  BY <1>1 DEF TypeOK, StateType
<1>4. stack' \in Seq(CallType)
  <2>1. <<OnSurfaces("updateMapped", current[s].children)>> \in Seq(CallType)
    BY <1>3, OneLoop DEF SurfaceCalls
  <2>2. \/ VisitVia(s, <<>>)
        \/ VisitVia(s, <<OnSurfaces("updateMapped", current[s].children)>>)
    BY <1>2
  <2> QED BY <1>1, <2>1, <2>2, EmptySeq, VisitViaTyped
<1>5. mapped' \in [Surfaces -> BOOLEAN]
  <2>1. effective \in BOOLEAN
    OBVIOUS
  <2>2. mapped' = mapped \/ mapped' = [mapped EXCEPT ![s] = effective]
    BY <1>2
  <2> HIDE DEF effective
  <2> QED BY <1>3, <2>1, <2>2 DEF TypeOK
<1> QED
  BY <1>4, <1>5 DEF UpdateMapped, TypeOK, tree, queue, history

LEMMA ClearUnmappedTyped == TypeOK /\ ClearUnmapped => TypeOK'
<1> SUFFICES ASSUME TypeOK, ClearUnmapped PROVE TypeOK'
  OBVIOUS
<1>1. /\ stack # <<>> /\ Head(stack).op \in SurfaceCalls
      /\ Head(stack).todo \in SUBSET Surfaces
  BY RunningLoop DEF ClearUnmapped, SurfaceCalls
<1>2. PICK s \in Head(stack).todo :
        /\ current' = [c \in Surfaces |->
             IF ~mapped[s] /\ c \in {s} \cup current[s].children
             THEN [current[c] EXCEPT !.barrier = FALSE] ELSE current[c]]
        /\ VisitVia(s, <<>>)
  BY DEF ClearUnmapped
<1>3. stack' \in Seq(CallType)
  BY <1>1, <1>2, EmptySeq, VisitViaTyped
<1>4. current' \in [Surfaces -> StateType]
  <2>1. \A c \in Surfaces : [current[c] EXCEPT !.barrier = FALSE] \in StateType
    <3> TAKE c \in Surfaces
    <3>1. current[c] \in StateType
      BY DEF TypeOK
    <3> QED BY <3>1 DEF StateType
  <2> QED BY <1>2, <2>1 DEF TypeOK
<1> QED
  BY <1>3, <1>4 DEF ClearUnmapped, TypeOK, tree, queue, history

LEMMA UnlinkTyped == TypeOK /\ Unlink => TypeOK'
<1> SUFFICES ASSUME TypeOK, Unlink PROVE TypeOK'
  OBVIOUS
<1> DEFINE t == Head(stack).tx
           i == Head(stack).index
           e == entries[t][i]
           s == e.surface
           n == e.next
           blocked == IF n = None THEN {}
                      ELSE {j \in DOMAIN entries[n] : entries[n][j].prev = t}
           calls == CallOnTx("tryApply", n)
                      \o <<OnSurfaces("tryChildren", {s}),
                           OnEntry("unlink", t, i + 1)>>
<1>1. stack # <<>> /\ t \in Transactions /\ i \in Nat \ {0}
  BY RunningCall, CallFields DEF Unlink
<1>2. entries[t] \in Seq(EntryType) /\ DOMAIN entries[t] = 1..Len(entries[t])
      /\ Len(entries[t]) \in Nat
  BY <1>1, LenProperties DEF TypeOK
<1>3. CASE i > Len(entries[t])
  <2>1. /\ entries' = [entries EXCEPT ![t] = <<>>]
        /\ status' = [status EXCEPT ![t] = "free"]
        /\ ReturnVia(<<>>)
        /\ UNCHANGED <<first, last>>
    BY <1>3 DEF Unlink
  <2>2. stack' \in Seq(CallType)
    BY <1>1, <2>1, EmptySeq, ReturnViaTyped
  <2>3. entries' \in [Transactions -> Seq(EntryType)]
    BY <2>1, EmptySeq DEF TypeOK
  <2>4. status' \in [Transactions -> {"free", "pending", "queued", "applying"}]
    BY <2>1 DEF TypeOK
  <2> QED
    BY <2>1, <2>2, <2>3, <2>4 DEF Unlink, TypeOK, tree, shown, history
<1>4. CASE ~(i > Len(entries[t]))
  <2>0. /\ LeaveQueue(t, s, n)
        /\ entries' = IF blocked = {} THEN entries
                      ELSE LET j == CHOOSE k \in blocked :
                                      \A l \in blocked : k <= l
                           IN  [entries EXCEPT ![n][j].prev = None]
        /\ ReturnVia(calls)
        /\ UNCHANGED status
    BY <1>4 DEF Unlink
  <2>1. e \in EntryType
    BY <1>1, <1>2, <1>4, ElementOfSeq
  <2>2. s \in Surfaces /\ n \in Transactions \cup {None}
    BY <2>1 DEF EntryType
  <2>3. calls \in Seq(CallType)
    <3> HIDE DEF t, i, s, n
    <3>1. OnSurfaces("tryChildren", {s}) \in CallType
          /\ OnEntry("unlink", t, i + 1) \in CallType
      <4>1. {s} \in SUBSET Surfaces /\ i + 1 \in Nat \ {0}
        BY <1>1, <2>2
      <4> QED BY <1>1, <4>1, CallsTyped DEF SurfaceCalls
    <3>2. CallOnTx("tryApply", n) \in Seq(CallType)
      <4>1. n # None => OnTx("tryApply", n) \in CallType
        BY <2>2, CallsTyped
      <4> QED BY <4>1 DEF CallOnTx
    <3>3. <<OnSurfaces("tryChildren", {s}), OnEntry("unlink", t, i + 1)>>
             \in Seq(CallType)
      BY <3>1
    <3> QED BY <3>2, <3>3, ConcatProperties
  <2>4. stack' \in Seq(CallType)
    <3> HIDE DEF calls
    <3> QED BY <1>1, <2>0, <2>3, ReturnViaTyped
  <2>5. /\ first' \in [Surfaces -> Transactions \cup {None}]
        /\ last' \in [Surfaces -> Transactions \cup {None}]
    <3> HIDE DEF t, s, n
    <3> QED BY <2>0, <2>2 DEF LeaveQueue, TypeOK
  <2>6. entries' \in [Transactions -> Seq(EntryType)]
    <3> DEFINE j == CHOOSE k \in blocked : \A l \in blocked : k <= l
    <3>1. CASE blocked = {}
      BY <2>0, <3>1 DEF TypeOK
    <3>2. CASE blocked # {}
      <4>1. n \in Transactions /\ entries[n] \in Seq(EntryType)
        BY <2>2, <3>2 DEF TypeOK
      <4>2. DOMAIN entries[n] = 1..Len(entries[n]) /\ Len(entries[n]) \in Nat
        BY <4>1, LenProperties
      <4>3. j \in blocked
        <5>1. blocked \in SUBSET Nat
          <6> HIDE DEF n, t
          <6> QED BY <4>2
        <5> HIDE DEF blocked
        <5> QED BY <3>2, <5>1, LeastPlace
      <4>4. j \in 1..Len(entries[n]) /\ n # None
        <5> HIDE DEF n, t, j
        <5> QED BY <4>2, <4>3
      <4> DEFINE e2 == [entries[n][j] EXCEPT !.prev = None]
      <4>5. e2 \in EntryType
        <5>1. entries[n][j] \in EntryType
          BY <4>1, <4>4, ElementOfSeq
        <5> QED BY <5>1 DEF EntryType
      <4>6. entries' = [entries EXCEPT ![n] = [entries[n] EXCEPT ![j] = e2]]
        <5> HIDE DEF blocked
        <5> QED BY <2>0, <3>2 DEF TypeOK
      <4> HIDE DEF e2, j, n
      <4>7. [entries[n] EXCEPT ![j] = e2] \in Seq(EntryType)
        BY <4>1, <4>4, <4>5, ExceptSeq
      <4> QED BY <4>1, <4>6, <4>7 DEF TypeOK
    <3> QED BY <3>1, <3>2
  <2> QED
    BY <2>0, <2>4, <2>5, <2>6 DEF Unlink, TypeOK, tree, shown, history
<1> QED BY <1>3, <1>4

LEMMA TryLoopsTyped ==
    TypeOK /\ (TryChildren \/ TryFirst \/ DesynchronizeChildren) => TypeOK'
<1> SUFFICES ASSUME TypeOK, TryChildren \/ TryFirst \/ DesynchronizeChildren
             PROVE  TypeOK'
  OBVIOUS
<1>1. \A s \in Surfaces : current[s].children \in SUBSET Surfaces
  BY DEF TypeOK, StateType
<1>2. CASE TryChildren
  <2>1. /\ stack # <<>> /\ Head(stack).op \in SurfaceCalls
        /\ Head(stack).todo \in SUBSET Surfaces
    BY <1>2, RunningLoop DEF TryChildren, SurfaceCalls
  <2>2. PICK s \in Head(stack).todo :
          \/ VisitVia(s, <<OnSurfaces("tryFirst", current[s].children)>>)
          \/ VisitVia(s, <<>>)
    BY <1>2 DEF TryChildren
  <2>3. <<OnSurfaces("tryFirst", current[s].children)>> \in Seq(CallType)
    BY <1>1, <2>1, OneLoop DEF SurfaceCalls
  <2>4. stack' \in Seq(CallType)
    BY <2>1, <2>2, <2>3, EmptySeq, VisitViaTyped
  <2> QED BY <1>2, <2>4 DEF TryChildren, TypeOK, tree, queue, shown, history
<1>3. CASE TryFirst
  <2>1. /\ stack # <<>> /\ Head(stack).op \in SurfaceCalls
        /\ Head(stack).todo \in SUBSET Surfaces
    BY <1>3, RunningLoop DEF TryFirst, SurfaceCalls
  <2>2. PICK s \in Head(stack).todo : VisitVia(s, CallOnTx("tryApply", first[s]))
    BY <1>3 DEF TryFirst
  <2>3. CallOnTx("tryApply", first[s]) \in Seq(CallType)
    <3>1. first[s] \in Transactions \cup {None}
      BY <2>1 DEF TypeOK
    <3>2. first[s] # None => OnTx("tryApply", first[s]) \in CallType
      BY <3>1, CallsTyped
    <3> QED BY <3>2 DEF CallOnTx
  <2>4. stack' \in Seq(CallType)
    BY <2>1, <2>2, <2>3, VisitViaTyped
  <2> QED BY <1>3, <2>4 DEF TryFirst, TypeOK, tree, queue, shown, history
<1>4. CASE DesynchronizeChildren
  <2>1. /\ stack # <<>> /\ Head(stack).op \in SurfaceCalls
        /\ Head(stack).todo \in SUBSET Surfaces
    BY <1>4, RunningLoop DEF DesynchronizeChildren, SurfaceCalls
  <2>2. PICK s \in Head(stack).todo :
          VisitVia(s, <<OnSurfaces("parentDesynchronized", current[s].children)>>)
    BY <1>4 DEF DesynchronizeChildren
  <2>3. <<OnSurfaces("parentDesynchronized", current[s].children)>> \in Seq(CallType)
    BY <1>1, <2>1, OneLoop DEF SurfaceCalls
  <2>4. stack' \in Seq(CallType)
    BY <2>1, <2>2, <2>3, VisitViaTyped
  <2> QED
    BY <1>4, <2>4 DEF DesynchronizeChildren, TypeOK, tree, queue, shown, history
<1> QED BY <1>2, <1>3, <1>4

LEMMA ParentDesynchronizedTyped == TypeOK /\ ParentDesynchronized => TypeOK'
<1> SUFFICES ASSUME TypeOK, ParentDesynchronized PROVE TypeOK'
  OBVIOUS
<1>1. /\ stack # <<>> /\ Head(stack).op \in SurfaceCalls
      /\ Head(stack).todo \in SUBSET Surfaces
  BY RunningLoop DEF ParentDesynchronized, SurfaceCalls
<1> DEFINE calls(s) == (IF cached[s] = None THEN <<>>
                        ELSE <<OnTx("commit", cached[s])>>)
                         \o <<OnSurfaces("desynchronizeChildren", {s})>>
<1>2. PICK s \in Head(stack).todo :
        \/ VisitVia(s, <<>>) /\ UNCHANGED cached
        \/ cached' = [cached EXCEPT ![s] = None] /\ VisitVia(s, calls(s))
  BY DEF ParentDesynchronized
<1>3. calls(s) \in Seq(CallType)
  <2>1. s \in Surfaces /\ cached[s] \in Transactions \cup {None}
    BY <1>1 DEF TypeOK
  <2>2. cached[s] # None => OnTx("commit", cached[s]) \in CallType
    BY <2>1, CallsTyped
  <2>3. (IF cached[s] = None THEN <<>> ELSE <<OnTx("commit", cached[s])>>)
           \in Seq(CallType)
    BY <2>2
  <2>4. <<OnSurfaces("desynchronizeChildren", {s})>> \in Seq(CallType)
    BY <2>1, OneLoop DEF SurfaceCalls
  <2> QED BY <2>3, <2>4, ConcatProperties
<1>4. stack' \in Seq(CallType)
  <2> HIDE DEF calls
  <2> QED BY <1>1, <1>2, <1>3, EmptySeq, VisitViaTyped
<1> QED
  BY <1>2, <1>4 DEF ParentDesynchronized, TypeOK, tree, queue, shown, history

LEMMA LinkSubsurfaceTyped == TypeOK /\ LinkSubsurface => TypeOK'
<1> SUFFICES ASSUME TypeOK, LinkSubsurface PROVE TypeOK'
  OBVIOUS
<1> DEFINE s == Head(stack).surface
           p == Head(stack).parent
<1>1. stack # <<>> /\ s \in Surfaces /\ p \in Surfaces
  BY RunningCall, CallFields DEF LinkSubsurface
<1>2. stack' \in Seq(CallType)
  BY <1>1, EmptySeq, ReturnViaTyped DEF LinkSubsurface
<1>3. /\ sub' = [sub EXCEPT ![s] = TRUE]
      /\ parent' = [parent EXCEPT ![s] = p]
      /\ mode' = [mode EXCEPT ![s] = "sync"]
      /\ children' = [children EXCEPT ![p] = @ \cup {s}]
      /\ current' = [current EXCEPT ![p].children = @ \cup {s}]
      /\ entries' = AmendChildren(p, {s}, {})
  BY DEF LinkSubsurface
<1> HIDE DEF s, p
<1>4. entries' \in [Transactions -> Seq(EntryType)]
  BY <1>1, <1>3, AmendedTyped DEF TypeOK
<1>5. current' \in [Surfaces -> StateType]
  <2>1. current[p] \in StateType
    BY <1>1 DEF TypeOK
  <2>2. [current[p] EXCEPT !.children = @ \cup {s}] \in StateType
    BY <1>1, <2>1 DEF StateType
  <2>3. current' = [current EXCEPT ![p] = [current[p] EXCEPT !.children = @ \cup {s}]]
    BY <1>3
  <2> QED BY <2>2, <2>3 DEF TypeOK
<1>6. /\ sub' \in [Surfaces -> BOOLEAN]
      /\ parent' \in [Surfaces -> Surfaces \cup {None}]
      /\ mode' \in [Surfaces -> {"sync", "desync"}]
      /\ children' \in [Surfaces -> SUBSET Surfaces]
  BY <1>1, <1>3 DEF TypeOK
<1> QED
  BY <1>2, <1>4, <1>5, <1>6 DEF LinkSubsurface, TypeOK, shown, history

\* What the destructor of a wl_subsurface leaves.
LEMMA UnlinkedTyped ==
    ASSUME TypeOK, NEW s \in Surfaces, Unlinked(s)
    PROVE  /\ children' \in [Surfaces -> SUBSET Surfaces]
           /\ current' \in [Surfaces -> StateType]
           /\ entries' \in [Transactions -> Seq(EntryType)]
           /\ status' \in [Transactions -> {"free", "pending", "queued", "applying"}]
           /\ cached' \in [Surfaces -> Transactions \cup {None}]
           /\ sub' \in [Surfaces -> BOOLEAN]
<1> DEFINE p == parent[s]
           amended == IF p = None THEN entries ELSE AmendChildren(p, {}, {s})
<1>1. p \in Surfaces \cup {None}
  BY DEF TypeOK
<1>2. amended \in [Transactions -> Seq(EntryType)]
  BY <1>1, AmendedTyped DEF TypeOK
<1>3. /\ children' = IF p = None THEN children
                     ELSE [children EXCEPT ![p] = @ \ {s}]
      /\ current' = IF p = None THEN current
                    ELSE [current EXCEPT ![p].children = @ \ {s}]
      /\ entries' = [t \in Transactions |->
                       IF t = cached[s] THEN <<>> ELSE amended[t]]
      /\ status' = [t \in Transactions |->
                      IF t = cached[s] THEN "free" ELSE status[t]]
      /\ cached' = [cached EXCEPT ![s] = None]
      /\ sub' = [sub EXCEPT ![s] = FALSE]
  BY Zenon DEF Unlinked
<1> HIDE DEF p, amended
<1>4. entries' \in [Transactions -> Seq(EntryType)]
  BY <1>2, <1>3, EmptySeq
<1>5. current' \in [Surfaces -> StateType]
  <2>1. CASE p = None
    BY <1>3, <2>1 DEF TypeOK
  <2>2. CASE p # None
    <3>1. current[p] \in StateType
      BY <1>1, <2>2 DEF TypeOK
    <3>2. [current[p] EXCEPT !.children = @ \ {s}] \in StateType
      BY <3>1 DEF StateType
    <3>3. current' = [current EXCEPT ![p] = [current[p] EXCEPT !.children = @ \ {s}]]
      BY <1>3, <2>2
    <3> QED BY <1>1, <2>2, <3>2, <3>3 DEF TypeOK
  <2> QED BY <2>1, <2>2
<1> QED BY <1>1, <1>3, <1>4, <1>5 DEF TypeOK

LEMMA DestroyedTyped == TypeOK /\ Destroyed => TypeOK'
<1> SUFFICES ASSUME TypeOK, Destroyed PROVE TypeOK'
  OBVIOUS
<1>1. /\ stack # <<>> /\ Head(stack).op \in SurfaceCalls
      /\ Head(stack).todo \in SUBSET Surfaces
  BY RunningLoop DEF Destroyed, SurfaceCalls
<1>2. PICK s \in Head(stack).todo :
         /\ Unlinked(s)
         /\ parent' = [c \in Surfaces |->
                         IF c = s \/ parent[c] = s THEN None ELSE parent[c]]
         /\ life' = [life EXCEPT ![s] = "dead"]
         /\ first' = [first EXCEPT ![s] = None]
         /\ last' = [last EXCEPT ![s] = None]
         /\ VisitVia(s, <<>>)
  BY DEF Destroyed
<1>3. stack' \in Seq(CallType)
  BY <1>1, <1>2, EmptySeq, VisitViaTyped
<1>4. s \in Surfaces
  BY <1>1
<1>5. /\ children' \in [Surfaces -> SUBSET Surfaces]
      /\ current' \in [Surfaces -> StateType]
      /\ entries' \in [Transactions -> Seq(EntryType)]
      /\ status' \in [Transactions -> {"free", "pending", "queued", "applying"}]
      /\ cached' \in [Surfaces -> Transactions \cup {None}]
      /\ sub' \in [Surfaces -> BOOLEAN]
  BY <1>2, <1>4, UnlinkedTyped
<1> QED
  BY <1>2, <1>3, <1>4, <1>5 DEF Destroyed, TypeOK, history

LEMMA RequestTyped == TypeOK /\ Request => TypeOK'
<1> SUFFICES ASSUME TypeOK, Request PROVE TypeOK'
  OBVIOUS
<1>0. \A op \in SurfaceCalls : \A s \in Surfaces :
         OnSurfaces(op, {s}) \in CallType
  BY CallsTyped
<1>1. CASE \E s \in Surfaces, shape \in CommitShapes : SurfaceCommit(s, shape)
  BY <1>1, SurfaceCommitTyped
<1>2. ASSUME NEW s \in Surfaces, SetSync(s) PROVE TypeOK'
  BY <1>2 DEF SetSync, TypeOK, queue, shown, history
<1>3. ASSUME NEW s \in Surfaces, SetDesync(s) PROVE TypeOK'
  <2>1. <<OnSurfaces("parentDesynchronized", {s})>> \in Seq(CallType)
    BY <1>0 DEF SurfaceCalls
  <2>2. stack' \in Seq(CallType)
    BY <1>3, <2>1, EmptySeq DEF SetDesync
  <2>3. mode' \in [Surfaces -> {"sync", "desync"}]
    BY <1>3 DEF SetDesync, TypeOK
  <2> QED BY <1>3, <2>2, <2>3 DEF SetDesync, TypeOK, queue, shown, history
<1>4. ASSUME NEW s \in Surfaces, NEW p \in Surfaces, GetSubsurface(s, p)
      PROVE  TypeOK'
  <2>1. OnSurfaces("tryFirst", {s}) \in CallType /\ AddChild(s, p) \in CallType
    BY <1>0, CallsTyped DEF SurfaceCalls
  <2>2. stack' \in Seq(CallType)
    BY <1>4, <2>1 DEF GetSubsurface
  <2> QED BY <1>4, <2>2 DEF GetSubsurface, TypeOK, queue, shown, history
<1>5. ASSUME NEW s \in Surfaces, DestroySubsurface(s) PROVE TypeOK'
  <2>1. <<OnSurfaces("tryFirst", {s})>> \in Seq(CallType)
    BY <1>0 DEF SurfaceCalls
  <2>2. stack' \in Seq(CallType)
    BY <1>5, <2>1 DEF DestroySubsurface
  <2>3. /\ children' \in [Surfaces -> SUBSET Surfaces]
        /\ current' \in [Surfaces -> StateType]
        /\ entries' \in [Transactions -> Seq(EntryType)]
        /\ status' \in [Transactions -> {"free", "pending", "queued", "applying"}]
        /\ cached' \in [Surfaces -> Transactions \cup {None}]
        /\ sub' \in [Surfaces -> BOOLEAN]
    BY <1>5, UnlinkedTyped DEF DestroySubsurface
  <2>4. /\ parent' \in [Surfaces -> Surfaces \cup {None}]
        /\ generation' \in [Surfaces -> Nat]
    BY <1>5 DEF DestroySubsurface, TypeOK
  <2> QED
    BY <1>5, <2>2, <2>3, <2>4 DEF DestroySubsurface, TypeOK, history
<1>6. ASSUME NEW s \in Surfaces, DestroySurface(s) PROVE TypeOK'
  <2>1. OnSurfaces("tryFirst", {s}) \in CallType
        /\ OnSurfaces("destroyed", {s}) \in CallType
    BY <1>0 DEF SurfaceCalls
  <2>2. stack' \in Seq(CallType)
    BY <1>6, <2>1 DEF DestroySurface
  <2> QED BY <1>6, <2>2 DEF DestroySurface, TypeOK, tree, queue, shown, history
<1>7. ASSUME NEW s \in Surfaces, ToggleRole(s) PROVE TypeOK'
  <2>1. <<OnSurfaces("tryFirst", {s})>> \in Seq(CallType)
    BY <1>0 DEF SurfaceCalls
  <2>2. stack' \in Seq(CallType)
    BY <1>7, <2>1 DEF ToggleRole
  <2> QED BY <1>7, <2>2 DEF ToggleRole, TypeOK, queue, shown, history
<1>8. CASE Disconnect
  BY <1>8 DEF Disconnect, TypeOK, tree, queue, shown, history
<1> QED
  BY <1>1, <1>2, <1>3, <1>4, <1>5, <1>6, <1>7, <1>8 DEF Request

LEMMA EventTyped == TypeOK /\ (SomeFenceSignaled \/ SomeBarrierCleared) => TypeOK'
<1> SUFFICES ASSUME TypeOK, SomeFenceSignaled \/ SomeBarrierCleared
             PROVE  TypeOK'
  OBVIOUS
<1>1. ASSUME NEW t \in Transactions, NEW i \in DOMAIN entries[t],
             FenceSignaled(t, i)
      PROVE  TypeOK'
  <2>1. <<OnTx("tryApply", t)>> \in Seq(CallType)
    <3>1. OnTx("tryApply", t) \in CallType
      BY CallsTyped
    <3> QED BY <3>1
  <2>2. stack' \in Seq(CallType)
    BY <1>1, <2>1 DEF FenceSignaled
  <2>3. entries' \in [Transactions -> Seq(EntryType)]
    <3> DEFINE e2 == [entries[t][i] EXCEPT !.fence = FALSE]
    <3>1. entries[t] \in Seq(EntryType) /\ i \in 1..Len(entries[t])
      BY LenProperties DEF TypeOK
    <3>2. e2 \in EntryType
      <4>1. entries[t][i] \in EntryType
        BY <3>1, ElementOfSeq
      <4> QED BY <4>1 DEF EntryType
    <3>3. entries' = [entries EXCEPT ![t] = [entries[t] EXCEPT ![i] = e2]]
      BY <1>1 DEF FenceSignaled, TypeOK
    <3> HIDE DEF e2
    <3>4. [entries[t] EXCEPT ![i] = e2] \in Seq(EntryType)
      BY <3>1, <3>2, ExceptSeq
    <3> QED BY <3>3, <3>4 DEF TypeOK
  <2> QED BY <1>1, <2>2, <2>3 DEF FenceSignaled, TypeOK, tree, shown, history
<1>2. ASSUME NEW s \in Surfaces, ClearFifoBarrier(s) PROVE TypeOK'
  <2>1. <<OnSurfaces("tryFirst", {s})>> \in Seq(CallType)
    BY OneLoop DEF SurfaceCalls
  <2>2. stack' \in Seq(CallType)
    BY <1>2, <2>1 DEF ClearFifoBarrier
  <2>3. current' \in [Surfaces -> StateType]
    <3>1. current[s] \in StateType
      BY DEF TypeOK
    <3>2. [current[s] EXCEPT !.barrier = FALSE] \in StateType
      BY <3>1 DEF StateType
    <3>3. current' = [current EXCEPT ![s] = [current[s] EXCEPT !.barrier = FALSE]]
      BY <1>2 DEF ClearFifoBarrier
    <3> QED BY <3>2, <3>3 DEF TypeOK
  <2> QED BY <1>2, <2>2, <2>3 DEF ClearFifoBarrier, TypeOK, tree, queue, history
<1> QED BY <1>1, <1>2 DEF SomeFenceSignaled, SomeBarrierCleared

LEMMA CallTyped == TypeOK /\ Call => TypeOK'
BY LoopDoneTyped, MergeChildTyped, AddSurfaceTyped, CommitTyped, TryApplyTyped,
   ApplyStateTyped, UpdateMappedTyped, ClearUnmappedTyped, UnlinkTyped,
   TryLoopsTyped, ParentDesynchronizedTyped, LinkSubsurfaceTyped, DestroyedTyped
   DEF Call

LEMMA NextTyped == TypeOK /\ [Next]_vars => TypeOK'
<1>1. TypeOK /\ UNCHANGED vars => TypeOK'
  BY DEF vars, tree, queue, shown, history, TypeOK
<1> QED BY <1>1, CallTyped, RequestTyped, EventTyped DEF Next

\* Every variable of the commit path keeps its type, and every pointer is null
\* or points to an object of its kind, whatever the tree, the number of
\* transactions and the calls the handlers make.
THEOREM TypeCorrect == Spec => []TypeOK
<1>1. Init => TypeOK
  BY InitTyped
<1>2. TypeOK /\ [Next]_vars => TypeOK'
  BY NextTyped
<1> QED BY <1>1, <1>2, PTL DEF Spec

==============================================================================
