------------------------- MODULE SurfaceQueue_proofs -------------------------
(***************************************************************************)
(* Proofs about the queues of transactions: however the calls of apply()   *)
(* and tryApply() nest, no transaction is applied inside its own apply()   *)
(* and nothing refers to one that has been deleted.  The tree of the       *)
(* surfaces is any, but none of them is given a second parent: the run     *)
(* reapply shows what happens then.                                        *)
(***************************************************************************)
EXTENDS SurfaceTransactions_proofs, FiniteSetTheorems

------------------------------------------------------------------------------
(* The tree the client has built                                            *)

\* A contains every surface below s, if it contains whom it has a parent of.
ClosedBelow(A, s) ==
    \A c \in Surfaces : InitialParent[c] \in A \cup {s} => c \in A

\* The surfaces below s.
Below(s) == {c \in Surfaces : \A A \in SUBSET Surfaces :
                                 ClosedBelow(A, s) => c \in A}

------------------------------------------------------------------------------
(* What the entries say                                                     *)

Calls == {stack[k] : k \in DOMAIN stack}

SurfacesOf(t) == {entries[t][i].surface : i \in DOMAIN entries[t]}

\* The entries apply() has not yet taken out of the queues.
Left(t) ==
    {i \in DOMAIN entries[t] :
       \A c \in Calls : c.op = "unlink" /\ c.tx = t => c.index <= i}

Committed(t) == status[t] \in {"queued", "applying"}

OnQueue(t, s) == Committed(t) /\ \E i \in Left(t) : entries[t][i].surface = s

\* t comes right behind u in the queue of s.
Behind(t, u, s) ==
    Committed(u) /\ \E j \in Left(u) : /\ entries[u][j].surface = s
                                       /\ entries[u][j].next = t

\* Two entries for one surface: the transaction waits for itself.
SelfWaiting(t) == \E i \in DOMAIN entries[t] : entries[t][i].prev = t

Prevs(n, u) == {k \in DOMAIN entries[n] : entries[n][k].prev = u}
Nexts(u, n) == {j \in Left(u) : entries[u][j].next = n}

\* The surfaces of t are c, which was committed last, and surfaces below it
\* with every surface in between.
Rooted(t, c) ==
    /\ c \in SurfacesOf(t)
    /\ \A x \in SurfacesOf(t) :
          x = c \/ (x \in Below(c) /\ InitialParent[x] \in SurfacesOf(t))

\* The same while s itself is still to be added.
Gathered(t, s) ==
    \A x \in SurfacesOf(t) :
       x = s \/ (x \in Below(s) /\ InitialParent[x] \in SurfacesOf(t) \cup {s})

------------------------------------------------------------------------------
(* The call stack                                                           *)

ApplyCalls == {"applyStates", "unlink"}
TryOps == {"tryApply", "tryFirst", "tryChildren", "unlink", "applyStates"}
MappingOps == {"updateMapped", "clearUnmapped"}
DesyncOps == {"parentDesynchronized", "desynchronizeChildren"}

\* The functions that may be running further out when a function runs.
CallersOf(op) ==
    {c \in {"add", "commit"} : op = "merge"}
    \cup {c \in {"commit"} : op = "add"}
    \cup {c \in DesyncOps : op \in {"commit"} \cup DesyncOps \cup TryOps \cup MappingOps}
    \cup {c \in {"tryFirst", "tryChildren", "unlink", "destroyed"} :
             op \in TryOps \cup MappingOps}
    \cup {c \in {"applyStates"} : op \in MappingOps}
    \cup {c \in MappingOps : op = "updateMapped"}

\* s is still to be added to t.
Adding(t, s) ==
    \E c \in Calls : c.op = "add" /\ c.tx = t /\ c.surface = s

\* What is further out than the call at place k of the stack S: the functions,
\* and the transactions that are being applied.
OuterOps(S, k) == {S[l].op : l \in {m \in DOMAIN S : m > k}}
Outer(S, k) ==
    {S[l].tx : l \in {m \in DOMAIN S : m > k /\ S[m].op \in ApplyCalls}}

\* x is live and t, which is being applied, is still in its queue.
Open(t, x) == life[x] # "dead" /\ \E i \in Left(t) : entries[t][i].surface = x

------------------------------------------------------------------------------
(* The inductive invariant                                                  *)

\* The ends of the queues.
Ends ==
    \A s \in Surfaces :
        /\ first[s] = None <=> last[s] = None
        /\ life[s] = "dead" => first[s] = None
        /\ first[s] # None => OnQueue(first[s], s)
        /\ last[s] # None =>
              /\ OnQueue(last[s], s)
              /\ \A j \in Left(last[s]) :
                    entries[last[s]][j].surface = s
                       => entries[last[s]][j].next \in {None, last[s]}

\* Who is at the end of a queue.
AtEnds ==
    \A t \in Transactions : Committed(t) =>
        /\ \A j \in Left(t) :
              /\ life[entries[t][j].surface] # "dead"
              /\ entries[t][j].next = None
              => last[entries[t][j].surface] = t
        /\ \A s \in Surfaces :
              /\ life[s] # "dead"
              /\ OnQueue(t, s)
              /\ \A u \in Transactions \ {t} : ~Behind(t, u, s)
              => first[s] = t

\* The transactions outside of the queues have no neighbours, the deleted ones
\* no entries.
Outside ==
    \A t \in Transactions :
        /\ status[t] = "free" => entries[t] = <<>>
        /\ ~Committed(t) => \A i \in DOMAIN entries[t] :
                               /\ entries[t][i].prev = None
                               /\ entries[t][i].next = None

\* The neighbours of those in the queues.
Neighbours ==
    \A t \in Transactions :
        /\ Committed(t) =>
              \A j \in Left(t) :
                 LET n == entries[t][j].next
                 IN  n # None => /\ status[n] = "queued"
                                 /\ entries[t][j].surface \in SurfacesOf(n)
                                 /\ Prevs(n, t) # {}
        /\ \A i \in DOMAIN entries[t] :
              entries[t][i].prev # None => Committed(entries[t][i].prev)
        /\ status[t] = "applying" =>
              \A i \in DOMAIN entries[t] : entries[t][i].prev = None

\* A transaction has as many predecessors at another as successors there,
\* although apply() may clear them in another order than it visits them.
Counted ==
    \A u, n \in Transactions :
        Committed(u) /\ ~SelfWaiting(u)
            => Cardinality(Prevs(n, u)) = Cardinality(Nexts(u, n))

OneEntryEach ==
    \A t \in Transactions : Committed(t) /\ ~SelfWaiting(t) =>
        \A i, j \in DOMAIN entries[t] :
            /\ entries[t][i].surface = entries[t][j].surface
            /\ life[entries[t][i].surface] # "dead"
            => i = j

\* The child lists never hold a surface that was not built as a child, and the
\* applied ones hold none that is not.
Children ==
    /\ \A s \in Surfaces :
          /\ parent[s] \in {InitialParent[s], None}
          /\ \A c \in children[s] \cup current[s].children : InitialParent[c] = s
          /\ \A c \in current[s].children :
                life[c] # "dead" /\ life[s] # "dead" => sub[c] /\ parent[c] = s
    /\ \A t \in Transactions : \A i \in DOMAIN entries[t] :
          \A c \in entries[t][i].state.children :
              InitialParent[c] = entries[t][i].surface
    /\ \A d \in Calls : d.op = "add" =>
          \A c \in d.state.children : InitialParent[c] = d.surface
    /\ ~clientGone => \A c \in Surfaces :
          /\ life[c] # "dead"
          /\ InitialParent[c] # None
          /\ life[InitialParent[c]] # "dead"
          => sub[c] /\ parent[c] = InitialParent[c]

\* The transactions are subtrees.
Subtrees ==
    /\ \A t \in Transactions : Committed(t) => \E c \in Surfaces : Rooted(t, c)
    /\ \A s \in Surfaces : cached[s] # None =>
          /\ status[cached[s]] = "pending"
          /\ Gathered(cached[s], s)
          /\ s \in SurfacesOf(cached[s]) \/ Adding(cached[s], s)
    /\ \A c, d \in Surfaces : cached[c] # None /\ cached[c] = cached[d] => c = d

\* The calls that build and commit a transaction.
BuiltBy(c) ==
    /\ c.op \in {"merge", "add"} =>
          /\ status[c.tx] = "pending"
          /\ Gathered(c.tx, c.surface)
          /\ \A s \in Surfaces : cached[s] = c.tx => s = c.surface
    /\ c.op = "merge" => Adding(c.tx, c.surface)
    /\ c.op = "add" => \A d \in Calls : d.op = "commit" => d.tx = c.tx
    /\ c.op = "commit" =>
          /\ status[c.tx] = "pending"
          /\ \A s \in Surfaces : cached[s] # c.tx
          /\ \E s \in Surfaces :
                Gathered(c.tx, s) /\ (s \in SurfacesOf(c.tx) \/ Adding(c.tx, s))

Building == \A c \in Calls : BuiltBy(c)

\* Which calls may be on the stack, and in what order.
NestedIn(c, U, O) ==
    /\ O \subseteq CallersOf(c.op)
    /\ c.op # "addChild"
    /\ c.op = "tryApply" => status[c.tx] = "queued"
    /\ c.op \in ApplyCalls => status[c.tx] = "applying" /\ c.tx \notin U

Nesting ==
    /\ \A k \in DOMAIN stack :
          NestedIn(stack[k], Outer(stack, k), OuterOps(stack, k))
    /\ \A t \in Transactions : status[t] = "applying" => t \in Outer(stack, 0)

\* Children come before their parents in a transaction that is being applied.
Sorted ==
    \A t \in Transactions : status[t] = "applying" =>
        \A i, j \in DOMAIN entries[t] :
            LET x == entries[t][i].surface
                y == entries[t][j].surface
            IN  life[x] # "dead" /\ life[y] # "dead" /\ sub[x] /\ parent[x] = y
                   => i < j

\* Where a call inside of the apply() of the transactions U works: below what
\* is still open there.
InsideOf(c, U) ==
    /\ c.op \in ApplyCalls =>
          \A t \in U : \A x \in Surfaces : Open(t, x) =>
              /\ x \notin SurfacesOf(c.tx)
              /\ Rooted(t, x) => SurfacesOf(c.tx) \subseteq Below(x)
    /\ c.op = "tryApply" =>
          \A t \in U : \A x \in Surfaces : Open(t, x) /\ Rooted(t, x) =>
              SurfacesOf(c.tx) \cap Below(x) # {}
    /\ c.op \in {"tryFirst", "tryChildren"} =>
          \A t \in U : \A x \in Surfaces : Open(t, x) /\ Rooted(t, x) =>
              c.todo \subseteq Below(x)
    /\ c.op = "tryChildren" =>
          \A t \in U : \A x \in c.todo : ~Open(t, x)
    /\ c.op = "tryFirst" =>
          \A t \in U : \A x \in c.todo :
              LET p == InitialParent[x]
              IN  /\ p \in Surfaces /\ life[p] # "dead" /\ ~Open(t, p)
                  /\ life[x] # "dead" => sub[x] /\ parent[x] = p

Inside == \A k \in DOMAIN stack : InsideOf(stack[k], Outer(stack, k))

Settled ==
    /\ TypeOK /\ Ends /\ AtEnds /\ Outside /\ Neighbours /\ Counted
    /\ OneEntryEach /\ Children /\ Subtrees /\ Building /\ Sorted

\* What the data say, what the calls on the stack say of it, and where those
\* inside of an apply() work.
QueueInv == Settled /\ Nesting /\ Inside

------------------------------------------------------------------------------
(* Facts about the tree                                                     *)

LEMMA BelowFacts ==
    ASSUME NEW s \in Surfaces
    PROVE  /\ Below(s) \subseteq Surfaces
           /\ \A c \in Surfaces :
                 InitialParent[c] \in Below(s) \cup {s} => c \in Below(s)
           /\ \A x \in Below(s) : InitialParent[x] \in Below(s) \cup {s}
           /\ \A x \in Below(s) : Below(x) \subseteq Below(s)
           /\ s \notin Below(s)
<1>1. Below(s) \subseteq Surfaces
  BY DEF Below
<1>2. ASSUME NEW c \in Surfaces, InitialParent[c] \in Below(s) \cup {s}
      PROVE  c \in Below(s)
  <2> SUFFICES ASSUME NEW A \in SUBSET Surfaces, ClosedBelow(A, s)
               PROVE  c \in A
    BY DEF Below
  <2>1. Below(s) \subseteq A
    BY DEF Below
  <2> QED BY <1>2, <2>1 DEF ClosedBelow
<1>3. ASSUME NEW x \in Below(s), InitialParent[x] \notin Below(s) \cup {s}
      PROVE  FALSE
  <2> DEFINE A == Below(s) \ {x}
  <2>1. ClosedBelow(A, s)
    BY <1>2, <1>3 DEF ClosedBelow
  <2>2. A \in SUBSET Surfaces
    BY <1>1
  <2>3. x \in A
    BY <2>1, <2>2 DEF Below
  <2> QED BY <2>3
<1>4. ASSUME NEW x \in Below(s), NEW y \in Below(x)
      PROVE  y \in Below(s)
  <2>1. ClosedBelow(Below(s), x)
    BY <1>2, <1>4 DEF ClosedBelow
  <2> QED BY <1>1, <1>4, <2>1 DEF Below
<1>5. s \notin Below(s)
  <2> SUFFICES ASSUME s \in Below(s) PROVE FALSE
    OBVIOUS
  <2>1. PICK x \in Below(s) : InitialParent[x] \notin Below(s)
    BY <1>1, ForestAssumption
  <2> QED BY <1>3, <2>1
<1> QED BY <1>1, <1>2, <1>3, <1>4, <1>5

\* A subtree that reaches below z without containing it is below z.
LEMMA SubtreeBelow ==
    ASSUME NEW S \in SUBSET Surfaces, NEW c \in S,
           \A x \in S : x = c \/ (x \in Below(c) /\ InitialParent[x] \in S),
           NEW z \in Surfaces, z \notin S, NEW y \in S, y \in Below(z)
    PROVE  S \subseteq Below(z)
<1>1. c \in Below(z)
  <2> SUFFICES ASSUME c \notin Below(z) PROVE FALSE
    OBVIOUS
  <2> DEFINE A == Below(z) \ S
  <2>1. ClosedBelow(A, z)
    <3> SUFFICES ASSUME NEW x \in Surfaces, InitialParent[x] \in A \cup {z}
                 PROVE  x \in A
      BY DEF ClosedBelow
    <3>1. x \in Below(z)
      BY BelowFacts
    <3>2. x \notin S
      BY <3>1
    <3> QED BY <3>1, <3>2
  <2>2. A \in SUBSET Surfaces
    BY BelowFacts
  <2>3. y \in A
    BY <2>1, <2>2 DEF Below
  <2> QED BY <2>3
<1> QED BY <1>1, BelowFacts

------------------------------------------------------------------------------
(* Facts about the call stack                                               *)

LEMMA OutsideCalls ==
    ASSUME NEW S, NEW k
    PROVE  /\ \A o : o \in OuterOps(S, k) <=> \E l \in DOMAIN S : l > k /\ S[l].op = o
           /\ \A t : t \in Outer(S, k) <=>
                 \E l \in DOMAIN S : l > k /\ S[l].op \in ApplyCalls /\ S[l].tx = t
BY DEF OuterOps, Outer

\* The calls cs have taken the place of the innermost call of the stack S, if
\* there was one, and N is the result.
Replaced(S, cs, N) ==
    /\ \A k \in DOMAIN cs :
          /\ k \in DOMAIN N /\ N[k] = cs[k]
          /\ OuterOps(N, k) = OuterOps(cs, k) \cup OuterOps(S, 1)
          /\ Outer(N, k) = Outer(cs, k) \cup Outer(S, 1)
    /\ \A k \in DOMAIN N \ DOMAIN cs : \E m \in DOMAIN S :
          /\ m > 1 /\ N[k] = S[m]
          /\ OuterOps(N, k) = OuterOps(S, m)
          /\ Outer(N, k) = Outer(S, m)
    /\ Outer(N, 0) = Outer(cs, 0) \cup Outer(S, 1)
    /\ \A m \in DOMAIN S : m > 1 => \E k \in DOMAIN N : N[k] = S[m]

LEMMA ReplacedPlaces ==
    ASSUME NEW S, NEW cs, NEW N, NEW n \in Nat, NEW z \in Nat, z > 0,
           DOMAIN S = 1..z, DOMAIN cs = 1..n, DOMAIN N = 1..(n + z - 1),
           \A k \in 1..n : N[k] = cs[k],
           \A k \in (n + 1)..(n + z - 1) : N[k] = S[k - n + 1]
    PROVE  Replaced(S, cs, N)
<1>4. \A m \in DOMAIN S : m > 1 =>
         /\ m + n - 1 \in DOMAIN N /\ N[m + n - 1] = S[m]
  <2> SUFFICES ASSUME NEW m \in DOMAIN S, m > 1
               PROVE  m + n - 1 \in DOMAIN N /\ N[m + n - 1] = S[m]
    OBVIOUS
  <2> DEFINE k == m + n - 1
  <2>1. k \in (n + 1)..(n + z - 1) /\ k - n + 1 = m /\ k \in DOMAIN N
    OBVIOUS
  <2> HIDE DEF k
  <2>2. N[k] = S[k - n + 1]
    BY <2>1
  <2> QED BY <2>1, <2>2 DEF k
<1>5. \A k \in DOMAIN N : k \in DOMAIN cs \/
         (k > n /\ k - n + 1 \in DOMAIN S /\ k - n + 1 > 1 /\ N[k] = S[k - n + 1])
  OBVIOUS
<1>6. \A k \in DOMAIN cs : k \in DOMAIN N /\ N[k] = cs[k]
  OBVIOUS
<1>7. ASSUME NEW k \in DOMAIN cs \cup {0}
      PROVE  /\ OuterOps(N, k) = OuterOps(cs, k) \cup OuterOps(S, 1)
             /\ Outer(N, k) = Outer(cs, k) \cup Outer(S, 1)
  <2>1. \A l \in DOMAIN N : l > k =>
           \/ l \in DOMAIN cs /\ N[l] = cs[l]
           \/ \E m \in DOMAIN S : m > 1 /\ N[l] = S[m]
    BY <1>5, <1>6
  <2>2. \A m \in DOMAIN S : m > 1 =>
           \E l \in DOMAIN N : l > k /\ N[l] = S[m]
    <3> SUFFICES ASSUME NEW m \in DOMAIN S, m > 1
                 PROVE  \E l \in DOMAIN N : l > k /\ N[l] = S[m]
      OBVIOUS
    <3>1. m + n - 1 > k
      OBVIOUS
    <3> QED BY <1>4, <3>1
  <2>3. ASSUME NEW o
        PROVE  o \in OuterOps(N, k) <=> o \in OuterOps(cs, k) \cup OuterOps(S, 1)
    <3>1. o \in OuterOps(N, k) <=> \E l \in DOMAIN N : l > k /\ N[l].op = o
      BY OutsideCalls, SMTT(30)
    <3>2. o \in OuterOps(cs, k) <=> \E l \in DOMAIN cs : l > k /\ cs[l].op = o
      BY OutsideCalls, SMTT(30)
    <3>3. o \in OuterOps(S, 1) <=> \E l \in DOMAIN S : l > 1 /\ S[l].op = o
      BY OutsideCalls, SMTT(30)
    <3> QED BY <1>6, <2>1, <2>2, <3>1, <3>2, <3>3
  <2>4. ASSUME NEW t
        PROVE  t \in Outer(N, k) <=> t \in Outer(cs, k) \cup Outer(S, 1)
    <3>1. t \in Outer(N, k) <=> \E l \in DOMAIN N :
             l > k /\ N[l].op \in ApplyCalls /\ N[l].tx = t
      BY OutsideCalls, SMTT(30)
    <3>2. t \in Outer(cs, k) <=> \E l \in DOMAIN cs :
             l > k /\ cs[l].op \in ApplyCalls /\ cs[l].tx = t
      BY OutsideCalls, SMTT(30)
    <3>3. t \in Outer(S, 1) <=> \E l \in DOMAIN S :
             l > 1 /\ S[l].op \in ApplyCalls /\ S[l].tx = t
      BY OutsideCalls, SMTT(30)
    <3> QED BY <1>6, <2>1, <2>2, <3>1, <3>2, <3>3
  <2> QED BY <2>3, <2>4
<1>8. ASSUME NEW k \in DOMAIN N \ DOMAIN cs
      PROVE  \E m \in DOMAIN S : /\ m > 1 /\ N[k] = S[m]
                                 /\ OuterOps(N, k) = OuterOps(S, m)
                                 /\ Outer(N, k) = Outer(S, m)
  <2> DEFINE m == k - n + 1
  <2>1. m \in DOMAIN S /\ m > 1 /\ N[k] = S[m] /\ k > n
    BY <1>5
  <2>2. \A l \in DOMAIN N : l > k =>
           \E o \in DOMAIN S : o > m /\ N[l] = S[o]
    <3> SUFFICES ASSUME NEW l \in DOMAIN N, l > k
                 PROVE  \E o \in DOMAIN S : o > m /\ N[l] = S[o]
      OBVIOUS
    <3>0. l \in Nat /\ k \in Nat /\ n \in Nat
      OBVIOUS
    <3>1. l \notin DOMAIN cs
      BY <2>1, <3>0
    <3>2. l - n + 1 \in DOMAIN S /\ N[l] = S[l - n + 1]
      BY <1>5, <3>1
    <3>3. l - n + 1 > m
      BY <3>0
    <3> QED BY <3>2, <3>3
  <2>3. \A o \in DOMAIN S : o > m => \E l \in DOMAIN N : l > k /\ N[l] = S[o]
    <3> SUFFICES ASSUME NEW o \in DOMAIN S, o > m
                 PROVE  \E l \in DOMAIN N : l > k /\ N[l] = S[o]
      OBVIOUS
    <3>0. o \in Nat /\ k \in Nat /\ n \in Nat
      OBVIOUS
    <3>1. o > 1 /\ o + n - 1 > k
      BY <2>1, <3>0
    <3> QED BY <1>4, <3>1
  <2> HIDE DEF m
  <2>4. ASSUME NEW o PROVE o \in OuterOps(N, k) <=> o \in OuterOps(S, m)
    <3>1. o \in OuterOps(N, k) <=> \E l \in DOMAIN N : l > k /\ N[l].op = o
      BY OutsideCalls, SMTT(30)
    <3>2. o \in OuterOps(S, m) <=> \E l \in DOMAIN S : l > m /\ S[l].op = o
      BY OutsideCalls, SMTT(30)
    <3> QED BY <2>2, <2>3, <3>1, <3>2
  <2>5. ASSUME NEW t PROVE t \in Outer(N, k) <=> t \in Outer(S, m)
    <3>1. t \in Outer(N, k) <=> \E l \in DOMAIN N :
             l > k /\ N[l].op \in ApplyCalls /\ N[l].tx = t
      BY OutsideCalls, SMTT(30)
    <3>2. t \in Outer(S, m) <=> \E l \in DOMAIN S :
             l > m /\ S[l].op \in ApplyCalls /\ S[l].tx = t
      BY OutsideCalls, SMTT(30)
    <3> QED BY <2>2, <2>3, <3>1, <3>2
  <2>6. OuterOps(N, k) = OuterOps(S, m) /\ Outer(N, k) = Outer(S, m)
    BY <2>4, <2>5
  <2> QED BY <2>1, <2>6
<1>9. \A m \in DOMAIN S : m > 1 => \E k \in DOMAIN N : N[k] = S[m]
  BY <1>4
<1> QED BY <1>6, <1>7, <1>8, <1>9 DEF Replaced

LEMMA Returned ==
    ASSUME NEW S \in Seq(CallType), S # <<>>, NEW cs \in Seq(CallType)
    PROVE  Replaced(S, cs, cs \o Tail(S))
<1> DEFINE n == Len(cs)
           z == Len(S)
           T == Tail(S)
           N == cs \o T
<1>1. /\ T \in Seq(CallType) /\ Len(T) = z - 1
      /\ \A i \in 1..Len(T) : T[i] = S[i + 1]
      /\ z \in Nat /\ z > 0 /\ DOMAIN S = 1..z
  BY HeadTailProperties, EmptySeq, LenProperties
<1>2. /\ n \in Nat /\ DOMAIN cs = 1..n
  BY LenProperties
<1>0. T \in Seq(CallType)
  BY <1>1
<1> HIDE DEF T
<1>3. /\ Len(N) = n + Len(T)
      /\ \A i \in 1..Len(N) : N[i] = IF i <= n THEN cs[i] ELSE T[i - n]
      /\ N \in Seq(CallType)
  BY <1>0, ConcatProperties
<1>4. DOMAIN N = 1..Len(N)
  BY <1>3, LenProperties
<1> HIDE DEF n, z, N
<1>5. /\ DOMAIN N = 1..(n + z - 1)
      /\ \A k \in 1..n : N[k] = cs[k]
      /\ \A k \in (n + 1)..(n + z - 1) : N[k] = S[k - n + 1]
  BY <1>1, <1>2, <1>3, <1>4
<1>6. Replaced(S, cs, N)
  BY <1>1, <1>2, <1>5, ReplacedPlaces
<1> QED BY <1>6 DEF N, T

\* The running function makes the calls cs and returns.
LEMMA ReturnReplaces ==
    ASSUME TypeOK, stack # <<>>, NEW cs \in Seq(CallType), ReturnVia(cs)
    PROVE  Replaced(stack, cs, stack')
<1>1. stack \in Seq(CallType)
  BY DEF TypeOK
<1> QED BY <1>1, Returned DEF ReturnVia

\* The running loop makes the calls cs and goes on.
LEMMA VisitReplaces ==
    ASSUME TypeOK, stack # <<>>, Head(stack).op \in SurfaceCalls,
           NEW s, NEW cs \in Seq(CallType), VisitVia(s, cs)
    PROVE  \E rest \in CallType :
              /\ rest.op = Head(stack).op
              /\ rest.todo = Head(stack).todo \ {s}
              /\ Replaced(stack, cs \o <<rest>>, stack')
<1> DEFINE c == Head(stack)
           rest == [c EXCEPT !.todo = @ \ {s}]
<1>1. c \in CallType /\ stack \in Seq(CallType) /\ Tail(stack) \in Seq(CallType)
  BY HeadTailProperties DEF TypeOK
<1>2. c \in [op: SurfaceCalls, todo: SUBSET Surfaces]
  BY <1>1 DEF CallType, SurfaceCalls
<1>3. /\ rest \in [op: SurfaceCalls, todo: SUBSET Surfaces]
      /\ rest.op = c.op /\ rest.todo = c.todo \ {s}
  BY <1>2
<1>4. rest \in CallType
  BY <1>3 DEF CallType
<1>5. stack' = cs \o <<rest>> \o Tail(stack)
  BY DEF VisitVia
<1> HIDE DEF rest
<1>6. <<rest>> \in Seq(CallType)
  BY <1>4
<1>7. cs \o <<rest>> \in Seq(CallType)
  BY <1>6, ConcatProperties
<1>8. Replaced(stack, cs \o <<rest>>, stack')
  BY <1>1, <1>5, <1>7, Returned
<1> QED BY <1>3, <1>4, <1>8

\* A handler makes the calls cs.
LEMMA IdleReplaces ==
    ASSUME Idle, NEW cs, stack' = cs
    PROVE  Replaced(stack, cs, stack')
<1>1. DOMAIN stack = {}
  BY DEF Idle
<1>2. OuterOps(stack, 1) = {} /\ Outer(stack, 1) = {}
  BY <1>1 DEF OuterOps, Outer
<1> QED BY <1>1, <1>2 DEF Replaced

Txs(c) == IF c.op \in ApplyCalls THEN {c.tx} ELSE {}

\* What is further out than the places of a few calls.
LEMMA OneFrame ==
    ASSUME NEW a
    PROVE  /\ DOMAIN <<a>> = {1} /\ <<a>>[1] = a
           /\ OuterOps(<<a>>, 1) = {} /\ Outer(<<a>>, 1) = {}
           /\ Outer(<<a>>, 0) = Txs(a)
<1> DEFINE S == <<a>>
<1>1. DOMAIN S = {1} /\ S[1] = a
  OBVIOUS
<1> HIDE DEF S
<1>2. OuterOps(S, 1) = {} /\ Outer(S, 1) = {}
  BY <1>1 DEF OuterOps, Outer
<1>3. Outer(S, 0) = Txs(a)
  BY <1>1 DEF Outer, Txs
<1> QED BY <1>1, <1>2, <1>3 DEF S

LEMMA TwoFrames ==
    ASSUME NEW a, NEW b
    PROVE  /\ DOMAIN <<a, b>> = {1, 2} /\ <<a, b>>[1] = a /\ <<a, b>>[2] = b
           /\ OuterOps(<<a, b>>, 1) = {b.op} /\ Outer(<<a, b>>, 1) = Txs(b)
           /\ OuterOps(<<a, b>>, 2) = {} /\ Outer(<<a, b>>, 2) = {}
           /\ Outer(<<a, b>>, 0) = Txs(a) \cup Txs(b)
<1> DEFINE S == <<a, b>>
<1>1. DOMAIN S = {1, 2} /\ S[1] = a /\ S[2] = b
  OBVIOUS
<1> HIDE DEF S
<1>2. OuterOps(S, 1) = {b.op} /\ OuterOps(S, 2) = {} /\ Outer(S, 2) = {}
  BY <1>1 DEF OuterOps, Outer
<1>3. Outer(S, 1) = Txs(b)
  BY <1>1 DEF Outer, Txs
<1>4. Outer(S, 0) = Txs(a) \cup Txs(b)
  BY <1>1 DEF Outer, Txs
<1> QED BY <1>1, <1>2, <1>3, <1>4 DEF S

LEMMA ThreeFrames ==
    ASSUME NEW a, NEW b, NEW c
    PROVE  /\ DOMAIN <<a, b, c>> = {1, 2, 3}
           /\ <<a, b, c>>[1] = a /\ <<a, b, c>>[2] = b /\ <<a, b, c>>[3] = c
           /\ OuterOps(<<a, b, c>>, 1) = {b.op, c.op}
           /\ Outer(<<a, b, c>>, 1) = Txs(b) \cup Txs(c)
           /\ OuterOps(<<a, b, c>>, 2) = {c.op}
           /\ Outer(<<a, b, c>>, 2) = Txs(c)
           /\ OuterOps(<<a, b, c>>, 3) = {} /\ Outer(<<a, b, c>>, 3) = {}
           /\ Outer(<<a, b, c>>, 0) = Txs(a) \cup Txs(b) \cup Txs(c)
<1> DEFINE S == <<a, b, c>>
<1>1. DOMAIN S = {1, 2, 3} /\ S[1] = a /\ S[2] = b /\ S[3] = c
  OBVIOUS
<1> HIDE DEF S
<1>2. /\ OuterOps(S, 1) = {b.op, c.op} /\ OuterOps(S, 2) = {c.op}
      /\ OuterOps(S, 3) = {} /\ Outer(S, 3) = {}
  BY <1>1 DEF OuterOps, Outer
<1>3. Outer(S, 1) = Txs(b) \cup Txs(c)
  BY <1>1 DEF Outer, Txs
<1>4. Outer(S, 2) = Txs(c)
  BY <1>1 DEF Outer, Txs
<1>5. Outer(S, 0) = Txs(a) \cup Txs(b) \cup Txs(c)
  BY <1>1 DEF Outer, Txs
<1> QED BY <1>1, <1>2, <1>3, <1>4, <1>5 DEF S

\* Who is never further out.
LEMMA CallersFacts ==
    ASSUME NEW op
    PROVE  /\ CallersOf(op) \cap {"tryApply", "addChild", "merge"} = {}
           /\ op \in TryOps => CallersOf(op) =
                {"tryFirst", "tryChildren", "unlink", "destroyed"} \cup DesyncOps
           /\ op \in MappingOps => CallersOf(op) =
                {"tryFirst", "tryChildren", "unlink", "applyStates", "destroyed"}
                  \cup DesyncOps \cup {c \in MappingOps : op = "updateMapped"}
           /\ op \in {"commit"} \cup DesyncOps => CallersOf(op) = DesyncOps
           /\ op = "merge" => CallersOf(op) = {"add", "commit"}
           /\ op = "add" => CallersOf(op) = {"commit"}
           /\ op = "destroyed" => CallersOf(op) = {}
BY DEF CallersOf, TryOps, MappingOps, DesyncOps

\* The calls, and those that are not the running one.
LEMMA CallPlaces ==
    ASSUME TypeOK
    PROVE  /\ stack # <<>> => 1 \in DOMAIN stack /\ stack[1] = Head(stack)
           /\ stack # <<>> => Head(stack) \in Calls
           /\ stack = <<>> => DOMAIN stack = {} /\ Calls = {}
           /\ \A k \in DOMAIN stack : k = 1 \/ k > 1
           /\ \A k \in DOMAIN stack : k \in Nat /\ stack[k] \in CallType
           /\ \A k \in DOMAIN stack : k > 1 => 1 \in DOMAIN stack
           /\ \A c \in Calls : c \in CallType
           /\ \A c \in Calls :
                 c = Head(stack) \/ \E k \in DOMAIN stack : k > 1 /\ stack[k] = c
<1>1. /\ stack \in Seq(CallType) /\ DOMAIN stack = 1..Len(stack)
      /\ Len(stack) \in Nat
  BY LenProperties DEF TypeOK
<1>2. stack # <<>> => Len(stack) > 0 /\ stack[1] = Head(stack)
  BY <1>1, EmptySeq, HeadTailProperties
<1>3. \A k \in DOMAIN stack : stack[k] \in CallType
  BY <1>1, ElementOfSeq
<1>4. stack = <<>> => DOMAIN stack = {} /\ Calls = {}
  BY DEF Calls
<1>5. \A k \in DOMAIN stack : k \in Nat /\ (k = 1 \/ k > 1)
  BY <1>1
<1>6. \A k \in DOMAIN stack : k > 1 => 1 \in DOMAIN stack
  BY <1>1
<1>7. stack # <<>> => 1 \in DOMAIN stack
  BY <1>1, <1>2
<1>8. \A c \in Calls :
         c = Head(stack) \/ \E k \in DOMAIN stack : k > 1 /\ stack[k] = c
  BY <1>2, <1>4, <1>5 DEF Calls
<1>9. (stack # <<>> => Head(stack) \in Calls) /\ \A c \in Calls : c \in CallType
  BY <1>2, <1>3, <1>7 DEF Calls
<1> QED BY <1>2, <1>3, <1>4, <1>5, <1>6, <1>7, <1>8, <1>9

\* What is known of a call that is not the running one.
LEMMA FurtherOut ==
    ASSUME TypeOK, Nesting, NEW m \in DOMAIN stack, m > 1
    PROVE  /\ stack[m].op \in OuterOps(stack, 1)
           /\ stack[m].op \in CallersOf(Head(stack).op)
           /\ stack[m].op \notin {"tryApply", "addChild", "merge"}
           /\ Outer(stack, m) \subseteq Outer(stack, 1)
           /\ stack[m].op \in ApplyCalls => stack[m].tx \in Outer(stack, 1)
<1>1. 1 \in DOMAIN stack /\ stack # <<>> /\ stack[1] = Head(stack) /\ m \in Nat
  BY CallPlaces
<1>2. stack[m].op \in OuterOps(stack, 1)
  BY OutsideCalls
<1>3. OuterOps(stack, 1) \subseteq CallersOf(Head(stack).op)
  BY <1>1 DEF Nesting, NestedIn
<1>4. stack[m].op \notin {"tryApply", "addChild", "merge"}
  BY <1>2, <1>3, CallersFacts
<1>5. Outer(stack, m) \subseteq Outer(stack, 1)
  <2> SUFFICES ASSUME NEW t \in Outer(stack, m) PROVE t \in Outer(stack, 1)
    OBVIOUS
  <2>1. PICK l \in DOMAIN stack : l > m /\ stack[l].op \in ApplyCalls /\ stack[l].tx = t
    BY OutsideCalls
  <2>2. l > 1
    BY <1>1, <2>1, CallPlaces
  <2> QED BY <2>1, <2>2, OutsideCalls
<1>6. stack[m].op \in ApplyCalls => stack[m].tx \in Outer(stack, 1)
  BY OutsideCalls
<1> QED BY <1>2, <1>3, <1>4, <1>5, <1>6

\* The transactions whose apply() runs, and when there are none.
LEMMA OuterApplying ==
    ASSUME TypeOK, Nesting
    PROVE  /\ \A t \in Outer(stack, 1) : t \in Transactions /\ status[t] = "applying"
           /\ stack # <<>> /\ CallersOf(Head(stack).op) \cap ApplyCalls = {}
                 => Outer(stack, 1) = {}
           /\ stack = <<>> => Outer(stack, 1) = {} /\ OuterOps(stack, 1) = {}
           /\ stack # <<>> => OuterOps(stack, 1) \subseteq CallersOf(Head(stack).op)
           /\ \A t \in Transactions : status[t] = "applying" =>
                 \/ t \in Outer(stack, 1)
                 \/ /\ stack # <<>> /\ Head(stack).op \in ApplyCalls
                    /\ Head(stack).tx = t
           /\ stack # <<>> /\ Head(stack).op \in ApplyCalls =>
                 Head(stack).tx \notin Outer(stack, 1)
<1>1. ASSUME NEW t \in Outer(stack, 1)
      PROVE  t \in Transactions /\ status[t] = "applying"
  <2>1. PICK l \in DOMAIN stack : l > 1 /\ stack[l].op \in ApplyCalls /\ stack[l].tx = t
    BY <1>1, OutsideCalls
  <2>2. stack[l] \in CallType
    BY CallPlaces
  <2>3. t \in Transactions
    BY <2>1, <2>2, CallFields DEF ApplyCalls
  <2> QED BY <2>1, <2>3 DEF Nesting, NestedIn
<1>2. ASSUME stack # <<>>, CallersOf(Head(stack).op) \cap ApplyCalls = {}
      PROVE  Outer(stack, 1) = {}
  <2> SUFFICES ASSUME NEW t \in Outer(stack, 1) PROVE FALSE
    OBVIOUS
  <2>1. PICK l \in DOMAIN stack : l > 1 /\ stack[l].op \in ApplyCalls /\ stack[l].tx = t
    BY OutsideCalls
  <2> QED BY <1>2, <2>1, FurtherOut
<1>3. stack = <<>> => Outer(stack, 1) = {} /\ OuterOps(stack, 1) = {}
  BY CallPlaces DEF Outer, OuterOps
<1>4. stack # <<>> => OuterOps(stack, 1) \subseteq CallersOf(Head(stack).op)
  BY CallPlaces DEF Nesting, NestedIn
<1>5. ASSUME NEW t \in Transactions, status[t] = "applying", t \notin Outer(stack, 1)
      PROVE  stack # <<>> /\ Head(stack).op \in ApplyCalls /\ Head(stack).tx = t
  <2>1. t \in Outer(stack, 0)
    BY <1>5 DEF Nesting
  <2>2. PICK l \in DOMAIN stack : l > 0 /\ stack[l].op \in ApplyCalls /\ stack[l].tx = t
    BY <2>1, OutsideCalls
  <2>3. l = 1
    BY <1>5, <2>2, CallPlaces, OutsideCalls
  <2> QED BY <2>2, <2>3, CallPlaces
<1>6. stack # <<>> /\ Head(stack).op \in ApplyCalls =>
         Head(stack).tx \notin Outer(stack, 1)
  BY CallPlaces DEF Nesting, NestedIn
<1> QED BY <1>1, <1>2, <1>3, <1>4, <1>5, <1>6

Fits(c, U, O) == NestedIn(c, U, O) /\ InsideOf(c, U)

\* The calls further out still fit after a step that changes nothing for the
\* transactions that are being applied there.
LEMMA StackKept ==
    ASSUME TypeOK, Nesting, Inside, NEW cs, Replaced(stack, cs, stack'),
           NEW U, U = Outer(stack, 1), NEW O, O = OuterOps(stack, 1),
           \A t \in U : /\ status'[t] = "applying"
                        /\ SurfacesOf(t)' = SurfacesOf(t)
                        /\ \A x \in Surfaces : Open(t, x)' => Open(t, x),
           U # {} => \A s \in Surfaces :
                        /\ life'[s] = "dead" <=> life[s] = "dead"
                        /\ sub'[s] = sub[s] /\ parent'[s] = parent[s],
           \A k \in DOMAIN cs : Fits(cs[k], Outer(cs, k) \cup U, OuterOps(cs, k) \cup O)',
           \A t \in Transactions : status'[t] = "applying" => t \in Outer(cs, 0) \cup U
    PROVE  Nesting' /\ Inside'
<1>1. ASSUME NEW k \in DOMAIN stack', k \in DOMAIN cs
      PROVE  Fits(stack[k], Outer(stack, k), OuterOps(stack, k))'
  BY <1>1 DEF Replaced
<1>2. ASSUME NEW k \in DOMAIN stack', k \notin DOMAIN cs
      PROVE  Fits(stack[k], Outer(stack, k), OuterOps(stack, k))'
  <2>1. PICK m \in DOMAIN stack : /\ m > 1 /\ stack'[k] = stack[m]
                                  /\ OuterOps(stack', k) = OuterOps(stack, m)
                                  /\ Outer(stack', k) = Outer(stack, m)
    BY <1>2 DEF Replaced
  <2>2. PICK c : c = stack[m]
    OBVIOUS
  <2>3. PICK V : V = Outer(stack, m)
    OBVIOUS
  <2>4. PICK W : W = OuterOps(stack, m)
    OBVIOUS
  <2>5. /\ c \in CallType /\ c.op \notin {"tryApply", "addChild", "merge"}
        /\ V \subseteq U /\ (c.op \in ApplyCalls => c.tx \in U)
        /\ NestedIn(c, V, W) /\ InsideOf(c, V)
    BY <2>1, <2>2, <2>3, <2>4, FurtherOut, CallPlaces DEF Nesting, Inside
  <2>6. \A t \in V : t \in Transactions /\ status[t] = "applying"
    BY <2>5, OuterApplying
  <2>7. NestedIn(c, V, W)'
    BY <2>5 DEF NestedIn
  <2>8. InsideOf(c, V)'
    <3>0. CASE V = {}
      BY <3>0 DEF InsideOf
    <3> SUFFICES ASSUME V # {} PROVE InsideOf(c, V)'
      BY <3>0
    <3>1. \A s \in Surfaces : /\ life'[s] = "dead" <=> life[s] = "dead"
                              /\ sub'[s] = sub[s] /\ parent'[s] = parent[s]
      BY <2>5
    <3>2. ASSUME NEW t \in V, NEW x \in Surfaces
          PROVE  (Open(t, x)' => Open(t, x)) /\ Rooted(t, x)' = Rooted(t, x)
      BY <2>5, <3>2 DEF Rooted
    <3>3. CASE c.op \in ApplyCalls
      <4>1. SurfacesOf(c.tx)' = SurfacesOf(c.tx)
        BY <2>5, <3>3
      <4>2. c.op \notin {"tryApply", "tryFirst", "tryChildren"}
        BY <3>3 DEF ApplyCalls
      <4> QED BY <2>5, <3>2, <3>3, <4>1, <4>2 DEF InsideOf
    <3>4. CASE c.op = "tryChildren"
      BY <2>5, <3>2, <3>4, CallFields DEF InsideOf, ApplyCalls, SurfaceCalls
    <3>5. CASE c.op = "tryFirst"
      BY <2>5, <3>1, <3>2, <3>5, CallFields DEF InsideOf, ApplyCalls, SurfaceCalls
    <3>6. CASE c.op \notin ApplyCalls \cup {"tryFirst", "tryChildren"}
      BY <2>5, <3>6 DEF InsideOf
    <3> QED BY <3>3, <3>4, <3>5, <3>6
  <2> QED BY <2>1, <2>2, <2>3, <2>4, <2>7, <2>8 DEF Fits
<1>3. \A t \in Transactions : status'[t] = "applying" => t \in Outer(stack', 0)
  BY DEF Replaced
<1> QED BY <1>1, <1>2, <1>3 DEF Nesting, Inside, Fits

\* Nothing changes for the transactions that are being applied further out.
OuterSame(U) ==
    /\ \A t \in U : /\ status'[t] = "applying"
                    /\ SurfacesOf(t)' = SurfacesOf(t)
                    /\ \A x \in Surfaces : Open(t, x)' => Open(t, x)
    /\ U # {} => \A s \in Surfaces : /\ life'[s] = "dead" <=> life[s] = "dead"
                                     /\ sub'[s] = sub[s] /\ parent'[s] = parent[s]

LEMMA NoFrameFits ==
    ASSUME TypeOK, Nesting, Inside, NEW cs, cs = <<>>,
           Replaced(stack, cs, stack'),
           NEW U, U = Outer(stack, 1), OuterSame(U),
           \A t \in Transactions : status'[t] = "applying" => t \in U
    PROVE  Nesting' /\ Inside'
<1>1. PICK O : O = OuterOps(stack, 1)
  OBVIOUS
<1>2. DOMAIN cs = {} /\ Outer(cs, 0) = {}
  BY DEF Outer
<1> QED BY <1>1, <1>2, StackKept DEF OuterSame

LEMMA OneFrameFits ==
    ASSUME TypeOK, Nesting, Inside, NEW a, Replaced(stack, <<a>>, stack'),
           NEW U, U = Outer(stack, 1), NEW O, O = OuterOps(stack, 1), OuterSame(U),
           Fits(a, U, O)',
           \A t \in Transactions : status'[t] = "applying" => t \in Txs(a) \cup U
    PROVE  Nesting' /\ Inside'
<1>1. PICK cs : cs = <<a>>
  OBVIOUS
<1>2. /\ DOMAIN cs = {1} /\ cs[1] = a /\ Outer(cs, 0) = Txs(a)
      /\ OuterOps(cs, 1) \cup O = O /\ Outer(cs, 1) \cup U = U
  BY <1>1, OneFrame
<1>3. \A k \in DOMAIN cs : Fits(cs[k], Outer(cs, k) \cup U, OuterOps(cs, k) \cup O)'
  BY <1>2
<1> QED BY <1>1, <1>2, <1>3, StackKept DEF OuterSame

LEMMA TwoFramesFit ==
    ASSUME TypeOK, Nesting, Inside, NEW a, NEW b,
           Replaced(stack, <<a, b>>, stack'),
           NEW U, U = Outer(stack, 1), NEW O, O = OuterOps(stack, 1), OuterSame(U),
           Fits(a, Txs(b) \cup U, {b.op} \cup O)', Fits(b, U, O)',
           \A t \in Transactions :
              status'[t] = "applying" => t \in Txs(a) \cup Txs(b) \cup U
    PROVE  Nesting' /\ Inside'
<1>1. PICK cs : cs = <<a, b>>
  OBVIOUS
<1>2. /\ DOMAIN cs = {1, 2} /\ cs[1] = a /\ cs[2] = b
      /\ Outer(cs, 0) = Txs(a) \cup Txs(b)
      /\ OuterOps(cs, 1) = {b.op} /\ Outer(cs, 1) = Txs(b)
      /\ OuterOps(cs, 2) \cup O = O /\ Outer(cs, 2) \cup U = U
  BY <1>1, TwoFrames
<1>3. \A k \in DOMAIN cs : Fits(cs[k], Outer(cs, k) \cup U, OuterOps(cs, k) \cup O)'
  BY <1>2
<1> QED BY <1>1, <1>2, <1>3, StackKept DEF OuterSame

LEMMA ThreeFramesFit ==
    ASSUME TypeOK, Nesting, Inside, NEW a, NEW b, NEW c,
           Replaced(stack, <<a, b, c>>, stack'),
           NEW U, U = Outer(stack, 1), NEW O, O = OuterOps(stack, 1), OuterSame(U),
           Fits(a, Txs(b) \cup Txs(c) \cup U, {b.op, c.op} \cup O)',
           Fits(b, Txs(c) \cup U, {c.op} \cup O)',
           Fits(c, U, O)',
           \A t \in Transactions :
              status'[t] = "applying" => t \in Txs(a) \cup Txs(b) \cup Txs(c) \cup U
    PROVE  Nesting' /\ Inside'
<1>1. PICK cs : cs = <<a, b, c>>
  OBVIOUS
<1>2. /\ DOMAIN cs = {1, 2, 3} /\ cs[1] = a /\ cs[2] = b /\ cs[3] = c
      /\ Outer(cs, 0) = Txs(a) \cup Txs(b) \cup Txs(c)
  BY <1>1, ThreeFrames
<1>3. /\ OuterOps(cs, 1) = {b.op, c.op} /\ Outer(cs, 1) = Txs(b) \cup Txs(c)
      /\ OuterOps(cs, 2) = {c.op} /\ Outer(cs, 2) = Txs(c)
      /\ OuterOps(cs, 3) \cup O = O /\ Outer(cs, 3) \cup U = U
  <2>1. OuterOps(cs, 1) = {b.op, c.op} /\ OuterOps(cs, 2) = {c.op} /\ OuterOps(cs, 3) = {}
    BY <1>1, ThreeFrames
  <2>2. /\ Outer(cs, 1) = Txs(b) \cup Txs(c) /\ Outer(cs, 2) = Txs(c)
        /\ Outer(cs, 3) = {}
    BY <1>1, ThreeFrames
  <2> QED BY <2>1, <2>2
<1>4. Fits(cs[1], Outer(cs, 1) \cup U, OuterOps(cs, 1) \cup O)'
  BY <1>2, <1>3
<1>5. Fits(cs[2], Outer(cs, 2) \cup U, OuterOps(cs, 2) \cup O)'
  BY <1>2, <1>3
<1>6. Fits(cs[3], Outer(cs, 3) \cup U, OuterOps(cs, 3) \cup O)'
  BY <1>2, <1>3
<1>7. \A k \in DOMAIN cs : Fits(cs[k], Outer(cs, k) \cup U, OuterOps(cs, k) \cup O)'
  BY <1>2, <1>4, <1>5, <1>6
<1> QED BY <1>1, <1>2, <1>7, StackKept DEF OuterSame

\* The calls after a step: those made, and those that were further out.
LEMMA CallsAfter ==
    ASSUME TypeOK, NEW cs, Replaced(stack, cs, stack')
    PROVE  /\ \A d \in Calls' : \/ \E k \in DOMAIN cs : cs[k] = d
                                \/ \E m \in DOMAIN stack : m > 1 /\ stack[m] = d
           /\ \A k \in DOMAIN cs : cs[k] \in Calls'
           /\ \A d \in Calls : d = Head(stack) \/ d \in Calls'
<1>1. \A d \in Calls' : \/ \E k \in DOMAIN cs : cs[k] = d
                        \/ \E m \in DOMAIN stack : m > 1 /\ stack[m] = d
  BY DEF Calls, Replaced
<1>2. \A k \in DOMAIN cs : cs[k] \in Calls'
  BY DEF Calls, Replaced
<1>3. \A d \in Calls : d = Head(stack) \/ d \in Calls'
  BY CallPlaces DEF Calls, Replaced
<1> QED BY <1>1, <1>2, <1>3

------------------------------------------------------------------------------
(* Steps that leave the queues alone                                        *)

\* Nothing changes for the transactions in the queues and the surfaces that
\* stay; a surface that goes takes its queue along.
QueuesSame ==
    /\ \A t \in Transactions :
          /\ status'[t] = status[t] \/ (~Committed(t) /\ ~Committed(t)')
          /\ Committed(t) =>
                /\ DOMAIN entries'[t] = DOMAIN entries[t]
                /\ Left(t)' = Left(t)
                /\ \A i \in DOMAIN entries[t] :
                      /\ entries'[t][i].surface = entries[t][i].surface
                      /\ entries'[t][i].prev = entries[t][i].prev
                      /\ entries'[t][i].next = entries[t][i].next
    /\ \A s \in Surfaces :
          \/ life'[s] = "dead" /\ first'[s] = None /\ last'[s] = None
          \/ life[s] # "dead" /\ life'[s] # "dead"
               /\ first'[s] = first[s] /\ last'[s] = last[s]

LEMMA EntryFields ==
    ASSUME TypeOK, NEW t \in Transactions, NEW i \in DOMAIN entries[t]
    PROVE  /\ entries[t][i] \in EntryType
           /\ entries[t][i].surface \in Surfaces
           /\ entries[t][i].state \in StateType
           /\ entries[t][i].prev \in Transactions \cup {None}
           /\ entries[t][i].next \in Transactions \cup {None}
           /\ DOMAIN entries[t] = 1..Len(entries[t]) /\ Len(entries[t]) \in Nat
<1>1. /\ entries[t] \in Seq(EntryType) /\ Len(entries[t]) \in Nat
      /\ DOMAIN entries[t] = 1..Len(entries[t])
  BY LenProperties DEF TypeOK
<1>2. entries[t][i] \in EntryType
  BY <1>1, ElementOfSeq
<1> QED BY <1>1, <1>2 DEF EntryType

LEMMA QueuesKept ==
    ASSUME TypeOK, Ends, AtEnds, Outside, Neighbours, Counted, OneEntryEach,
           QueuesSame, Outside'
    PROVE  Ends' /\ AtEnds' /\ Neighbours' /\ Counted' /\ OneEntryEach'
<1>1. ASSUME NEW t \in Transactions
      PROVE  /\ Committed(t)' = Committed(t)
             /\ status[t] = "queued" <=> status'[t] = "queued"
             /\ status[t] = "applying" <=> status'[t] = "applying"
  BY DEF QueuesSame, Committed
<1>2. ASSUME NEW t \in Transactions, Committed(t)
      PROVE  /\ Left(t) \subseteq DOMAIN entries[t]
             /\ SurfacesOf(t)' = SurfacesOf(t)
             /\ SelfWaiting(t)' = SelfWaiting(t)
             /\ \A n \in Transactions : Nexts(t, n)' = Nexts(t, n)
  BY <1>2 DEF QueuesSame, Left, SurfacesOf, SelfWaiting, Nexts
<1>3. ASSUME NEW t \in Transactions, NEW s \in Surfaces
      PROVE  /\ OnQueue(t, s)' = OnQueue(t, s)
             /\ \A u \in Transactions : Behind(u, t, s)' = Behind(u, t, s)
  BY <1>1, <1>2 DEF QueuesSame, OnQueue, Behind
<1>4. ASSUME NEW n \in Transactions, NEW u \in Transactions, Committed(u)
      PROVE  Prevs(n, u)' = Prevs(n, u)
  <2>1. CASE Committed(n)
    BY <2>1 DEF QueuesSame, Prevs
  <2>2. CASE ~Committed(n)
    <3>1. u # None
      BY ConstantsAssumption
    <3>2. Prevs(n, u) = {}
      BY <2>2, <3>1 DEF Outside, Prevs
    <3>3. ~Committed(n)'
      BY <1>1, <2>2
    <3>4. Prevs(n, u)' = {}
      BY <3>1, <3>3 DEF Outside, Prevs
    <3> QED BY <3>2, <3>4
  <2> QED BY <2>1, <2>2
<1>5. Ends'
  <2> SUFFICES ASSUME NEW s \in Surfaces
      PROVE /\ first'[s] = None <=> last'[s] = None
            /\ life'[s] = "dead" => first'[s] = None
            /\ first'[s] # None => OnQueue(first[s], s)'
            /\ last'[s] # None =>
                  /\ OnQueue(last[s], s)'
                  /\ \A j \in Left(last[s])' :
                        entries'[last'[s]][j].surface = s
                           => entries'[last'[s]][j].next \in {None, last'[s]}
    BY DEF Ends
  <2>1. CASE life'[s] = "dead"
    BY <2>1 DEF QueuesSame
  <2>2. CASE life'[s] # "dead"
    <3>1. first'[s] = first[s] /\ last'[s] = last[s]
      BY <2>2 DEF QueuesSame
    <3>2. PICK f \in Transactions \cup {None}, l \in Transactions \cup {None} :
             f = first[s] /\ l = last[s]
      BY DEF TypeOK
    <3>3. f # None => OnQueue(f, s)'
      BY <1>3, <3>2 DEF Ends
    <3>4. l # None => OnQueue(l, s)'
      BY <1>3, <3>2 DEF Ends
    <3>5. l # None => \A j \in Left(l)' :
             entries'[l][j].surface = s => entries'[l][j].next \in {None, l}
      <4> SUFFICES ASSUME l # None, NEW j \in Left(l)', entries'[l][j].surface = s
                   PROVE  entries'[l][j].next \in {None, l}
        OBVIOUS
      <4>1. Committed(l)
        BY <3>2 DEF Ends, OnQueue
      <4>2. /\ j \in Left(l) /\ j \in DOMAIN entries[l]
            /\ entries'[l][j].surface = entries[l][j].surface
            /\ entries'[l][j].next = entries[l][j].next
        BY <1>2, <4>1 DEF QueuesSame
      <4> QED BY <3>2, <4>2 DEF Ends
    <3>6. f = None <=> l = None
      BY <3>2 DEF Ends
    <3> QED BY <2>2, <3>1, <3>2, <3>3, <3>4, <3>5, <3>6
  <2> QED BY <2>1, <2>2
<1>6. AtEnds'
  <2> SUFFICES ASSUME NEW t \in Transactions, Committed(t)'
      PROVE /\ \A j \in Left(t)' :
                  /\ life'[entries'[t][j].surface] # "dead"
                  /\ entries'[t][j].next = None
                  => last'[entries'[t][j].surface] = t
            /\ \A s \in Surfaces :
                  /\ life'[s] # "dead"
                  /\ OnQueue(t, s)'
                  /\ \A u \in Transactions \ {t} : ~Behind(t, u, s)'
                  => first'[s] = t
    BY DEF AtEnds
  <2>1. Committed(t)
    BY <1>1
  <2>2. ASSUME NEW j \in Left(t)', life'[entries'[t][j].surface] # "dead",
               entries'[t][j].next = None
        PROVE  last'[entries'[t][j].surface] = t
    <3>1. /\ j \in Left(t) /\ j \in DOMAIN entries[t]
          /\ entries'[t][j].surface = entries[t][j].surface
          /\ entries'[t][j].next = entries[t][j].next
      BY <1>2, <2>1, <2>2 DEF QueuesSame
    <3>2. entries[t][j].surface \in Surfaces
      BY <3>1, EntryFields
    <3> QED BY <2>1, <2>2, <3>1, <3>2 DEF AtEnds, QueuesSame
  <2>3. ASSUME NEW s \in Surfaces, life'[s] # "dead", OnQueue(t, s)',
               \A u \in Transactions \ {t} : ~Behind(t, u, s)'
        PROVE  first'[s] = t
    <3>1. life[s] # "dead" /\ first'[s] = first[s]
      BY <2>3 DEF QueuesSame
    <3>2. OnQueue(t, s) /\ \A u \in Transactions \ {t} : ~Behind(t, u, s)
      BY <1>3, <2>3
    <3> QED BY <2>1, <3>1, <3>2 DEF AtEnds
  <2> QED BY <2>2, <2>3
<1>7. Neighbours'
  <2> SUFFICES ASSUME NEW t \in Transactions
      PROVE /\ Committed(t)' =>
                  \A j \in Left(t)' : entries'[t][j].next # None =>
                     /\ status'[entries'[t][j].next] = "queued"
                     /\ entries'[t][j].surface \in SurfacesOf(entries[t][j].next)'
                     /\ Prevs(entries[t][j].next, t)' # {}
            /\ \A i \in DOMAIN entries'[t] :
                  entries'[t][i].prev # None => Committed(entries[t][i].prev)'
            /\ status'[t] = "applying" =>
                  \A i \in DOMAIN entries'[t] : entries'[t][i].prev = None
    BY DEF Neighbours
  <2>1. ASSUME Committed(t)', NEW j \in Left(t)', entries'[t][j].next # None
        PROVE  /\ status'[entries'[t][j].next] = "queued"
               /\ entries'[t][j].surface \in SurfacesOf(entries[t][j].next)'
               /\ Prevs(entries[t][j].next, t)' # {}
    <3>0. Committed(t)
      BY <1>1, <2>1
    <3>1. /\ j \in Left(t) /\ j \in DOMAIN entries[t]
          /\ entries'[t][j].surface = entries[t][j].surface
          /\ entries'[t][j].next = entries[t][j].next
      BY <1>2, <2>1, <3>0 DEF QueuesSame
    <3>2. PICK n : n = entries[t][j].next
      OBVIOUS
    <3>3. n \in Transactions
      BY <2>1, <3>1, <3>2, EntryFields
    <3>4. /\ status[n] = "queued" /\ entries[t][j].surface \in SurfacesOf(n)
          /\ Prevs(n, t) # {}
      BY <2>1, <3>0, <3>1, <3>2 DEF Neighbours
    <3>5. /\ status'[n] = "queued" /\ entries[t][j].surface \in SurfacesOf(n)'
          /\ Prevs(n, t)' # {}
      BY <1>1, <1>2, <1>4, <3>0, <3>3, <3>4 DEF Committed
    <3> QED BY <3>1, <3>2, <3>5
  <2>2. ASSUME NEW i \in DOMAIN entries'[t], entries'[t][i].prev # None
        PROVE  Committed(entries[t][i].prev)'
    <3>1. Committed(t)
      BY <1>1, <2>2 DEF Outside
    <3>2. i \in DOMAIN entries[t] /\ entries'[t][i].prev = entries[t][i].prev
      BY <2>2, <3>1 DEF QueuesSame
    <3>3. PICK p : p = entries[t][i].prev
      OBVIOUS
    <3>4. p \in Transactions
      BY <2>2, <3>2, <3>3, EntryFields
    <3>5. Committed(p)'
      BY <1>1, <2>2, <3>2, <3>3, <3>4 DEF Neighbours
    <3> QED BY <3>2, <3>3, <3>5
  <2>3. ASSUME status'[t] = "applying", NEW i \in DOMAIN entries'[t]
        PROVE  entries'[t][i].prev = None
    BY <1>1, <2>3 DEF Neighbours, QueuesSame, Committed
  <2> QED BY <2>1, <2>2, <2>3
<1>8. Counted'
  BY <1>1, <1>2, <1>4 DEF Counted
<1>9. OneEntryEach'
  <2> SUFFICES ASSUME NEW t \in Transactions, Committed(t)', ~SelfWaiting(t)',
                      NEW i \in DOMAIN entries'[t], NEW j \in DOMAIN entries'[t],
                      entries'[t][i].surface = entries'[t][j].surface,
                      life'[entries'[t][i].surface] # "dead"
               PROVE  i = j
    BY DEF OneEntryEach
  <2>1. Committed(t) /\ ~SelfWaiting(t)
    BY <1>1, <1>2
  <2>2. /\ i \in DOMAIN entries[t] /\ j \in DOMAIN entries[t]
        /\ entries'[t][i].surface = entries[t][i].surface
        /\ entries'[t][j].surface = entries[t][j].surface
    BY <2>1 DEF QueuesSame
  <2>3. entries[t][i].surface \in Surfaces
    BY <2>2, EntryFields
  <2>4. life[entries[t][i].surface] # "dead"
    BY <2>2, <2>3 DEF QueuesSame
  <2> QED BY <2>1, <2>2, <2>4 DEF OneEntryEach
<1> QED BY <1>5, <1>6, <1>7, <1>8, <1>9

BuildOps == {"merge", "add", "commit"}

\* A step that leaves the surfaces, the trees and the transactions alone but
\* for the fences of the entries and for the applied states.
QuietData ==
    /\ \A s \in Surfaces :
          /\ life'[s] = "dead" <=> life[s] = "dead"
          /\ sub'[s] = sub[s] /\ parent'[s] = parent[s]
          /\ children'[s] = children[s] /\ cached'[s] = cached[s]
          /\ first'[s] = first[s] /\ last'[s] = last[s]
          /\ \A c \in current'[s].children :
                /\ InitialParent[c] = s
                /\ life[c] # "dead" /\ life[s] # "dead" => sub[c] /\ parent[c] = s
    /\ clientGone => clientGone'
    /\ \A t \in Transactions :
          /\ status'[t] = status[t]
          /\ DOMAIN entries'[t] = DOMAIN entries[t]
          /\ \A i \in DOMAIN entries[t] :
                /\ entries'[t][i].surface = entries[t][i].surface
                /\ entries'[t][i].state = entries[t][i].state
                /\ entries'[t][i].prev = entries[t][i].prev
                /\ entries'[t][i].next = entries[t][i].next

\* Its calls build no transaction, and of the loops that unlink one it makes
\* at most the first call.
QuietCalls(cs) ==
    /\ stack # <<>> => Head(stack).op \notin BuildOps \cup {"unlink"}
    /\ \A k \in DOMAIN cs : /\ cs[k].op \notin BuildOps
                            /\ cs[k].op = "unlink" => cs[k].index = 1

\* In such a step the calls that build transactions and those that unlink them
\* stay what they are.
LEMMA QuietCallsKept ==
    ASSUME TypeOK, NEW cs, Replaced(stack, cs, stack'), QuietCalls(cs)
    PROVE  /\ \A d : d.op \in BuildOps => (d \in Calls' <=> d \in Calls)
           /\ \A d : d.op = "unlink" =>
                 /\ d \in Calls => d \in Calls'
                 /\ d \in Calls' => d \in Calls \/ d.index = 1
<1>1. \A m \in DOMAIN stack : stack[m] \in Calls
  BY DEF Calls
<1>2. \A d \in Calls : stack # <<>>
  BY CallPlaces
<1>3. ASSUME NEW d, d.op \in BuildOps
      PROVE  d \in Calls' <=> d \in Calls
  BY <1>1, <1>2, <1>3, CallsAfter DEF QuietCalls
<1>4. ASSUME NEW d, d.op = "unlink"
      PROVE  /\ d \in Calls => d \in Calls'
             /\ d \in Calls' => d \in Calls \/ d.index = 1
  BY <1>1, <1>2, <1>4, CallsAfter DEF QuietCalls
<1> QED BY <1>3, <1>4

LEMMA Quiet ==
    ASSUME Settled, Nesting, TypeOK', NEW cs, Replaced(stack, cs, stack'),
           QuietCalls(cs), QuietData,
           NEW U, U = Outer(stack, 1)
    PROVE  Settled' /\ OuterSame(U)
<1> USE DEF Settled
<1>1. ASSUME NEW t \in Transactions
      PROVE  /\ Left(t)' = Left(t)
             /\ SurfacesOf(t)' = SurfacesOf(t)
             /\ Committed(t)' = Committed(t)
  <2>1. \A i \in DOMAIN entries[t] : 1 <= i /\ i \in Nat
    BY EntryFields
  <2>2. \A d \in Calls : d.op = "unlink" => d \in Calls'
    BY QuietCallsKept
  <2>3. \A d \in Calls' : d.op = "unlink" => d \in Calls \/ d.index = 1
    BY QuietCallsKept
  <2>4. DOMAIN entries'[t] = DOMAIN entries[t]
    BY DEF QuietData
  <2>5. \A i \in DOMAIN entries[t] : i \in Left(t)' <=> i \in Left(t)
    BY <2>1, <2>2, <2>3, <2>4 DEF Left
  <2>6. Left(t)' \subseteq DOMAIN entries[t] /\ Left(t) \subseteq DOMAIN entries[t]
    BY <2>4 DEF Left
  <2> QED BY <2>5, <2>6 DEF QuietData, SurfacesOf, Committed
<1>2. Outside'
  BY <1>1 DEF Outside, QuietData
<1>3. QueuesSame
  <2>1. \A t \in Transactions : status'[t] = status[t]
    BY DEF QuietData
  <2>2. \A s \in Surfaces :
          \/ life'[s] = "dead" /\ first'[s] = None /\ last'[s] = None
          \/ life[s] # "dead" /\ life'[s] # "dead"
               /\ first'[s] = first[s] /\ last'[s] = last[s]
    BY DEF Ends, QuietData
  <2>3. \A t \in Transactions : Committed(t) =>
                /\ DOMAIN entries'[t] = DOMAIN entries[t]
                /\ Left(t)' = Left(t)
                /\ \A i \in DOMAIN entries[t] :
                      /\ entries'[t][i].surface = entries[t][i].surface
                      /\ entries'[t][i].prev = entries[t][i].prev
                      /\ entries'[t][i].next = entries[t][i].next
    BY <1>1 DEF QuietData
  <2> QED BY <2>1, <2>2, <2>3 DEF QueuesSame
<1>4. Ends' /\ AtEnds' /\ Neighbours' /\ Counted' /\ OneEntryEach'
  BY <1>2, <1>3, QueuesKept
<1>5. \A d : d.op = "add" => (d \in Calls' <=> d \in Calls)
  BY QuietCallsKept DEF BuildOps
<1>6. Children'
  <2>1. ASSUME NEW s \in Surfaces
        PROVE  /\ parent'[s] \in {InitialParent[s], None}
               /\ \A c \in children'[s] \cup current'[s].children : InitialParent[c] = s
               /\ \A c \in current'[s].children :
                     life'[c] # "dead" /\ life'[s] # "dead"
                       => sub'[c] /\ parent'[c] = s
    <3>1. current'[s].children \subseteq Surfaces
      BY DEF TypeOK, StateType
    <3> QED BY <3>1 DEF Children, QuietData
  <2>2. ASSUME NEW t \in Transactions, NEW i \in DOMAIN entries'[t],
               NEW c \in entries'[t][i].state.children
        PROVE  InitialParent[c] = entries'[t][i].surface
    BY <2>2 DEF Children, QuietData
  <2>3. \A d \in Calls' : d.op = "add" =>
           \A c \in d.state.children : InitialParent[c] = d.surface
    BY <1>5 DEF Children
  <2>4. ASSUME ~clientGone', NEW c \in Surfaces, life'[c] # "dead",
               InitialParent[c] # None, life'[InitialParent[c]] # "dead"
        PROVE  sub'[c] /\ parent'[c] = InitialParent[c]
    <3>1. InitialParent[c] \in Surfaces
      BY <2>4, ConstantsAssumption
    <3> QED BY <2>4, <3>1 DEF Children, QuietData
  <2> QED BY <2>1, <2>2, <2>3, <2>4 DEF Children
<1>7. ASSUME NEW t \in Transactions, NEW s \in Surfaces
      PROVE  /\ Rooted(t, s)' = Rooted(t, s)
             /\ Gathered(t, s)' = Gathered(t, s)
             /\ Adding(t, s)' = Adding(t, s)
  BY <1>1, <1>5 DEF Rooted, Gathered, Adding
<1>8. Subtrees'
  <2>1. \A t \in Transactions : Committed(t)' => \E c \in Surfaces : Rooted(t, c)'
    BY <1>1, <1>7 DEF Subtrees
  <2>2. ASSUME NEW s \in Surfaces, cached'[s] # None
        PROVE  /\ status'[cached'[s]] = "pending"
               /\ Gathered(cached[s], s)'
               /\ s \in SurfacesOf(cached[s])' \/ Adding(cached[s], s)'
    <3>1. PICK t \in Transactions : t = cached[s] /\ t = cached'[s]
      BY <2>2 DEF QuietData, TypeOK
    <3>2. /\ status[t] = "pending" /\ Gathered(t, s)
          /\ s \in SurfacesOf(t) \/ Adding(t, s)
      BY <2>2, <3>1 DEF Subtrees
    <3>3. /\ status'[t] = "pending" /\ Gathered(t, s)'
          /\ s \in SurfacesOf(t)' \/ Adding(t, s)'
      BY <1>1, <1>7, <3>2 DEF QuietData
    <3> QED BY <3>1, <3>3
  <2>3. \A c, d \in Surfaces : cached'[c] # None /\ cached'[c] = cached'[d] => c = d
    BY DEF Subtrees, QuietData
  <2> QED BY <2>1, <2>2, <2>3 DEF Subtrees
<1>9. Building'
  <2> SUFFICES ASSUME NEW c \in Calls' PROVE BuiltBy(c)'
    BY DEF Building
  <2>1. CASE c.op \notin BuildOps
    BY <2>1 DEF BuiltBy, BuildOps
  <2>2. CASE c.op \in BuildOps
    <3>1. c \in Calls /\ c \in CallType
      BY <2>2, QuietCallsKept, CallPlaces
    <3>2. BuiltBy(c)
      BY <3>1 DEF Building
    <3>3. c.tx \in Transactions /\ (c.op \in {"merge", "add"} => c.surface \in Surfaces)
      BY <2>2, <3>1, CallFields DEF BuildOps
    <3>4. \A d \in Calls' : d.op = "commit" => d \in Calls
      BY QuietCallsKept DEF BuildOps
    <3>5. status'[c.tx] = status[c.tx] /\ \A s \in Surfaces : cached'[s] = cached[s]
      BY <3>3 DEF QuietData
    <3>6. \A s \in Surfaces : /\ Gathered(c.tx, s)' = Gathered(c.tx, s)
                              /\ Adding(c.tx, s)' = Adding(c.tx, s)
      BY <1>7, <3>3
    <3>7. SurfacesOf(c.tx)' = SurfacesOf(c.tx)
      BY <1>1, <3>3
    <3>8. c.op = "merge" => Adding(c.tx, c.surface)'
      BY <3>2, <3>3, <3>6 DEF BuiltBy
    <3>9. c.op = "add" => \A d \in Calls' : d.op = "commit" => d.tx = c.tx
      BY <3>2, <3>4 DEF BuiltBy
    <3>10. c.op \in {"merge", "add"} =>
             /\ status'[c.tx] = "pending" /\ Gathered(c.tx, c.surface)'
             /\ \A s \in Surfaces : cached'[s] = c.tx => s = c.surface
      BY <3>2, <3>3, <3>5, <3>6 DEF BuiltBy
    <3>11. c.op = "commit" =>
             /\ status'[c.tx] = "pending"
             /\ \A s \in Surfaces : cached'[s] # c.tx
             /\ \E s \in Surfaces :
                   Gathered(c.tx, s)' /\ (s \in SurfacesOf(c.tx)' \/ Adding(c.tx, s)')
      BY <3>2, <3>5, <3>6, <3>7 DEF BuiltBy
    <3> QED BY <3>8, <3>9, <3>10, <3>11 DEF BuiltBy
  <2> QED BY <2>1, <2>2
<1>10. Sorted'
  <2> SUFFICES ASSUME NEW t \in Transactions, status'[t] = "applying",
                      NEW i \in DOMAIN entries'[t], NEW j \in DOMAIN entries'[t],
                      NEW x, x = entries'[t][i].surface,
                      NEW y, y = entries'[t][j].surface,
                      life'[x] # "dead", life'[y] # "dead", sub'[x], parent'[x] = y
               PROVE  i < j
    BY DEF Sorted
  <2>1. /\ status[t] = "applying" /\ i \in DOMAIN entries[t] /\ j \in DOMAIN entries[t]
        /\ x = entries[t][i].surface /\ y = entries[t][j].surface
    BY DEF QuietData
  <2>2. x \in Surfaces /\ y \in Surfaces
    BY <2>1, EntryFields
  <2>3. life[x] # "dead" /\ life[y] # "dead" /\ sub[x] /\ parent[x] = y
    BY <2>2 DEF QuietData
  <2> QED BY <2>1, <2>3 DEF Sorted
<1>11. OuterSame(U)
  <2>1. ASSUME NEW t \in U
        PROVE  /\ status'[t] = "applying"
               /\ SurfacesOf(t)' = SurfacesOf(t)
               /\ \A x \in Surfaces : Open(t, x)' => Open(t, x)
    <3>1. t \in Transactions /\ status[t] = "applying"
      BY <2>1, OuterApplying
    <3>2. \A x \in Surfaces : Open(t, x)' => Open(t, x)
      <4> SUFFICES ASSUME NEW x \in Surfaces, Open(t, x)' PROVE Open(t, x)
        OBVIOUS
      <4>1. PICK i \in Left(t)' : entries'[t][i].surface = x
        BY DEF Open
      <4>2. i \in Left(t) /\ i \in DOMAIN entries[t]
        BY <1>1, <3>1 DEF Left
      <4> QED BY <3>1, <4>1, <4>2 DEF Open, QuietData
    <3> QED BY <1>1, <3>1, <3>2 DEF QuietData
  <2>2. \A s \in Surfaces : /\ life'[s] = "dead" <=> life[s] = "dead"
                            /\ sub'[s] = sub[s] /\ parent'[s] = parent[s]
    BY DEF QuietData
  <2> QED BY <2>1, <2>2 DEF OuterSame
<1> QED BY <1>2, <1>4, <1>6, <1>8, <1>9, <1>10, <1>11

\* The steps of a loop that is not itself in an apply() leave nothing applied
\* but what is applied further out.
LEMMA AppliedFurtherOut ==
    ASSUME TypeOK, Nesting, stack = <<>> \/ Head(stack).op \notin ApplyCalls,
           NEW U, U = Outer(stack, 1),
           \A t \in Transactions : status'[t] = "applying" => status[t] = "applying"
    PROVE  \A t \in Transactions : status'[t] = "applying" => t \in U
BY OuterApplying

\* The rest of a loop fits where the loop did.
LEMMA RestFits ==
    ASSUME TypeOK, Nesting, Inside, stack # <<>>, NEW rest \in CallType,
           Head(stack).op \in SurfaceCalls,
           rest.op = Head(stack).op, rest.todo \subseteq Head(stack).todo,
           NEW U, U = Outer(stack, 1), NEW O, O = OuterOps(stack, 1),
           OuterSame(U)
    PROVE  Fits(rest, U, O)'
<1>1. PICK h : h = Head(stack)
  OBVIOUS
<1>2. NestedIn(h, U, O) /\ InsideOf(h, U)
  BY <1>1, CallPlaces DEF Nesting, Inside
<1>3. /\ h.op \notin {"tryApply"} \cup ApplyCalls
      /\ rest.todo \subseteq h.todo /\ rest.op = h.op
      /\ h.todo \subseteq Surfaces
  BY <1>1, CallPlaces, CallFields DEF SurfaceCalls, ApplyCalls
<1>4. NestedIn(rest, U, O)'
  BY <1>2, <1>3 DEF NestedIn
<1>5. CASE U = {}
  BY <1>4, <1>5 DEF InsideOf, Fits
<1>6. CASE U # {}
  <2>1. \A t \in U : \A x \in Surfaces :
           (Open(t, x)' => Open(t, x)) /\ Rooted(t, x)' = Rooted(t, x)
    BY DEF OuterSame, Rooted
  <2>2. \A s \in Surfaces : /\ life'[s] = "dead" <=> life[s] = "dead"
                            /\ sub'[s] = sub[s] /\ parent'[s] = parent[s]
    BY <1>6 DEF OuterSame
  <2>3. rest.op = "tryChildren" => InsideOf(rest, U)'
    BY <1>2, <1>3, <2>1 DEF InsideOf
  <2>4. rest.op = "tryFirst" => InsideOf(rest, U)'
    BY <1>2, <1>3, <2>1, <2>2 DEF InsideOf
  <2>5. rest.op \notin {"tryFirst", "tryChildren"} => InsideOf(rest, U)'
    BY <1>3 DEF InsideOf
  <2> QED BY <1>4, <2>3, <2>4, <2>5 DEF Fits
<1> QED BY <1>5, <1>6

\* Calls that do not try to apply anything fit wherever they may be made.
LEMMA PlainFits ==
    ASSUME NEW a, NEW V, NEW W, W \subseteq CallersOf(a.op),
           a.op \notin {"addChild", "tryApply", "tryFirst", "tryChildren"} \cup ApplyCalls
    PROVE  Fits(a, V, W)'
BY DEF Fits, NestedIn, InsideOf

\* So do all where nothing is being applied.
LEMMA EmptyFits ==
    ASSUME NEW a, NEW W, W \subseteq CallersOf(a.op),
           a.op \notin {"addChild"} \cup ApplyCalls,
           a.op = "tryApply" => status'[a.tx] = "queued"
    PROVE  Fits(a, {}, W)'
BY DEF Fits, NestedIn, InsideOf

LEMMA QuietIfSame ==
    ASSUME Settled, UNCHANGED <<sub, parent, children, cached, first, last, status>>,
           clientGone => clientGone',
           \A s \in Surfaces : life'[s] = "dead" <=> life[s] = "dead",
           \A s \in Surfaces : current'[s].children = current[s].children,
           \A t \in Transactions : DOMAIN entries'[t] = DOMAIN entries[t],
           \A t \in Transactions : \A i \in DOMAIN entries[t] :
              /\ entries'[t][i].surface = entries[t][i].surface
              /\ entries'[t][i].state = entries[t][i].state
              /\ entries'[t][i].prev = entries[t][i].prev
              /\ entries'[t][i].next = entries[t][i].next
    PROVE  QuietData
<1>1. \A s \in Surfaces : current[s].children \subseteq Surfaces
  BY DEF Settled, TypeOK, StateType
<1>2. ASSUME NEW s \in Surfaces, NEW c \in current'[s].children
      PROVE  /\ InitialParent[c] = s
             /\ life[c] # "dead" /\ life[s] # "dead" => sub[c] /\ parent[c] = s
  BY <1>2 DEF Settled, Children
<1> QED BY <1>2 DEF QuietData

\* What the loops have in common.
LEMMA LoopFacts ==
    ASSUME QueueInv, NEW op \in SurfaceCalls, Running(op)
    PROVE  /\ TypeOK /\ Nesting /\ Inside /\ stack # <<>>
           /\ Head(stack).op = op /\ Head(stack) \in CallType
           /\ Head(stack).op \in SurfaceCalls /\ Head(stack).op \notin ApplyCalls
           /\ Head(stack).todo \subseteq Surfaces
           /\ OuterOps(stack, 1) \subseteq CallersOf(op)
           /\ stack # <<>> => Head(stack).op \notin BuildOps \cup {"unlink"}
BY RunningCall, CallFields, OuterApplying
   DEF QueueInv, Settled, SurfaceCalls, ApplyCalls, BuildOps

\* A loop visits a surface without calling anything.
LEMMA VisitOnly ==
    ASSUME QueueInv, TypeOK', NEW op \in SurfaceCalls, Running(op), NEW s,
           VisitVia(s, <<>>), QuietData
    PROVE  QueueInv'
<1>1. PICK rest \in CallType : /\ rest.op = Head(stack).op
                               /\ rest.todo = Head(stack).todo \ {s}
                               /\ Replaced(stack, <<>> \o <<rest>>, stack')
  <2>1. <<>> \in Seq(CallType)
    BY EmptySeq
  <2> QED BY <2>1, LoopFacts, VisitReplaces
<1>2. <<>> \o <<rest>> = <<rest>>
  OBVIOUS
<1>3. Replaced(stack, <<rest>>, stack')
  BY <1>1, <1>2
<1>4. PICK U : U = Outer(stack, 1)
  OBVIOUS
<1>5. PICK O : O = OuterOps(stack, 1)
  OBVIOUS
<1>6. QuietCalls(<<rest>>)
  BY <1>1, LoopFacts, OneFrame DEF QuietCalls
<1>7. Settled' /\ OuterSame(U)
  BY <1>3, <1>4, <1>6, Quiet DEF QueueInv
<1>8. Fits(rest, U, O)'
  BY <1>1, <1>4, <1>5, <1>7, LoopFacts, RestFits
<1>9. \A t \in Transactions : status'[t] = "applying" => t \in U
  BY <1>4, LoopFacts, AppliedFurtherOut DEF QuietData
<1>10. Nesting' /\ Inside'
  BY <1>3, <1>4, <1>5, <1>7, <1>8, <1>9, LoopFacts, OneFrameFits
<1> QED BY <1>7, <1>10 DEF QueueInv

LEMMA OneThenOne ==
    ASSUME NEW a, NEW b
    PROVE  <<a>> \o <<b>> = <<a, b>>
<1>1. <<a>> \in Seq({a, b}) /\ <<b>> \in Seq({a, b}) /\ <<a, b>> \in Seq({a, b})
  OBVIOUS
<1>2. PICK x, y, z : x = <<a>> /\ y = <<b>> /\ z = <<a, b>>
  OBVIOUS
<1>3. Len(x) = 1 /\ x[1] = a /\ Len(y) = 1 /\ y[1] = b
  BY <1>2
<1>4. Len(z) = 2 /\ z[1] = a /\ z[2] = b
  BY <1>2
<1>5. x \in Seq({a, b}) /\ y \in Seq({a, b}) /\ z \in Seq({a, b})
  BY <1>1, <1>2
<1>6. /\ x \o y \in Seq({a, b}) /\ Len(x \o y) = Len(x) + Len(y)
      /\ \A i \in 1..Len(x \o y) :
            (x \o y)[i] = IF i <= Len(x) THEN x[i] ELSE y[i - Len(x)]
  BY <1>5, ConcatProperties
<1>7. Len(x \o y) = 2 /\ (x \o y)[1] = a /\ (x \o y)[2] = b
  BY <1>3, <1>6
<1>8. Len(x \o y) = Len(z) /\ \A i \in 1..Len(x \o y) : (x \o y)[i] = z[i]
  BY <1>4, <1>7
<1>9. x \o y = z
  BY <1>5, <1>6, <1>8, SeqEqual
<1> QED BY <1>2, <1>9

LEMMA TwoThenOne ==
    ASSUME NEW a, NEW b, NEW c
    PROVE  <<a>> \o <<b>> \o <<c>> = <<a, b, c>>
<1>1. PICK x, y, z : x = <<a, b>> /\ y = <<c>> /\ z = <<a, b, c>>
  OBVIOUS
<1>2. PICK A : A = {a, b, c}
  OBVIOUS
<1>3. x \in Seq(A) /\ y \in Seq(A) /\ z \in Seq(A)
  BY <1>1, <1>2
<1>4. Len(x) = 2 /\ x[1] = a /\ x[2] = b /\ Len(y) = 1 /\ y[1] = c
  BY <1>1
<1>5. Len(z) = 3 /\ z[1] = a /\ z[2] = b /\ z[3] = c
  BY <1>1
<1>6. /\ x \o y \in Seq(A) /\ Len(x \o y) = Len(x) + Len(y)
      /\ \A i \in 1..Len(x \o y) :
            (x \o y)[i] = IF i <= Len(x) THEN x[i] ELSE y[i - Len(x)]
  BY <1>3, ConcatProperties
<1>7. Len(x \o y) = 3 /\ (x \o y)[1] = a /\ (x \o y)[2] = b /\ (x \o y)[3] = c
  BY <1>4, <1>6
<1>8. Len(x \o y) = Len(z) /\ \A i \in 1..Len(x \o y) : (x \o y)[i] = z[i]
  BY <1>5, <1>7
<1>9. x \o y = z
  BY <1>3, <1>6, <1>8, SeqEqual
<1> QED BY <1>1, <1>9, OneThenOne

\* A loop visits a surface and makes one call on it.
LEMMA VisitWithCall ==
    ASSUME QueueInv, TypeOK', NEW op \in SurfaceCalls, Running(op), NEW s,
           NEW a \in CallType, VisitVia(s, <<a>>), QuietData,
           a.op \notin BuildOps \cup ApplyCalls,
           NEW U, U = Outer(stack, 1), NEW O, O = OuterOps(stack, 1),
           OuterSame(U) => Fits(a, U, {op} \cup O)'
    PROVE  QueueInv'
<1>1. PICK rest \in CallType : /\ rest.op = Head(stack).op
                               /\ rest.todo = Head(stack).todo \ {s}
                               /\ Replaced(stack, <<a>> \o <<rest>>, stack')
  <2>1. <<a>> \in Seq(CallType)
    OBVIOUS
  <2> QED BY <2>1, LoopFacts, VisitReplaces
<1>2. <<a>> \o <<rest>> = <<a, rest>>
  BY OneThenOne
<1>3. Replaced(stack, <<a, rest>>, stack')
  BY <1>1, <1>2
<1>6. QuietCalls(<<a, rest>>)
  <2>1. rest.op \notin BuildOps \cup {"unlink"} /\ a.op \notin BuildOps \cup {"unlink"}
    BY <1>1, LoopFacts DEF ApplyCalls
  <2> QED BY <2>1, LoopFacts, TwoFrames DEF QuietCalls
<1>7. Settled' /\ OuterSame(U)
  BY <1>3, <1>6, Quiet DEF QueueInv
<1>8. Fits(rest, U, O)'
  BY <1>1, <1>7, LoopFacts, RestFits
<1>9. \A t \in Transactions : status'[t] = "applying" => t \in U
  BY LoopFacts, AppliedFurtherOut DEF QuietData
<1>10. Txs(rest) = {} /\ rest.op = op
  BY <1>1, LoopFacts DEF Txs
<1>11. Nesting' /\ Inside'
  <2>1. Fits(a, Txs(rest) \cup U, {rest.op} \cup O)'
    BY <1>7, <1>10
  <2> QED BY <1>3, <1>7, <1>8, <1>9, <2>1, LoopFacts, TwoFramesFit
<1> QED BY <1>7, <1>11 DEF QueueInv

------------------------------------------------------------------------------
(* The steps that only call                                                 *)

LEMMA LoopDoneKeeps ==
    ASSUME QueueInv, TypeOK', LoopDone
    PROVE  QueueInv'
<1>1. PICK op \in SurfaceCalls : Running(op)
  BY DEF LoopDone, Running
<1>2. PICK cs : cs = <<>>
  OBVIOUS
<1>3. Replaced(stack, cs, stack')
  <2>1. cs \in Seq(CallType)
    BY <1>2, EmptySeq
  <2> QED BY <1>1, <1>2, <2>1, LoopFacts, ReturnReplaces DEF LoopDone
<1>4. QuietData
  BY QuietIfSame DEF LoopDone, QueueInv, tree, queue, shown
<1>5. QuietCalls(cs)
  BY <1>1, <1>2, LoopFacts DEF QuietCalls
<1>6. PICK U : U = Outer(stack, 1)
  OBVIOUS
<1>7. Settled' /\ OuterSame(U)
  BY <1>3, <1>4, <1>5, <1>6, Quiet DEF QueueInv
<1>8. \A t \in Transactions : status'[t] = "applying" => t \in U
  BY <1>1, <1>4, <1>6, LoopFacts, AppliedFurtherOut DEF QuietData
<1>9. Nesting' /\ Inside'
  BY <1>1, <1>2, <1>3, <1>6, <1>7, <1>8, LoopFacts, NoFrameFits
<1> QED BY <1>7, <1>9 DEF QueueInv

LEMMA UpdateMappedKeeps ==
    ASSUME QueueInv, TypeOK', UpdateMapped
    PROVE  QueueInv'
<1>1. QuietData
  BY QuietIfSame DEF UpdateMapped, QueueInv, tree, queue
<1>2. Running("updateMapped") /\ "updateMapped" \in SurfaceCalls
  BY DEF UpdateMapped, SurfaceCalls
<1>3. PICK s \in Head(stack).todo :
         \/ VisitVia(s, <<>>)
         \/ VisitVia(s, <<OnSurfaces("updateMapped", current[s].children)>>)
  BY DEF UpdateMapped
<1>4. CASE VisitVia(s, <<>>)
  BY <1>1, <1>2, <1>4, VisitOnly
<1>5. CASE VisitVia(s, <<OnSurfaces("updateMapped", current[s].children)>>)
  <2>1. PICK a : a = OnSurfaces("updateMapped", current[s].children)
    OBVIOUS
  <2>2. a \in CallType /\ a.op = "updateMapped"
    <3>1. s \in Surfaces
      BY <1>2, <1>3, LoopFacts
    <3>2. current[s].children \in SUBSET Surfaces
      BY <3>1 DEF QueueInv, Settled, TypeOK, StateType
    <3> QED BY <1>2, <2>1, <3>2, CallsTyped DEF OnSurfaces
  <2>3. PICK U : U = Outer(stack, 1)
    OBVIOUS
  <2>4. PICK O : O = OuterOps(stack, 1)
    OBVIOUS
  <2>5. Fits(a, U, {"updateMapped"} \cup O)'
    <3>1. {"updateMapped"} \cup O \subseteq CallersOf(a.op)
      BY <1>2, <2>2, <2>4, LoopFacts, CallersFacts DEF MappingOps
    <3> QED BY <2>2, <3>1, PlainFits DEF ApplyCalls
  <2>6. a.op \notin BuildOps \cup ApplyCalls
    BY <2>2 DEF BuildOps, ApplyCalls
  <2> QED BY <1>1, <1>2, <1>5, <2>1, <2>2, <2>3, <2>4, <2>5, <2>6, VisitWithCall
<1> QED BY <1>3, <1>4, <1>5

LEMMA ClearUnmappedKeeps ==
    ASSUME QueueInv, TypeOK', ClearUnmapped
    PROVE  QueueInv'
<1>1. Running("clearUnmapped") /\ "clearUnmapped" \in SurfaceCalls
  BY DEF ClearUnmapped, SurfaceCalls
<1>2. PICK s \in Head(stack).todo :
         /\ current' = [c \in Surfaces |->
                IF ~mapped[s] /\ c \in {s} \cup current[s].children
                THEN [current[c] EXCEPT !.barrier = FALSE] ELSE current[c]]
         /\ VisitVia(s, <<>>)
  BY DEF ClearUnmapped
<1>3. \A c \in Surfaces : current'[c].children = current[c].children
  <2> SUFFICES ASSUME NEW c \in Surfaces
               PROVE  current'[c].children = current[c].children
    OBVIOUS
  <2>1. current[c] \in StateType
    BY DEF QueueInv, Settled, TypeOK
  <2>2. [current[c] EXCEPT !.barrier = FALSE].children = current[c].children
    BY <2>1 DEF StateType
  <2> QED BY <1>2, <2>2
<1>4. QuietData
  BY <1>3, QuietIfSame DEF ClearUnmapped, QueueInv, tree, queue
<1> QED BY <1>1, <1>2, <1>4, VisitOnly

LEMMA DesynchronizeChildrenKeeps ==
    ASSUME QueueInv, TypeOK', DesynchronizeChildren
    PROVE  QueueInv'
<1>1. QuietData
  BY QuietIfSame DEF DesynchronizeChildren, QueueInv, tree, queue, shown
<1>2. Running("desynchronizeChildren") /\ "desynchronizeChildren" \in SurfaceCalls
  BY DEF DesynchronizeChildren, SurfaceCalls
<1>3. PICK s \in Head(stack).todo :
         VisitVia(s, <<OnSurfaces("parentDesynchronized", current[s].children)>>)
  BY DEF DesynchronizeChildren
<1>4. PICK a : a = OnSurfaces("parentDesynchronized", current[s].children)
  OBVIOUS
<1>5. a \in CallType /\ a.op = "parentDesynchronized"
  <2>1. s \in Surfaces
    BY <1>2, <1>3, LoopFacts
  <2>2. current[s].children \in SUBSET Surfaces
    BY <2>1 DEF QueueInv, Settled, TypeOK, StateType
  <2> QED BY <1>4, <2>2, CallsTyped DEF OnSurfaces, SurfaceCalls
<1>6. PICK U : U = Outer(stack, 1)
  OBVIOUS
<1>7. PICK O : O = OuterOps(stack, 1)
  OBVIOUS
<1>8. Fits(a, U, {"desynchronizeChildren"} \cup O)'
  <2>1. {"desynchronizeChildren"} \cup O \subseteq CallersOf(a.op)
    BY <1>2, <1>5, <1>7, LoopFacts, CallersFacts DEF DesyncOps
  <2> QED BY <1>5, <2>1, PlainFits DEF ApplyCalls
<1>9. a.op \notin BuildOps \cup ApplyCalls
  BY <1>5 DEF BuildOps, ApplyCalls
<1> QED BY <1>1, <1>2, <1>3, <1>4, <1>5, <1>6, <1>7, <1>8, <1>9, VisitWithCall

LEMMA TryChildrenKeeps ==
    ASSUME QueueInv, TypeOK', TryChildren
    PROVE  QueueInv'
<1>1. QuietData
  BY QuietIfSame DEF TryChildren, QueueInv, tree, queue, shown
<1>2. Running("tryChildren") /\ "tryChildren" \in SurfaceCalls
  BY DEF TryChildren, SurfaceCalls
<1>3. PICK s \in Head(stack).todo :
         VisitVia(s, IF life[s] # "dead" /\ ~mapped[s]
                     THEN <<OnSurfaces("tryFirst", current[s].children)>>
                     ELSE <<>>)
  BY DEF TryChildren
<1>4. CASE ~(life[s] # "dead" /\ ~mapped[s])
  <2>1. VisitVia(s, <<>>)
    BY <1>3, <1>4
  <2> QED BY <1>1, <1>2, <2>1, VisitOnly
<1>5. CASE life[s] # "dead" /\ ~mapped[s]
  <2>0. VisitVia(s, <<OnSurfaces("tryFirst", current[s].children)>>)
    BY <1>3, <1>5
  <2>1. PICK kids : kids = current[s].children
    OBVIOUS
  <2>2. PICK a : a = OnSurfaces("tryFirst", kids)
    OBVIOUS
  <2>3. s \in Surfaces
    BY <1>2, <1>3, LoopFacts
  <2>4. kids \in SUBSET Surfaces
    BY <2>1, <2>3 DEF QueueInv, Settled, TypeOK, StateType
  <2>5. a \in CallType /\ a.op = "tryFirst" /\ a.todo = kids
    BY <2>2, <2>4, CallsTyped DEF OnSurfaces, SurfaceCalls
  <2>6. PICK U : U = Outer(stack, 1)
    OBVIOUS
  <2>7. PICK O : O = OuterOps(stack, 1)
    OBVIOUS
  <2>8. ASSUME OuterSame(U) PROVE Fits(a, U, {"tryChildren"} \cup O)'
    <3>1. {"tryChildren"} \cup O \subseteq CallersOf(a.op)
      BY <1>2, <2>5, <2>7, LoopFacts, CallersFacts DEF TryOps
    <3>2. NestedIn(a, U, {"tryChildren"} \cup O)'
      BY <2>5, <3>1 DEF NestedIn, ApplyCalls
    <3>3. InsideOf(Head(stack), U)
      BY <1>2, <2>6, LoopFacts, CallPlaces DEF Inside
    <3>4. ASSUME NEW t \in U
          PROVE  /\ ~Open(t, s) /\ ~Open(t, s)'
                 /\ \A x \in Surfaces : Open(t, x)' /\ Rooted(t, x)' =>
                       kids \subseteq Below(x)
      <4>1. ~Open(t, s)
        BY <1>2, <1>3, <3>3, LoopFacts DEF InsideOf
      <4>2. ~Open(t, s)'
        BY <2>3, <2>8, <4>1 DEF OuterSame
      <4>3. ASSUME NEW x \in Surfaces, Open(t, x)', Rooted(t, x)'
            PROVE  kids \subseteq Below(x)
        <5>1. Open(t, x) /\ Rooted(t, x)
          BY <2>8, <4>3 DEF OuterSame, Rooted
        <5>2. s \in Below(x)
          BY <1>2, <1>3, <3>3, <5>1, LoopFacts DEF InsideOf
        <5>3. \A k \in kids : InitialParent[k] = s
          BY <2>1, <2>3 DEF QueueInv, Settled, Children
        <5> QED BY <2>4, <5>2, <5>3, BelowFacts
      <4> QED BY <4>1, <4>2, <4>3
    <3>5. ASSUME NEW k \in kids
          PROVE  /\ InitialParent[k] = s /\ life'[s] # "dead"
                 /\ life'[k] # "dead" => sub'[k] /\ parent'[k] = s
      <4>1. k \in Surfaces /\ InitialParent[k] = s
        BY <2>1, <2>3, <2>4 DEF QueueInv, Settled, Children
      <4>2. life[k] # "dead" => sub[k] /\ parent[k] = s
        BY <1>5, <2>1, <2>3 DEF QueueInv, Settled, Children
      <4> QED BY <1>1, <1>5, <2>3, <4>1, <4>2 DEF QuietData
    <3>6. InsideOf(a, U)'
      BY <2>3, <2>5, <3>4, <3>5 DEF InsideOf, ApplyCalls
    <3> QED BY <3>2, <3>6 DEF Fits
  <2>9. a.op \notin BuildOps \cup ApplyCalls
    BY <2>5 DEF BuildOps, ApplyCalls
  <2> QED
    BY <1>1, <1>2, <2>0, <2>1, <2>2, <2>5, <2>6, <2>7, <2>8, <2>9, VisitWithCall
<1> QED BY <1>4, <1>5

\* The transactions that are being applied still hold every later entry.
LEMMA LeftUpwards ==
    ASSUME TypeOK, NEW t \in Transactions, NEW j \in Left(t),
           NEW i \in DOMAIN entries[t], j < i
    PROVE  i \in Left(t)
<1>1. \A c \in Calls : c.op = "unlink" /\ c.tx = t => c.index \in Nat /\ c.index <= j
  BY CallPlaces, CallFields DEF Left
<1>2. j \in Nat /\ i \in Nat
  BY EntryFields DEF Left
<1>3. \A c \in Calls : c.op = "unlink" /\ c.tx = t => c.index <= i
  BY <1>1, <1>2
<1> QED BY <1>3 DEF Left

LEMMA TryFirstKeeps ==
    ASSUME QueueInv, TypeOK', TryFirst
    PROVE  QueueInv'
<1>1. QuietData
  BY QuietIfSame DEF TryFirst, QueueInv, tree, queue, shown
<1>2. Running("tryFirst") /\ "tryFirst" \in SurfaceCalls
  BY DEF TryFirst, SurfaceCalls
<1>3. PICK c \in Head(stack).todo : VisitVia(c, CallOnTx("tryApply", first[c]))
  BY DEF TryFirst
<1>4. CASE first[c] = None
  <2>1. VisitVia(c, <<>>)
    BY <1>3, <1>4 DEF CallOnTx
  <2> QED BY <1>1, <1>2, <2>1, VisitOnly
<1>5. CASE first[c] # None
  <2>0. c \in Surfaces
    BY <1>2, <1>3, LoopFacts
  <2>1. PICK n \in Transactions : n = first[c]
    BY <1>5, <2>0 DEF QueueInv, Settled, TypeOK
  <2>2. PICK a : a = OnTx("tryApply", n)
    OBVIOUS
  <2>3. VisitVia(c, <<a>>)
    BY <1>3, <1>5, <2>1, <2>2 DEF CallOnTx
  <2>5. a \in CallType /\ a.op = "tryApply" /\ a.tx = n
    BY <2>1, <2>2, CallsTyped DEF OnTx
  <2>6. PICK U : U = Outer(stack, 1)
    OBVIOUS
  <2>7. PICK O : O = OuterOps(stack, 1)
    OBVIOUS
  <2>8. InsideOf(Head(stack), U)
    BY <1>2, <2>6, LoopFacts, CallPlaces DEF Inside
  <2>9. /\ Committed(n) /\ life[c] # "dead" /\ c \in SurfacesOf(n)
        /\ \E j \in Left(n) : entries[n][j].surface = c
    <3>1. OnQueue(n, c) /\ life[c] # "dead"
      BY <1>5, <2>0, <2>1 DEF QueueInv, Settled, Ends
    <3> QED BY <3>1 DEF OnQueue, SurfacesOf, Left
  <2>10. status[n] = "queued"
    <3> SUFFICES ASSUME status[n] = "applying" PROVE FALSE
      BY <2>9 DEF Committed
    <3>1. n \in U
      BY <1>2, <2>6, LoopFacts, OuterApplying
    <3>2. PICK j \in Left(n) : entries[n][j].surface = c
      BY <2>9
    <3>3. Open(n, c)
      BY <2>9 DEF Open
    <3>4. PICK x \in Surfaces : Rooted(n, x)
      BY <2>9 DEF QueueInv, Settled, Subtrees
    <3>5. ASSUME x = c PROVE FALSE
      <4>1. Head(stack).todo \subseteq Below(c)
        BY <1>2, <2>8, <3>1, <3>3, <3>4, <3>5, LoopFacts DEF InsideOf
      <4> QED BY <1>3, <2>0, <4>1, BelowFacts
    <3>6. PICK p : p = InitialParent[c]
      OBVIOUS
    <3>7. p \in SurfacesOf(n)
      BY <2>9, <3>4, <3>5, <3>6 DEF Rooted
    <3>8. /\ p \in Surfaces /\ life[p] # "dead" /\ ~Open(n, p)
          /\ sub[c] /\ parent[c] = p
      BY <1>2, <1>3, <2>8, <2>9, <3>1, <3>6, LoopFacts DEF InsideOf
    <3>9. PICK i \in DOMAIN entries[n] : entries[n][i].surface = p
      BY <3>7 DEF SurfacesOf
    <3>10. j \in DOMAIN entries[n]
      BY DEF Left
    <3>11. j < i
      BY <2>9, <3>2, <3>8, <3>9, <3>10 DEF QueueInv, Settled, Sorted
    <3>12. i \in Left(n)
      BY <3>11, LeftUpwards DEF QueueInv, Settled
    <3> QED BY <3>8, <3>9, <3>12 DEF Open
  <2>11. ASSUME OuterSame(U) PROVE Fits(a, U, {"tryFirst"} \cup O)'
    <3>1. {"tryFirst"} \cup O \subseteq CallersOf(a.op)
      BY <1>2, <2>5, <2>7, LoopFacts, CallersFacts DEF TryOps
    <3>2. status'[n] = "queued"
      BY <1>1, <2>10 DEF QuietData
    <3>3. NestedIn(a, U, {"tryFirst"} \cup O)'
      BY <2>5, <3>1, <3>2 DEF NestedIn, ApplyCalls
    <3>4. c \in SurfacesOf(n)'
      BY <1>1, <2>9 DEF QuietData, SurfacesOf
    <3>5. ASSUME NEW t \in U, NEW x \in Surfaces, Open(t, x)', Rooted(t, x)'
          PROVE  c \in Below(x)
      <4>1. Open(t, x) /\ Rooted(t, x)
        BY <2>11, <3>5 DEF OuterSame, Rooted
      <4> QED BY <1>2, <1>3, <2>8, <4>1, LoopFacts DEF InsideOf
    <3>6. InsideOf(a, U)'
      BY <2>5, <3>4, <3>5 DEF InsideOf, ApplyCalls
    <3> QED BY <3>3, <3>6 DEF Fits
  <2>12. a.op \notin BuildOps \cup ApplyCalls
    BY <2>5 DEF BuildOps, ApplyCalls
  <2> QED
    BY <1>1, <1>2, <2>3, <2>5, <2>6, <2>7, <2>11, <2>12, VisitWithCall
<1> QED BY <1>4, <1>5

\* The handlers that call nothing, or have a loop or a tryApply run.
LEMMA HandlerKeeps ==
    ASSUME QueueInv, TypeOK', Idle, QuietData,
           \/ stack' = <<>>
           \/ \E a \in CallType :
                 /\ stack' = <<a>>
                 /\ a.op \notin {"addChild"} \cup BuildOps \cup ApplyCalls
                 /\ a.op = "tryApply" => status'[a.tx] = "queued"
           \/ \E a, b \in CallType :
                 /\ stack' = <<a, b>> /\ a.op = "tryFirst" /\ b.op = "destroyed"
    PROVE  QueueInv'
<1>1. TypeOK /\ Nesting /\ Inside /\ Outer(stack, 1) = {} /\ OuterOps(stack, 1) = {}
  BY OuterApplying DEF QueueInv, Settled, Idle
<1>2. PICK U : U = Outer(stack, 1)
  OBVIOUS
<1>3. PICK O : O = OuterOps(stack, 1)
  OBVIOUS
<1>4. stack = <<>>
  BY DEF Idle
<1>5. \A t \in Transactions : status'[t] = "applying" => t \in U
  BY <1>1, <1>2, <1>4, AppliedFurtherOut DEF QuietData
<1>6. CASE stack' = <<>>
  <2>1. PICK cs : cs = <<>>
    OBVIOUS
  <2>2. QuietCalls(cs) /\ Replaced(stack, cs, stack')
    BY <1>4, <1>6, <2>1, IdleReplaces DEF QuietCalls
  <2>3. Settled' /\ OuterSame(U)
    BY <1>2, <2>2, Quiet DEF QueueInv
  <2> QED BY <1>1, <1>2, <1>5, <2>1, <2>2, <2>3, NoFrameFits DEF QueueInv
<1>7. ASSUME NEW a \in CallType, stack' = <<a>>,
             a.op \notin {"addChild"} \cup BuildOps \cup ApplyCalls,
             a.op = "tryApply" => status'[a.tx] = "queued"
      PROVE  QueueInv'
  <2>1. Replaced(stack, <<a>>, stack')
    BY <1>7, IdleReplaces
  <2>2. QuietCalls(<<a>>)
    BY <1>4, <1>7, OneFrame DEF QuietCalls, ApplyCalls
  <2>3. Settled' /\ OuterSame(U)
    BY <1>2, <2>1, <2>2, Quiet DEF QueueInv
  <2>4. Fits(a, U, O)'
    BY <1>1, <1>2, <1>3, <1>7, EmptyFits
  <2> QED BY <1>1, <1>2, <1>3, <1>5, <2>1, <2>3, <2>4, OneFrameFits DEF QueueInv
<1>8. ASSUME NEW a \in CallType, NEW b \in CallType, stack' = <<a, b>>,
             a.op = "tryFirst", b.op = "destroyed"
      PROVE  QueueInv'
  <2>1. Replaced(stack, <<a, b>>, stack')
    BY <1>8, IdleReplaces
  <2>2. QuietCalls(<<a, b>>)
    BY <1>4, <1>8, TwoFrames DEF QuietCalls, BuildOps
  <2>3. Settled' /\ OuterSame(U)
    BY <1>2, <2>1, <2>2, Quiet DEF QueueInv
  <2>4. Txs(b) \cup U = {} /\ {b.op} \cup O \subseteq CallersOf(a.op)
    BY <1>1, <1>2, <1>3, <1>8, CallersFacts DEF Txs, ApplyCalls, TryOps
  <2>5. Fits(a, Txs(b) \cup U, {b.op} \cup O)' /\ Fits(b, U, O)'
    <3>1. Fits(b, U, O)'
      BY <1>1, <1>2, <1>3, <1>8, EmptyFits DEF ApplyCalls
    <3>2. PICK W : W = {b.op} \cup O
      OBVIOUS
    <3>3. Fits(a, {}, W)'
      BY <1>8, <2>4, <3>2, EmptyFits DEF ApplyCalls
    <3>4. PICK V : V = Txs(b) \cup U
      OBVIOUS
    <3>5. V = {}
      BY <2>4, <3>4
    <3>6. Fits(a, V, W)'
      BY <3>3, <3>5
    <3> QED BY <3>1, <3>2, <3>4, <3>6
  <2> QED BY <1>1, <1>2, <1>3, <1>5, <2>1, <2>3, <2>5, TwoFramesFit DEF QueueInv
<1> QED BY <1>6, <1>7, <1>8

LEMMA ModeKeeps ==
    ASSUME QueueInv, TypeOK', NEW s \in Surfaces, SetSync(s) \/ SetDesync(s)
    PROVE  QueueInv'
<1>1. QuietData /\ Idle
  BY QuietIfSame DEF SetSync, SetDesync, QueueInv, queue, shown
<1>2. stack' = <<>> \/ stack' = <<OnSurfaces("parentDesynchronized", {s})>>
  BY <1>1 DEF SetSync, SetDesync, Idle
<1>3. PICK a : a = OnSurfaces("parentDesynchronized", {s})
  OBVIOUS
<1>4. a \in CallType /\ a.op = "parentDesynchronized"
  BY <1>3, CallsTyped DEF OnSurfaces, SurfaceCalls
<1>5. a.op \notin {"addChild"} \cup BuildOps \cup ApplyCalls
  BY <1>4 DEF BuildOps, ApplyCalls
<1> QED BY <1>1, <1>2, <1>3, <1>4, <1>5, HandlerKeeps

LEMMA DestroySurfaceKeeps ==
    ASSUME QueueInv, TypeOK', NEW s \in Surfaces, DestroySurface(s)
    PROVE  QueueInv'
<1>1. \A c \in Surfaces : life'[c] = "dead" <=> life[c] = "dead"
  BY DEF DestroySurface, QueueInv, Settled, TypeOK
<1>2. QuietData /\ Idle
  BY <1>1, QuietIfSame DEF DestroySurface, QueueInv, tree, queue, shown
<1>3. PICK a, b : a = OnSurfaces("tryFirst", {s}) /\ b = OnSurfaces("destroyed", {s})
  OBVIOUS
<1>4. a \in CallType /\ a.op = "tryFirst" /\ b \in CallType /\ b.op = "destroyed"
  BY <1>3, CallsTyped DEF OnSurfaces, SurfaceCalls
<1>5. stack' = <<a, b>>
  BY <1>3 DEF DestroySurface
<1> QED BY <1>2, <1>4, <1>5, HandlerKeeps

LEMMA ToggleRoleKeeps ==
    ASSUME QueueInv, TypeOK', NEW s \in Surfaces, ToggleRole(s)
    PROVE  QueueInv'
<1>1. QuietData /\ Idle
  BY QuietIfSame DEF ToggleRole, QueueInv, queue, shown
<1>2. PICK a : a = OnSurfaces("tryFirst", {s})
  OBVIOUS
<1>3. a \in CallType /\ a.op = "tryFirst"
  BY <1>2, CallsTyped DEF OnSurfaces, SurfaceCalls
<1>4. stack' = <<a>> /\ a.op \notin {"addChild"} \cup BuildOps \cup ApplyCalls
  BY <1>2, <1>3 DEF ToggleRole, BuildOps, ApplyCalls
<1> QED BY <1>1, <1>3, <1>4, HandlerKeeps

LEMMA DisconnectKeeps ==
    ASSUME QueueInv, TypeOK', Disconnect
    PROVE  QueueInv'
<1>1. QuietData /\ Idle
  BY QuietIfSame DEF Disconnect, QueueInv, tree, queue, shown
<1>2. stack' = <<>>
  BY <1>1 DEF Disconnect, Idle
<1> QED BY <1>1, <1>2, HandlerKeeps

LEMMA FenceSignaledKeeps ==
    ASSUME QueueInv, TypeOK', NEW t \in Transactions, NEW i \in DOMAIN entries[t],
           FenceSignaled(t, i)
    PROVE  QueueInv'
<1>1. entries' = [entries EXCEPT ![t][i].fence = FALSE]
  BY DEF FenceSignaled
<1>2. \A u \in Transactions : DOMAIN entries'[u] = DOMAIN entries[u]
  BY <1>1 DEF QueueInv, Settled, TypeOK
<1>3. ASSUME NEW u \in Transactions, NEW k \in DOMAIN entries[u]
      PROVE  /\ entries'[u][k].surface = entries[u][k].surface
             /\ entries'[u][k].state = entries[u][k].state
             /\ entries'[u][k].prev = entries[u][k].prev
             /\ entries'[u][k].next = entries[u][k].next
  <2>1. entries[u][k] \in EntryType
    BY EntryFields DEF QueueInv, Settled
  <2>2. CASE u = t /\ k = i
    <3>1. entries'[u][k] = [entries[u][k] EXCEPT !.fence = FALSE]
      BY <1>1, <2>2 DEF QueueInv, Settled, TypeOK
    <3> QED BY <2>1, <3>1 DEF EntryType
  <2>3. CASE ~(u = t /\ k = i)
    <3>1. entries'[u][k] = entries[u][k]
      BY <1>1, <2>3 DEF QueueInv, Settled, TypeOK
    <3> QED BY <3>1
  <2> QED BY <2>2, <2>3
<1>4. QuietData /\ Idle
  BY <1>2, <1>3, QuietIfSame DEF FenceSignaled, EventLoop, QueueInv, tree, shown
<1>5. PICK a : a = OnTx("tryApply", t)
  OBVIOUS
<1>6. a \in CallType /\ a.op = "tryApply" /\ a.tx = t
  BY <1>5, CallsTyped DEF OnTx
<1>7. /\ stack' = <<a>> /\ a.op \notin {"addChild"} \cup BuildOps \cup ApplyCalls
      /\ status'[a.tx] = "queued"
  BY <1>5, <1>6 DEF FenceSignaled, BuildOps, ApplyCalls
<1> QED BY <1>4, <1>6, <1>7, HandlerKeeps

LEMMA ClearFifoBarrierKeeps ==
    ASSUME QueueInv, TypeOK', NEW s \in Surfaces, ClearFifoBarrier(s)
    PROVE  QueueInv'
<1>1. ASSUME NEW c \in Surfaces
      PROVE  current'[c].children = current[c].children
  <2>1. current[c] \in StateType
    BY DEF QueueInv, Settled, TypeOK
  <2>2. current'[c] = current[c]
          \/ current'[c] = [current[c] EXCEPT !.barrier = FALSE]
    <3>1. current \in [Surfaces -> StateType]
      BY DEF QueueInv, Settled, TypeOK
    <3>2. current' = [current EXCEPT ![s] = [current[s] EXCEPT !.barrier = FALSE]]
      BY DEF ClearFifoBarrier
    <3> QED BY <3>1, <3>2
  <2> QED BY <2>1, <2>2 DEF StateType
<1>2. QuietData /\ Idle
  BY <1>1, QuietIfSame DEF ClearFifoBarrier, EventLoop, QueueInv, tree, queue
<1>3. PICK a : a = OnSurfaces("tryFirst", {s})
  OBVIOUS
<1>4. a \in CallType /\ a.op = "tryFirst"
  BY <1>3, CallsTyped DEF OnSurfaces, SurfaceCalls
<1>5. stack' = <<a>> /\ a.op \notin {"addChild"} \cup BuildOps \cup ApplyCalls
  BY <1>3, <1>4 DEF ClearFifoBarrier, BuildOps, ApplyCalls
<1> QED BY <1>2, <1>4, <1>5, HandlerKeeps

\* One iteration of apply(): the state of an entry becomes the current one.
LEMMA ApplyStateKeeps ==
    ASSUME QueueInv, TypeOK', ApplyState
    PROVE  QueueInv'
<1> DEFINE h == Head(stack)
<1>1. /\ TypeOK /\ Nesting /\ Inside /\ stack # <<>>
      /\ h \in CallType /\ h.op = "applyStates"
      /\ h.tx \in Transactions /\ h.index \in Nat \ {0}
  BY RunningCall, CallFields DEF ApplyState, QueueInv, Settled
<1>2. PICK t \in Transactions, i \in Nat \ {0} : t = h.tx /\ i = h.index
  BY <1>1
<1>3. PICK U : U = Outer(stack, 1)
  OBVIOUS
<1>4. PICK O : O = OuterOps(stack, 1)
  OBVIOUS
<1>5. /\ O \subseteq CallersOf("applyStates")
      /\ status[t] = "applying" /\ t \notin U
      /\ InsideOf(h, U)
  BY <1>1, <1>2, <1>3, <1>4, CallPlaces
     DEF Nesting, NestedIn, Inside, ApplyCalls
<1>6. stack # <<>> => Head(stack).op \notin BuildOps \cup {"unlink"}
  BY <1>1 DEF BuildOps
<1>7. \A u \in Transactions : status[u] = "applying" => u \in {t} \cup U
  BY <1>1, <1>2, <1>3, OuterApplying
<1>8. ASSUME NEW a, a.op \in ApplyCalls, a.tx = t, OuterSame(U), QuietData
      PROVE  Fits(a, U, O)' /\ Txs(a) = {t}
  <2>1. O \subseteq CallersOf(a.op)
    BY <1>5, <1>8, CallersFacts DEF ApplyCalls, TryOps
  <2>2. NestedIn(a, U, O)'
    BY <1>5, <1>8, <2>1 DEF NestedIn, ApplyCalls, QuietData
  <2>3. SurfacesOf(t)' = SurfacesOf(t)
    BY <1>8 DEF QuietData, SurfacesOf
  <2>4. \A u \in U : \A x \in Surfaces :
           (Open(u, x)' => Open(u, x)) /\ Rooted(u, x)' = Rooted(u, x)
    BY <1>8 DEF OuterSame, Rooted
  <2>5. InsideOf(a, U)'
    BY <1>1, <1>2, <1>5, <1>8, <2>3, <2>4 DEF InsideOf, ApplyCalls
  <2> QED BY <1>8, <2>2, <2>5 DEF Fits, Txs
<1>9. CASE i > Len(entries[t])
  <2>1. PICK a : a = OnEntry("unlink", t, 1)
    OBVIOUS
  <2>2. a \in CallType /\ a.op = "unlink" /\ a.tx = t /\ a.index = 1
    BY <2>1, CallsTyped DEF OnEntry
  <2>3. ReturnVia(<<a>>) /\ UNCHANGED current
    BY <1>2, <1>9, <2>1 DEF ApplyState
  <2>4. QuietData
    BY <2>3, QuietIfSame DEF ApplyState, QueueInv, tree, queue
  <2>5. Replaced(stack, <<a>>, stack')
    <3>1. <<a>> \in Seq(CallType)
      BY <2>2
    <3> QED BY <1>1, <2>3, <3>1, ReturnReplaces
  <2>6. QuietCalls(<<a>>)
    BY <1>6, <2>2, OneFrame DEF QuietCalls, BuildOps
  <2>7. Settled' /\ OuterSame(U)
    BY <1>3, <2>4, <2>5, <2>6, Quiet DEF QueueInv
  <2>8. Fits(a, U, O)' /\ Txs(a) = {t}
    BY <1>8, <2>2, <2>4, <2>7 DEF ApplyCalls
  <2>9. \A u \in Transactions : status'[u] = "applying" => u \in Txs(a) \cup U
    BY <1>7, <2>4, <2>8 DEF QuietData
  <2> QED BY <1>1, <1>3, <1>4, <2>5, <2>7, <2>8, <2>9, OneFrameFits DEF QueueInv
<1>10. CASE ~(i > Len(entries[t]))
  <2>0. i \in DOMAIN entries[t]
    BY <1>1, <1>10, LenProperties DEF TypeOK
  <2>1. PICK e : e = entries[t][i]
    OBVIOUS
  <2>2. PICK s : s = e.surface
    OBVIOUS
  <2>3. e \in EntryType /\ s \in Surfaces /\ e.state \in StateType
    BY <1>1, <2>0, <2>1, <2>2, EntryFields
  <2>4. PICK a, b, c : /\ a = OnSurfaces("updateMapped", {s})
                       /\ b = OnSurfaces("clearUnmapped", {s})
                       /\ c = OnEntry("applyStates", t, i + 1)
    OBVIOUS
  <2>5. /\ a \in CallType /\ b \in CallType /\ a.op = "updateMapped"
        /\ b.op = "clearUnmapped"
    BY <2>3, <2>4, CallsTyped DEF OnSurfaces, SurfaceCalls
  <2>6. c \in CallType /\ c.op = "applyStates" /\ c.tx = t
    <3>1. i + 1 \in Nat \ {0}
      BY <1>2
    <3> QED BY <2>4, <3>1, CallsTyped DEF OnEntry
  <2>7. PICK applied : applied = MergeInto(e.state, current[s])
    OBVIOUS
  <2>8. \/ Discarded(e) /\ ReturnVia(<<c>>) /\ UNCHANGED current
        \/ /\ ~Discarded(e) /\ current' = [current EXCEPT ![s] = applied]
           /\ \/ ReturnVia(<<b>> \o <<c>>)
              \/ ReturnVia(<<a>> \o <<b>> \o <<c>>)
    <3>1. IF Discarded(e) THEN ReturnVia(<<c>>) /\ UNCHANGED current
          ELSE /\ current' = [current EXCEPT ![s] = applied]
               /\ ReturnVia((IF HasBuffer(applied) # HasBuffer(current[s])
                             THEN <<a>> ELSE <<>>) \o <<b>> \o <<c>>)
      BY <1>2, <1>10, <2>1, <2>2, <2>4, <2>7, Zenon DEF ApplyState
    <3>2. <<>> \o <<b>> = <<b>>
      OBVIOUS
    <3> QED BY <3>1, <3>2
  <2>9. QuietData
    <3>1. CASE UNCHANGED current
      BY <3>1, QuietIfSame DEF ApplyState, QueueInv, tree, queue
    <3>2. CASE ~Discarded(e) /\ current' = [current EXCEPT ![s] = applied]
      <4>1. applied.children = e.state.children
        BY <2>3, <2>7 DEF MergeInto, StateType
      <4>2. life[s] = "live" /\ ~clientGone
        BY <2>2, <3>2 DEF Discarded
      <4>3. \A k \in e.state.children : k \in Surfaces /\ InitialParent[k] = s
        BY <2>0, <2>1, <2>2, <2>3 DEF QueueInv, Settled, Children, StateType
      <4>4. \A k \in e.state.children : life[k] # "dead" => sub[k] /\ parent[k] = s
        <5>1. s # None
          BY <2>3, ConstantsAssumption
        <5> QED BY <4>2, <4>3, <5>1 DEF QueueInv, Settled, Children
      <4>5. ASSUME NEW x \in Surfaces, NEW k \in current'[x].children
            PROVE  /\ InitialParent[k] = x
                   /\ life[k] # "dead" /\ life[x] # "dead" => sub[k] /\ parent[k] = x
        <5>1. CASE x = s
          <6>1. k \in e.state.children
            BY <3>2, <4>1, <4>5, <5>1, <2>3, <1>1 DEF TypeOK
          <6> QED BY <4>3, <4>4, <5>1, <6>1
        <5>2. CASE x # s
          <6>1. k \in current[x].children
            BY <3>2, <4>5, <5>2, <1>1 DEF TypeOK
          <6>2. k \in Surfaces
            BY <6>1, <1>1 DEF TypeOK, StateType
          <6> QED BY <6>1, <6>2 DEF QueueInv, Settled, Children
        <5> QED BY <5>1, <5>2
      <4> QED BY <4>5 DEF ApplyState, QuietData, tree, queue
    <3> QED BY <2>8, <3>1, <3>2
  <2>10. ASSUME OuterSame(U)
         PROVE  /\ Fits(a, Txs(b) \cup Txs(c) \cup U, {b.op, c.op} \cup O)'
                /\ Fits(b, Txs(c) \cup U, {c.op} \cup O)'
                /\ Fits(c, U, O)' /\ Txs(c) = {t}
    <3>1. {b.op, c.op} \cup O \subseteq CallersOf(a.op)
      BY <1>5, <2>5, <2>6, CallersFacts DEF MappingOps, TryOps
    <3>2. {c.op} \cup O \subseteq CallersOf(b.op)
      BY <1>5, <2>5, <2>6, CallersFacts DEF MappingOps, TryOps
    <3>3. PICK V1, W1, V2, W2 : /\ V1 = Txs(b) \cup Txs(c) \cup U
                                /\ W1 = {b.op, c.op} \cup O
                                /\ V2 = Txs(c) \cup U /\ W2 = {c.op} \cup O
      OBVIOUS
    <3>4. Fits(a, V1, W1)'
      BY <2>5, <3>1, <3>3, PlainFits DEF ApplyCalls
    <3>5. Fits(b, V2, W2)'
      BY <2>5, <3>2, <3>3, PlainFits DEF ApplyCalls
    <3>6. Fits(c, U, O)' /\ Txs(c) = {t}
      BY <1>8, <2>6, <2>9, <2>10 DEF ApplyCalls
    <3> QED BY <3>3, <3>4, <3>5, <3>6
  <2>11. \A u \in Transactions : status'[u] = "applying" => u \in {t} \cup U
    BY <1>7, <2>9 DEF QuietData
  <2>12. CASE ReturnVia(<<c>>)
    <3>1. Replaced(stack, <<c>>, stack')
      <4>1. <<c>> \in Seq(CallType)
        BY <2>6
      <4> QED BY <1>1, <2>12, <4>1, ReturnReplaces
    <3>2. QuietCalls(<<c>>)
      BY <1>6, <2>6, OneFrame DEF QuietCalls, BuildOps
    <3>3. Settled' /\ OuterSame(U)
      BY <1>3, <2>9, <3>1, <3>2, Quiet DEF QueueInv
    <3> QED BY <1>1, <1>3, <1>4, <2>10, <2>11, <3>1, <3>3, OneFrameFits DEF QueueInv
  <2>13. CASE ReturnVia(<<b>> \o <<c>>)
    <3>1. Replaced(stack, <<b, c>>, stack')
      <4>1. <<b, c>> \in Seq(CallType)
        BY <2>5, <2>6
      <4>2. ReturnVia(<<b, c>>)
        BY <2>13, OneThenOne
      <4> QED BY <1>1, <4>1, <4>2, ReturnReplaces
    <3>2. QuietCalls(<<b, c>>)
      BY <1>6, <2>5, <2>6, TwoFrames DEF QuietCalls, BuildOps
    <3>3. Settled' /\ OuterSame(U)
      BY <1>3, <2>9, <3>1, <3>2, Quiet DEF QueueInv
    <3>4. \A u \in Transactions : status'[u] = "applying" => u \in Txs(b) \cup Txs(c) \cup U
      BY <2>10, <2>11, <3>3
    <3> QED BY <1>1, <1>3, <1>4, <2>10, <3>1, <3>3, <3>4, TwoFramesFit DEF QueueInv
  <2>14. CASE ReturnVia(<<a>> \o <<b>> \o <<c>>)
    <3>1. Replaced(stack, <<a, b, c>>, stack')
      <4>1. <<a, b, c>> \in Seq(CallType)
        BY <2>5, <2>6
      <4>2. ReturnVia(<<a, b, c>>)
        BY <2>14, TwoThenOne
      <4> QED BY <1>1, <4>1, <4>2, ReturnReplaces
    <3>2. QuietCalls(<<a, b, c>>)
      BY <1>6, <2>5, <2>6, ThreeFrames DEF QuietCalls, BuildOps
    <3>3. Settled' /\ OuterSame(U)
      BY <1>3, <2>9, <3>1, <3>2, Quiet DEF QueueInv
    <3>4. \A u \in Transactions :
             status'[u] = "applying" => u \in Txs(a) \cup Txs(b) \cup Txs(c) \cup U
      BY <2>10, <2>11, <3>3
    <3> QED BY <1>1, <1>3, <1>4, <2>10, <3>1, <3>3, <3>4, ThreeFramesFit DEF QueueInv
  <2> QED BY <2>8, <2>12, <2>13, <2>14
<1> QED BY <1>9, <1>10

------------------------------------------------------------------------------
(* tryApply()                                                               *)

\* A rearrangement of a finite set reaches all of it.
LEMMA Rearranged ==
    ASSUME NEW D, IsFiniteSet(D), NEW p \in [D -> D],
           \A i, j \in D : p[i] = p[j] => i = j
    PROVE  \A k \in D : \E i \in D : p[i] = k
<1>1. p \in Injection(D, D)
  BY DEF Injection, IsInjective
<1>2. p \in Surjection(D, D)
  BY <1>1, FS_Injection
<1> QED BY <1>2 DEF Surjection

LEMMA EntriesFinite ==
    ASSUME TypeOK, NEW t \in Transactions
    PROVE  IsFiniteSet(DOMAIN entries[t])
<1>1. PICK n : n = Len(entries[t])
  OBVIOUS
<1>2. n \in Nat /\ DOMAIN entries[t] = 1..n
  BY <1>1, LenProperties DEF TypeOK
<1>3. 1 \in Int /\ n \in Int
  BY <1>2
<1>4. IsFiniteSet(1..n)
  BY <1>3, FS_Interval
<1> QED BY <1>2, <1>4

\* A transaction without predecessors is sorted and begins to apply.
Begins(t, p) ==
    /\ status[t] = "queued"
    /\ \A i \in DOMAIN entries[t] : entries[t][i].prev = None
    /\ p \in Orders(Len(entries[t]))
    /\ entries' = [entries EXCEPT ![t] = [i \in DOMAIN entries[t] |-> entries[t][p[i]]]]
    /\ status' = [status EXCEPT ![t] = "applying"]
    /\ UNCHANGED <<life, first, last>>
    /\ Left(t) = DOMAIN entries[t]
    /\ \A u \in Transactions : Left(u)' = Left(u)

LEMMA BeginsFacts ==
    ASSUME Settled, TypeOK', NEW t \in Transactions, NEW p, Begins(t, p)
    PROVE  /\ DOMAIN entries'[t] = DOMAIN entries[t]
           /\ \A i \in DOMAIN entries[t] : p[i] \in DOMAIN entries[t]
           /\ \A i \in DOMAIN entries[t] : entries'[t][i] = entries[t][p[i]]
           /\ \A i, j \in DOMAIN entries[t] : p[i] = p[j] => i = j
           /\ \A k \in DOMAIN entries[t] : \E i \in DOMAIN entries[t] : p[i] = k
           /\ \A u \in Transactions : u # t => entries'[u] = entries[u]
           /\ \A u \in Transactions : u # t => status'[u] = status[u]
           /\ status'[t] = "applying" /\ Committed(t) /\ Committed(t)'
           /\ \A u \in Transactions : SurfacesOf(u)' = SurfacesOf(u)
           /\ \A u \in Transactions : Committed(u)' = Committed(u)
<1>1. DOMAIN entries[t] = 1..Len(entries[t])
  BY LenProperties DEF Settled, TypeOK
<1>2. PICK D : D = DOMAIN entries[t]
  OBVIOUS
<1>3. p \in [D -> D] /\ \A i, j \in D : p[i] = p[j] => i = j
  BY <1>1, <1>2 DEF Begins, Orders
<1>4. \A i \in DOMAIN entries[t] : p[i] \in DOMAIN entries[t]
  BY <1>2, <1>3
<1>5. \A i, j \in DOMAIN entries[t] : p[i] = p[j] => i = j
  BY <1>2, <1>3
<1>6. \A k \in DOMAIN entries[t] : \E i \in DOMAIN entries[t] : p[i] = k
  <2>1. IsFiniteSet(D)
    BY <1>2, EntriesFinite DEF Settled
  <2>2. \A k \in D : \E i \in D : p[i] = k
    BY <1>3, <2>1, Rearranged
  <2> QED BY <1>2, <2>2
<1>7. entries'[t] = [i \in DOMAIN entries[t] |-> entries[t][p[i]]]
  BY DEF Begins, Settled, TypeOK
<1>8. DOMAIN entries'[t] = DOMAIN entries[t]
  BY <1>7
<1>9. \A i \in DOMAIN entries[t] : entries'[t][i] = entries[t][p[i]]
  BY <1>7
<1>10. \A u \in Transactions : u # t => entries'[u] = entries[u]
  BY DEF Begins, Settled, TypeOK
<1>11. \A u \in Transactions : u # t => status'[u] = status[u]
  BY DEF Begins, Settled, TypeOK
<1>12. status'[t] = "applying"
  BY DEF Begins, Settled, TypeOK
<1>13. Committed(t) /\ Committed(t)'
  BY <1>12 DEF Committed, Begins
<1>14. SurfacesOf(t)' = SurfacesOf(t)
  <2>1. ASSUME NEW x \in SurfacesOf(t) PROVE x \in SurfacesOf(t)'
    <3>1. PICK k \in DOMAIN entries[t] : x = entries[t][k].surface
      BY DEF SurfacesOf
    <3>2. PICK i \in DOMAIN entries[t] : p[i] = k
      BY <1>6
    <3>3. entries'[t][i].surface = x /\ i \in DOMAIN entries'[t]
      BY <1>8, <1>9, <3>1, <3>2
    <3> QED BY <3>3 DEF SurfacesOf
  <2>2. ASSUME NEW x \in SurfacesOf(t)' PROVE x \in SurfacesOf(t)
    <3>1. PICK i \in DOMAIN entries'[t] : x = entries'[t][i].surface
      BY DEF SurfacesOf
    <3>2. i \in DOMAIN entries[t]
      BY <1>8
    <3>3. entries[t][p[i]].surface = x /\ p[i] \in DOMAIN entries[t]
      BY <1>4, <1>9, <3>1, <3>2
    <3> QED BY <3>3 DEF SurfacesOf
  <2> QED BY <2>1, <2>2
<1>15. \A u \in Transactions : u # t => SurfacesOf(u)' = SurfacesOf(u)
  BY <1>10 DEF SurfacesOf
<1>16. \A u \in Transactions : Committed(u)' = Committed(u)
  BY <1>11, <1>13 DEF Committed
<1>17. \A u \in Transactions : SurfacesOf(u)' = SurfacesOf(u)
  BY <1>14, <1>15
<1> QED
  BY <1>4, <1>5, <1>6, <1>8, <1>9, <1>10, <1>11, <1>12, <1>13, <1>16, <1>17

LEMMA BeginsKeepsQueues ==
    ASSUME Settled, TypeOK', NEW t \in Transactions, NEW p, Begins(t, p)
    PROVE  Ends' /\ AtEnds' /\ Outside' /\ Neighbours' /\ Counted' /\ OneEntryEach'
<1>0. \A u \in Transactions : u # None
  BY ConstantsAssumption
<1>a. /\ DOMAIN entries'[t] = DOMAIN entries[t]
      /\ \A i \in DOMAIN entries[t] : p[i] \in DOMAIN entries[t]
      /\ \A i \in DOMAIN entries[t] : entries'[t][i] = entries[t][p[i]]
  BY BeginsFacts
<1>b. /\ \A i, j \in DOMAIN entries[t] : p[i] = p[j] => i = j
      /\ \A k \in DOMAIN entries[t] : \E i \in DOMAIN entries[t] : p[i] = k
  BY BeginsFacts
<1>c. /\ \A u \in Transactions : u # t => entries'[u] = entries[u]
      /\ \A u \in Transactions : u # t => status'[u] = status[u]
      /\ status'[t] = "applying" /\ Committed(t) /\ Committed(t)'
      /\ \A u \in Transactions : SurfacesOf(u)' = SurfacesOf(u)
      /\ \A u \in Transactions : Committed(u)' = Committed(u)
  BY BeginsFacts
<1> USE DEF Settled
<1>1. \A u \in Transactions : Prevs(t, u) = {} /\ Prevs(t, u)' = {}
  <2>1. \A i \in DOMAIN entries[t] : entries[t][i].prev = None
    BY DEF Begins
  <2>2. \A i \in DOMAIN entries'[t] : entries'[t][i].prev = None
    BY <2>1, <1>a, <1>c
  <2> QED BY <1>0, <2>1, <2>2 DEF Prevs
<1>2. \A u \in Transactions : Committed(u) =>
         \A j \in Left(u) : entries[u][j].next # t
  BY <1>0, <1>1 DEF Neighbours
<1>3. ~SelfWaiting(t) /\ ~SelfWaiting(t)'
  BY <1>1 DEF SelfWaiting, Prevs
<1>4. \A u \in Transactions : SelfWaiting(u)' = SelfWaiting(u)
  BY <1>3, <1>a, <1>c DEF SelfWaiting
<1>5. ASSUME NEW u \in Transactions, NEW s \in Surfaces
      PROVE  OnQueue(u, s)' <=> OnQueue(u, s)
  <2>1. CASE u # t
    BY <2>1, <1>c DEF Begins, OnQueue
  <2>2. CASE u = t
    <3>0. Left(t)' = DOMAIN entries[t]
      BY DEF Begins
    <3>1. OnQueue(t, s)' <=> \E i \in DOMAIN entries[t] : entries[t][p[i]].surface = s
      BY <1>a, <1>c, <3>0 DEF OnQueue
    <3>2. OnQueue(t, s) <=> \E i \in DOMAIN entries[t] : entries[t][i].surface = s
      BY <1>c DEF Begins, OnQueue
    <3>3. OnQueue(t, s)' => OnQueue(t, s)
      BY <1>a, <3>1, <3>2
    <3>4. OnQueue(t, s) => OnQueue(t, s)'
      BY <1>b, <3>1, <3>2
    <3> QED BY <2>2, <3>3, <3>4
  <2> QED BY <2>1, <2>2
<1>6. ASSUME NEW u \in Transactions, NEW w \in Transactions, NEW s \in Surfaces
      PROVE  Behind(w, u, s)' <=> Behind(w, u, s)
  <2>1. CASE u # t
    BY <2>1, <1>c DEF Begins, Behind
  <2>2. CASE u = t
    <3>0. Left(t)' = DOMAIN entries[t]
      BY DEF Begins
    <3>1. Behind(w, t, s)' <=> \E i \in DOMAIN entries[t] :
             entries[t][p[i]].surface = s /\ entries[t][p[i]].next = w
      BY <1>a, <1>c, <3>0 DEF Behind
    <3>2. Behind(w, t, s) <=> \E i \in DOMAIN entries[t] :
             entries[t][i].surface = s /\ entries[t][i].next = w
      BY <1>c DEF Begins, Behind
    <3>3. Behind(w, t, s)' => Behind(w, t, s)
      BY <1>a, <3>1, <3>2
    <3>4. Behind(w, t, s) => Behind(w, t, s)'
      BY <1>b, <3>1, <3>2
    <3> QED BY <2>2, <3>3, <3>4
  <2> QED BY <2>1, <2>2
<1>7. Ends'
  <2> SUFFICES ASSUME NEW s \in Surfaces
      PROVE /\ first'[s] = None <=> last'[s] = None
            /\ life'[s] = "dead" => first'[s] = None
            /\ first'[s] # None => OnQueue(first[s], s)'
            /\ last'[s] # None =>
                  /\ OnQueue(last[s], s)'
                  /\ \A j \in Left(last[s])' :
                        entries'[last'[s]][j].surface = s
                           => entries'[last'[s]][j].next \in {None, last'[s]}
    BY DEF Ends
  <2>1. first'[s] = first[s] /\ last'[s] = last[s] /\ life'[s] = life[s]
    BY DEF Begins
  <2>2. PICK f \in Transactions \cup {None}, l \in Transactions \cup {None} :
           f = first[s] /\ l = last[s]
    BY DEF TypeOK
  <2>3. (f # None => OnQueue(f, s)') /\ (l # None => OnQueue(l, s)')
    BY <1>5, <2>2 DEF Ends
  <2>4. l # None => \A j \in Left(l)' :
           entries'[l][j].surface = s => entries'[l][j].next \in {None, l}
    <3> SUFFICES ASSUME l # None, NEW j \in Left(l)', entries'[l][j].surface = s
                 PROVE  entries'[l][j].next \in {None, l}
      OBVIOUS
    <3>1. \A k \in Left(l) : entries[l][k].surface = s => entries[l][k].next \in {None, l}
      BY <2>2 DEF Ends
    <3>2. j \in Left(l)
      BY DEF Begins
    <3>3. CASE l = t
      BY <3>1, <3>2, <3>3, <1>a, <1>c DEF Begins
    <3>4. CASE l # t
      BY <3>1, <3>2, <3>4, <1>a, <1>c
    <3> QED BY <3>3, <3>4
  <2> QED BY <2>1, <2>2, <2>3, <2>4 DEF Ends
<1>8. AtEnds'
  <2> SUFFICES ASSUME NEW u \in Transactions, Committed(u)'
      PROVE /\ \A j \in Left(u)' :
                  /\ life'[entries'[u][j].surface] # "dead"
                  /\ entries'[u][j].next = None
                  => last'[entries'[u][j].surface] = u
            /\ \A s \in Surfaces :
                  /\ life'[s] # "dead"
                  /\ OnQueue(u, s)'
                  /\ \A w \in Transactions \ {u} : ~Behind(u, w, s)'
                  => first'[s] = u
    BY DEF AtEnds
  <2>1. Committed(u) /\ life' = life /\ last' = last /\ first' = first /\ Left(u)' = Left(u)
    BY <1>a, <1>c DEF Begins
  <2>2. ASSUME NEW j \in Left(u)', life'[entries'[u][j].surface] # "dead",
               entries'[u][j].next = None
        PROVE  last'[entries'[u][j].surface] = u
    <3>1. CASE u = t
      <4>1. p[j] \in Left(t) /\ entries'[t][j] = entries[t][p[j]]
        BY <2>1, <2>2, <3>1, <1>a, <1>c DEF Begins
      <4> QED BY <2>1, <2>2, <3>1, <4>1 DEF AtEnds
    <3>2. CASE u # t
      BY <2>1, <2>2, <3>2, <1>a, <1>c DEF AtEnds
    <3> QED BY <3>1, <3>2
  <2>3. ASSUME NEW s \in Surfaces, life'[s] # "dead", OnQueue(u, s)',
               \A w \in Transactions \ {u} : ~Behind(u, w, s)'
        PROVE  first'[s] = u
    BY <1>5, <1>6, <2>1, <2>3 DEF AtEnds
  <2> QED BY <2>2, <2>3
<1>9. Outside'
  BY <1>a, <1>c DEF Outside
<1>10. Neighbours'
  <2> SUFFICES ASSUME NEW u \in Transactions
      PROVE /\ Committed(u)' =>
                  \A j \in Left(u)' : entries'[u][j].next # None =>
                     /\ status'[entries'[u][j].next] = "queued"
                     /\ entries'[u][j].surface \in SurfacesOf(entries[u][j].next)'
                     /\ Prevs(entries[u][j].next, u)' # {}
            /\ \A i \in DOMAIN entries'[u] :
                  entries'[u][i].prev # None => Committed(entries[u][i].prev)'
            /\ status'[u] = "applying" =>
                  \A i \in DOMAIN entries'[u] : entries'[u][i].prev = None
    BY DEF Neighbours
  <2>1. ASSUME Committed(u)', NEW j \in Left(u)', entries'[u][j].next # None
        PROVE  /\ status'[entries'[u][j].next] = "queued"
               /\ entries'[u][j].surface \in SurfacesOf(entries[u][j].next)'
               /\ Prevs(entries[u][j].next, u)' # {}
    <3>1. Committed(u) /\ j \in Left(u)
      BY <2>1, <1>a, <1>c DEF Begins
    <3>2. PICK k \in Left(u) : entries'[u][j] = entries[u][k]
      <4>1. CASE u = t
        BY <3>1, <4>1, <1>a, <1>c DEF Begins
      <4>2. CASE u # t
        BY <3>1, <4>2, <1>a, <1>c
      <4> QED BY <4>1, <4>2
    <3>3. PICK n : n = entries[u][k].next
      OBVIOUS
    <3>4. n # None /\ n = entries'[u][j].next
      BY <2>1, <3>2, <3>3
    <3>5. k \in DOMAIN entries[u]
      BY DEF Left
    <3>6. n \in Transactions
      BY <3>3, <3>4, <3>5, EntryFields
    <3>7. n # t
      BY <1>2, <3>1, <3>3
    <3>8. /\ status[n] = "queued" /\ entries[u][k].surface \in SurfacesOf(n)
          /\ Prevs(n, u) # {}
      BY <3>1, <3>3, <3>4 DEF Neighbours
    <3>9. Prevs(n, u)' = Prevs(n, u)
      BY <3>6, <3>7, <1>a, <1>c DEF Prevs
    <3>10. /\ status'[n] = "queued" /\ entries'[u][j].surface \in SurfacesOf(n)'
           /\ Prevs(n, u)' # {}
      BY <3>2, <3>6, <3>7, <3>8, <3>9, <1>a, <1>c
    <3> QED BY <3>4, <3>10
  <2>2. ASSUME NEW i \in DOMAIN entries'[u], entries'[u][i].prev # None
        PROVE  Committed(entries[u][i].prev)'
    <3>1. u # t
      BY <2>2, <1>a, <1>c DEF Begins
    <3>2. entries'[u] = entries[u]
      BY <3>1, <1>a, <1>c
    <3>3. PICK w : w = entries[u][i].prev
      OBVIOUS
    <3>4. w \in Transactions /\ Committed(w)
      BY <2>2, <3>2, <3>3, EntryFields DEF Neighbours
    <3>5. Committed(w)'
      BY <3>4, <1>a, <1>c
    <3> QED BY <3>2, <3>3, <3>5
  <2>3. ASSUME status'[u] = "applying", NEW i \in DOMAIN entries'[u]
        PROVE  entries'[u][i].prev = None
    BY <2>3, <1>a, <1>c DEF Begins, Neighbours
  <2> QED BY <2>1, <2>2, <2>3
<1>11. Counted'
  <2> SUFFICES ASSUME NEW u \in Transactions, NEW n \in Transactions,
                      Committed(u)', ~SelfWaiting(u)'
               PROVE  Cardinality(Prevs(n, u))' = Cardinality(Nexts(u, n))'
    BY DEF Counted
  <2>1. Cardinality(Prevs(n, u)) = Cardinality(Nexts(u, n))
    BY <1>4, <1>a, <1>c DEF Counted
  <2>2. Prevs(n, u)' = Prevs(n, u)
    <3>1. CASE n = t
      BY <1>1, <3>1
    <3>2. CASE n # t
      BY <3>2, <1>a, <1>c DEF Prevs
    <3> QED BY <3>1, <3>2
  <2>3. CASE u # t
    <3>1. Nexts(u, n)' = Nexts(u, n)
      BY <2>3, <1>a, <1>c DEF Nexts, Begins
    <3> QED BY <2>1, <2>2, <3>1
  <2>4. CASE u = t
    <3>1. PICK A, B : A = Nexts(t, n)' /\ B = Nexts(t, n)
      OBVIOUS
    <3>2. A \subseteq DOMAIN entries[t] /\ B \subseteq DOMAIN entries[t]
      BY <3>1, <1>a, <1>c DEF Nexts, Begins
    <3>3. \A i \in DOMAIN entries[t] : i \in A <=> p[i] \in B
      BY <3>1, <1>a, <1>c DEF Nexts, Begins
    <3>4. PICK f : f = [i \in A |-> p[i]]
      OBVIOUS
    <3>5. f \in [A -> B]
      BY <3>2, <3>3, <3>4
    <3>6. \A i, j \in A : f[i] = f[j] => i = j
      BY <1>b, <3>2, <3>4
    <3>7. ASSUME NEW k \in B
          PROVE  \E i \in A : f[i] = k
      <4>1. k \in DOMAIN entries[t]
        BY <3>2
      <4>2. PICK i \in DOMAIN entries[t] : p[i] = k
        BY <1>b, <4>1
      <4>3. i \in A
        BY <3>3, <4>2
      <4> QED BY <3>4, <4>2, <4>3
    <3>8. f \in Bijection(A, B)
      BY <3>5, <3>6, <3>7 DEF Bijection, Injection, IsInjective, Surjection
    <3>9. ExistsBijection(A, B)
      BY <3>8 DEF ExistsBijection
    <3>10. IsFiniteSet(A)
      <4>1. IsFiniteSet(DOMAIN entries[t])
        BY EntriesFinite
      <4> QED BY <3>2, <4>1, FS_Subset
    <3>11. Cardinality(A) = Cardinality(B)
      BY <3>9, <3>10, FS_Bijection
    <3> QED BY <2>1, <2>2, <2>4, <3>1, <3>11
  <2> QED BY <2>3, <2>4
<1>12. OneEntryEach'
  <2> SUFFICES ASSUME NEW u \in Transactions, Committed(u)', ~SelfWaiting(u)',
                      NEW i \in DOMAIN entries'[u], NEW j \in DOMAIN entries'[u],
                      entries'[u][i].surface = entries'[u][j].surface,
                      life'[entries'[u][i].surface] # "dead"
               PROVE  i = j
    BY DEF OneEntryEach
  <2>1. Committed(u) /\ ~SelfWaiting(u) /\ life' = life
    BY <1>4, <1>a, <1>c DEF Begins
  <2>2. CASE u # t
    BY <2>1, <2>2, <1>a, <1>c DEF OneEntryEach
  <2>3. CASE u = t
    <3>1. /\ i \in DOMAIN entries[t] /\ j \in DOMAIN entries[t]
          /\ p[i] \in DOMAIN entries[t] /\ p[j] \in DOMAIN entries[t]
          /\ entries'[t][i] = entries[t][p[i]] /\ entries'[t][j] = entries[t][p[j]]
      BY <2>3, <1>a, <1>c
    <3>2. p[i] = p[j]
      BY <2>1, <2>3, <3>1 DEF OneEntryEach
    <3> QED BY <1>b, <3>1, <3>2
  <2> QED BY <2>2, <2>3
<1> QED BY <1>7, <1>8, <1>9, <1>10, <1>11, <1>12


\* While transactions are tried none is built: the functions that do so are not
\* running.
LEMMA NoneBuilt ==
    ASSUME TypeOK, Nesting, stack # <<>>, Head(stack).op \in TryOps,
           NEW cs, Replaced(stack, cs, stack'),
           \A k \in DOMAIN cs : cs[k].op \notin BuildOps
    PROVE  /\ \A c \in Calls : c.op \notin BuildOps
           /\ \A c \in Calls' : c.op \notin BuildOps
<1>1. \A m \in DOMAIN stack : m > 1 => stack[m].op \in CallersOf(Head(stack).op)
  BY FurtherOut
<1>2. CallersOf(Head(stack).op) \cap BuildOps = {}
  BY CallersFacts DEF BuildOps, DesyncOps
<1>3. \A m \in DOMAIN stack : m > 1 => stack[m].op \notin BuildOps
  BY <1>1, <1>2
<1>4. Head(stack).op \notin BuildOps
  BY DEF TryOps, BuildOps
<1>5. \A c \in Calls : c.op \notin BuildOps
  BY <1>3, <1>4, CallPlaces
<1>6. \A c \in Calls' : c.op \notin BuildOps
  BY <1>3, CallsAfter
<1> QED BY <1>5, <1>6

\* Such a step leaves the trees alone, and no transaction gains or loses a
\* surface but the one that is deleted.
LEMMA TriesKeepTrees ==
    ASSUME Settled, Nesting, TypeOK', stack # <<>>, Head(stack).op \in TryOps,
           NEW cs, Replaced(stack, cs, stack'),
           \A k \in DOMAIN cs : cs[k].op \notin BuildOps,
           UNCHANGED <<life, clientGone, sub, parent, children, cached, current>>,
           \A u \in Transactions :
              /\ status[u] = "pending" <=> status'[u] = "pending"
              /\ Committed(u)' => Committed(u)
              /\ Committed(u)' \/ status[u] = "pending" =>
                    SurfacesOf(u)' = SurfacesOf(u)
              /\ \A i \in DOMAIN entries'[u] : \E k \in DOMAIN entries[u] :
                    /\ entries'[u][i].surface = entries[u][k].surface
                    /\ entries'[u][i].state = entries[u][k].state
    PROVE  Children' /\ Subtrees' /\ Building'
<1> USE DEF Settled
<1>1. /\ \A c \in Calls : c.op \notin BuildOps
      /\ \A c \in Calls' : c.op \notin BuildOps
  BY NoneBuilt
<1>2. Building'
  BY <1>1 DEF Building, BuiltBy, BuildOps
<1>3. Children'
  <2>1. ASSUME NEW s \in Surfaces
        PROVE  /\ parent'[s] \in {InitialParent[s], None}
               /\ \A c \in children'[s] \cup current'[s].children : InitialParent[c] = s
               /\ \A c \in current'[s].children :
                     life'[c] # "dead" /\ life'[s] # "dead"
                       => sub'[c] /\ parent'[c] = s
    BY DEF Children
  <2>2. ASSUME NEW u \in Transactions, NEW i \in DOMAIN entries'[u],
               NEW c \in entries'[u][i].state.children
        PROVE  InitialParent[c] = entries'[u][i].surface
    <3>1. PICK k \in DOMAIN entries[u] :
             /\ entries'[u][i].surface = entries[u][k].surface
             /\ entries'[u][i].state = entries[u][k].state
      OBVIOUS
    <3>2. c \in entries[u][k].state.children
      BY <2>2, <3>1
    <3> QED BY <3>1, <3>2 DEF Children
  <2>3. \A d \in Calls' : d.op # "add"
    BY <1>1 DEF BuildOps
  <2>4. ~clientGone' => \A c \in Surfaces :
           /\ life'[c] # "dead"
           /\ InitialParent[c] # None
           /\ life'[InitialParent[c]] # "dead"
           => sub'[c] /\ parent'[c] = InitialParent[c]
    BY DEF Children
  <2> QED BY <2>1, <2>2, <2>3, <2>4 DEF Children
<1>4. Subtrees'
  <2>1. ASSUME NEW u \in Transactions, Committed(u)'
        PROVE  \E c \in Surfaces : Rooted(u, c)'
    <3>1. PICK c \in Surfaces : Rooted(u, c)
      BY <2>1 DEF Subtrees
    <3>2. Rooted(u, c)'
      BY <2>1, <3>1 DEF Rooted
    <3> QED BY <3>2
  <2>2. ASSUME NEW s \in Surfaces, cached'[s] # None
        PROVE  /\ status'[cached'[s]] = "pending"
               /\ Gathered(cached[s], s)'
               /\ s \in SurfacesOf(cached[s])' \/ Adding(cached[s], s)'
    <3>1. PICK u \in Transactions : u = cached[s] /\ u = cached'[s]
      BY <2>2 DEF TypeOK
    <3>2. status[u] = "pending" /\ Gathered(u, s) /\ s \in SurfacesOf(u)
      BY <1>1, <2>2, <3>1 DEF Subtrees, Adding, BuildOps
    <3>3. status'[u] = "pending" /\ SurfacesOf(u)' = SurfacesOf(u)
      BY <3>2
    <3>4. Gathered(u, s)'
      BY <3>2, <3>3 DEF Gathered
    <3> QED BY <3>1, <3>2, <3>3, <3>4
  <2>3. \A c, d \in Surfaces : cached'[c] # None /\ cached'[c] = cached'[d] => c = d
    BY DEF Subtrees
  <2> QED BY <2>1, <2>2, <2>3 DEF Subtrees
<1> QED BY <1>2, <1>3, <1>4

\* A transaction without predecessors is in front of every queue it is in.
LEMMA InFront ==
    ASSUME Settled, NEW t \in Transactions, Committed(t),
           \A i \in DOMAIN entries[t] : entries[t][i].prev = None,
           NEW s \in Surfaces, life[s] # "dead", OnQueue(t, s)
    PROVE  first[s] = t
<1>1. ASSUME NEW u \in Transactions, Behind(t, u, s) PROVE FALSE
  <2>1. PICK j \in Left(u) : entries[u][j].next = t /\ Committed(u)
    BY <1>1 DEF Behind
  <2>2. t # None /\ u # None
    BY ConstantsAssumption
  <2>3. Prevs(t, u) # {}
    BY <2>1, <2>2 DEF Settled, Neighbours
  <2> QED BY <2>2, <2>3 DEF Prevs
<1> QED BY <1>1 DEF Settled, AtEnds

\* So one that begins to apply shares no open surface with those that are
\* being applied further out.
LEMMA NothingShared ==
    ASSUME Settled, NEW t \in Transactions, status[t] = "queued",
           \A i \in DOMAIN entries[t] : entries[t][i].prev = None,
           Left(t) = DOMAIN entries[t],
           NEW u \in Transactions, status[u] = "applying",
           NEW x \in Surfaces, Open(u, x)
    PROVE  x \notin SurfacesOf(t)
<1>1. SUFFICES ASSUME x \in SurfacesOf(t) PROVE FALSE
  OBVIOUS
<1>2. Committed(t) /\ Committed(u)
  BY DEF Committed
<1>3. OnQueue(t, x)
  BY <1>1, <1>2 DEF OnQueue, SurfacesOf
<1>4. OnQueue(u, x) /\ life[x] # "dead"
  BY <1>2 DEF Open, OnQueue
<1>5. \A i \in DOMAIN entries[u] : entries[u][i].prev = None
  BY DEF Settled, Neighbours
<1>6. first[x] = t /\ first[x] = u
  BY <1>2, <1>3, <1>4, <1>5, InFront
<1> QED BY <1>6

\* t is ready and begins to be applied.
LEMMA TryApplyBegins ==
    ASSUME QueueInv, TypeOK', TryApply, NEW t, t = Head(stack).tx, IsReady(t)
    PROVE  \E a, p :
              /\ a \in CallType /\ a.op = "applyStates" /\ a.tx = t /\ a.index = 1
              /\ Replaced(stack, <<a>>, stack')
              /\ DescendantsFirst([i \in DOMAIN entries[t] |-> entries[t][p[i]]])
              /\ Begins(t, p)
<1> DEFINE h == Head(stack)
<1>1. /\ TypeOK /\ Nesting /\ stack # <<>>
      /\ h.op = "tryApply" /\ h.tx \in Transactions
  BY RunningCall, CallFields DEF TryApply, QueueInv, Settled
<1>2. t \in Transactions /\ t = h.tx
  BY <1>1
<1>3. PICK U : U = Outer(stack, 1)
  OBVIOUS
<1>4. status[t] = "queued"
  BY <1>1, <1>2, CallPlaces DEF Nesting, NestedIn
<1>5. \A u \in U : u # t
  BY <1>1, <1>3, <1>4, OuterApplying
<1>6. PICK a : a = OnEntry("applyStates", t, 1)
  OBVIOUS
<1>7. a \in CallType /\ a.op = "applyStates" /\ a.tx = t /\ a.index = 1
  BY <1>2, <1>6, CallsTyped DEF OnEntry
<1>8. /\ ReturnVia(<<a>>)
      /\ status' = [status EXCEPT ![t] = "applying"]
      /\ UNCHANGED <<life, clientGone, sub, parent, children, cached, current,
                     first, last>>
  BY <1>2, <1>6 DEF TryApply, tree, shown
<1>9. PICK p \in Orders(Len(entries[t])) :
         /\ DescendantsFirst([i \in DOMAIN entries[t] |-> entries[t][p[i]]])
         /\ entries' = [entries EXCEPT ![t] = [i \in DOMAIN entries[t] |-> entries[t][p[i]]]]
  <2>1. IsReady(Head(stack).tx)
    BY <1>2
  <2>2. PICK p \in Orders(Len(entries[h.tx])) :
          /\ DescendantsFirst([i \in DOMAIN entries[h.tx] |-> entries[h.tx][p[i]]])
          /\ entries' = [entries EXCEPT ![h.tx] =
                            [i \in DOMAIN entries[h.tx] |-> entries[h.tx][p[i]]]]
    BY <2>1 DEF TryApply
  <2> QED BY <1>2, <2>2
<1>10. Replaced(stack, <<a>>, stack')
  <2>1. <<a>> \in Seq(CallType)
    BY <1>7
  <2> QED BY <1>1, <1>8, <2>1, ReturnReplaces
<1>11. \A i \in DOMAIN entries[t] : entries[t][i].prev = None
  BY DEF IsReady, Waiting
<1>12. \A d : d.op = "unlink" => (d \in Calls <=> d \in Calls')
  <2>1. \A d \in Calls : d.op = "unlink" => d \in Calls'
    BY <1>1, <1>10, CallsAfter
  <2>2. \A d \in Calls' : d = a \/ d \in Calls
    BY <1>1, <1>10, CallsAfter, OneFrame DEF Calls
  <2> QED BY <1>7, <2>1, <2>2
<1>13. \A d \in Calls : d.op = "unlink" => d.tx # t
  <2> SUFFICES ASSUME NEW d \in Calls, d.op = "unlink" PROVE d.tx # t
    OBVIOUS
  <2>1. PICK m \in DOMAIN stack : m > 1 /\ stack[m] = d
    BY <1>1, CallPlaces
  <2>2. d.tx \in U
    BY <1>1, <1>3, <2>1, FurtherOut DEF ApplyCalls
  <2> QED BY <1>5, <2>2
<1>14. Begins(t, p)
  <2>1. Left(t) = DOMAIN entries[t]
    BY <1>13 DEF Left
  <2>2. \A u \in Transactions : DOMAIN entries'[u] = DOMAIN entries[u]
    BY <1>9 DEF QueueInv, Settled, TypeOK
  <2>3. \A u \in Transactions : Left(u)' = Left(u)
    BY <1>12, <2>2 DEF Left
  <2> QED BY <1>4, <1>8, <1>9, <1>11, <2>1, <2>3 DEF Begins
<1> QED BY <1>7, <1>9, <1>10, <1>14

LEMMA TryApplyKeeps ==
    ASSUME QueueInv, TypeOK', TryApply
    PROVE  QueueInv'
<1> DEFINE h == Head(stack)
<1>1. /\ TypeOK /\ Nesting /\ Inside /\ stack # <<>>
      /\ h.op = "tryApply" /\ h.tx \in Transactions
  BY RunningCall, CallFields DEF TryApply, QueueInv, Settled
<1>2. PICK t \in Transactions : t = h.tx
  BY <1>1
<1>3. PICK U : U = Outer(stack, 1)
  OBVIOUS
<1>4. PICK O : O = OuterOps(stack, 1)
  OBVIOUS
<1>5. /\ O \subseteq CallersOf("tryApply")
      /\ status[t] = "queued" /\ InsideOf(h, U)
  BY <1>1, <1>2, <1>3, <1>4, CallPlaces DEF Nesting, NestedIn, Inside
<1>6. \A u \in U : u \in Transactions /\ status[u] = "applying" /\ u # t
  BY <1>1, <1>3, <1>5, OuterApplying
<1>7. \A u \in Transactions : status[u] = "applying" => u \in U
  BY <1>1, <1>3, OuterApplying DEF ApplyCalls
<1>8. CASE ~IsReady(t)
  <2>1. PICK cs : cs = <<>>
    OBVIOUS
  <2>2. ReturnVia(cs) /\ UNCHANGED <<entries, status>>
    BY <1>2, <1>8, <2>1 DEF TryApply
  <2>3. Replaced(stack, cs, stack')
    BY <1>1, <2>1, <2>2, EmptySeq, ReturnReplaces
  <2>4. QuietData
    BY <2>2, QuietIfSame DEF TryApply, QueueInv, tree, shown
  <2>5. QuietCalls(cs)
    BY <1>1, <2>1 DEF QuietCalls, BuildOps
  <2>6. Settled' /\ OuterSame(U)
    BY <1>3, <2>3, <2>4, <2>5, Quiet DEF QueueInv
  <2>7. \A u \in Transactions : status'[u] = "applying" => u \in U
    BY <1>7, <2>2
  <2> QED BY <1>1, <1>3, <2>1, <2>3, <2>6, <2>7, NoFrameFits DEF QueueInv
<1>9. CASE IsReady(t)
  <2>1. PICK a, p :
           /\ a \in CallType /\ a.op = "applyStates" /\ a.tx = t /\ a.index = 1
           /\ Replaced(stack, <<a>>, stack')
           /\ DescendantsFirst([i \in DOMAIN entries[t] |-> entries[t][p[i]]])
           /\ Begins(t, p)
    BY <1>2, <1>9, TryApplyBegins
  <2>2. a \in CallType /\ a.op = "applyStates" /\ a.tx = t
    BY <2>1
  <2>3. UNCHANGED <<life, clientGone, sub, parent, children, cached, current, first, last>>
    BY DEF TryApply, tree, shown
  <2>4. DescendantsFirst([i \in DOMAIN entries[t] |-> entries[t][p[i]]])
    BY <2>1
  <2>5. Replaced(stack, <<a>>, stack')
    BY <2>1
  <2>6. \A i \in DOMAIN entries[t] : entries[t][i].prev = None
    BY <2>1 DEF Begins
  <2>9. Begins(t, p)
    BY <2>1
  <2>10. /\ DOMAIN entries'[t] = DOMAIN entries[t]
         /\ \A i \in DOMAIN entries[t] : p[i] \in DOMAIN entries[t]
         /\ \A i \in DOMAIN entries[t] : entries'[t][i] = entries[t][p[i]]
         /\ \A u \in Transactions : u # t => entries'[u] = entries[u]
         /\ \A u \in Transactions : u # t => status'[u] = status[u]
         /\ status'[t] = "applying"
    BY <2>9, BeginsFacts DEF QueueInv
  <2>11. /\ \A u \in Transactions : SurfacesOf(u)' = SurfacesOf(u)
         /\ \A u \in Transactions : Committed(u)' = Committed(u)
    BY <2>9, BeginsFacts DEF QueueInv
  <2>12. Ends' /\ AtEnds' /\ Outside' /\ Neighbours' /\ Counted' /\ OneEntryEach'
    BY <2>9, BeginsKeepsQueues DEF QueueInv
  <2>13. Children' /\ Subtrees' /\ Building'
    <3>1. \A k \in DOMAIN <<a>> : <<a>>[k].op \notin BuildOps
      BY <2>2 DEF BuildOps
    <3>2. ASSUME NEW u \in Transactions, NEW i \in DOMAIN entries'[u]
          PROVE  \E k \in DOMAIN entries[u] :
                    /\ entries'[u][i].surface = entries[u][k].surface
                    /\ entries'[u][i].state = entries[u][k].state
      <4>1. CASE u = t
        BY <2>10, <3>2, <4>1
      <4>2. CASE u # t
        BY <2>10, <3>2, <4>2
      <4> QED BY <4>1, <4>2
    <3>3. \A u \in Transactions : status[u] = "pending" <=> status'[u] = "pending"
      BY <1>5, <2>10
    <3>4. Head(stack).op \in TryOps
      BY <1>1 DEF TryOps
    <3> QED
      BY <1>1, <2>3, <2>5, <2>11, <3>1, <3>2, <3>3, <3>4, TriesKeepTrees DEF QueueInv
  <2>14. Sorted'
    <3> SUFFICES ASSUME NEW u \in Transactions, status'[u] = "applying",
                        NEW i \in DOMAIN entries'[u], NEW j \in DOMAIN entries'[u],
                        NEW x, x = entries'[u][i].surface,
                        NEW y, y = entries'[u][j].surface,
                        life'[x] # "dead", life'[y] # "dead", sub'[x], parent'[x] = y
                 PROVE  i < j
      BY DEF Sorted
    <3>1. CASE u # t
      <4>1. /\ entries'[u] = entries[u] /\ status'[u] = status[u]
            /\ life' = life /\ sub' = sub /\ parent' = parent
        BY <2>3, <2>10, <3>1
      <4> QED BY <4>1 DEF QueueInv, Settled, Sorted
    <3>2. CASE u = t
      <4>1. PICK es : es = [k \in DOMAIN entries[t] |-> entries[t][p[k]]]
        OBVIOUS
      <4>2. /\ DescendantsFirst(es) /\ DOMAIN es = DOMAIN entries[t]
            /\ \A k \in DOMAIN es : es[k] = entries'[t][k]
        BY <2>4, <2>10, <4>1
      <4>3. i \in DOMAIN es /\ j \in DOMAIN es /\ es[i].surface = x /\ es[j].surface = y
        BY <2>10, <3>2, <4>2
      <4>4. x \in Surfaces /\ y \in Surfaces
        <5>1. \A k \in DOMAIN entries[t] : entries[t][k].surface \in Surfaces
          BY <1>1, EntryFields
        <5>2. i \in DOMAIN entries[t] /\ j \in DOMAIN entries[t]
          BY <2>10, <3>2
        <5>3. p[i] \in DOMAIN entries[t] /\ p[j] \in DOMAIN entries[t]
          BY <2>10, <5>2
        <5>4. entries'[t][i] = entries[t][p[i]] /\ entries'[t][j] = entries[t][p[j]]
          BY <2>10, <5>2
        <5>5. x = entries[t][p[i]].surface /\ y = entries[t][p[j]].surface
          BY <3>2, <5>4
        <5> QED BY <5>1, <5>3, <5>5
      <4>5. sub[x] /\ parent[x] = y
        BY <2>3
      <4>6. y \in Path(x)
        <5>1. Up(x) = y /\ y # None
          BY <4>4, <4>5, ConstantsAssumption DEF Up
        <5> QED BY <4>4, <5>1 DEF Path
      <4>7. y # x
        <5>1. InitialParent[x] = y
          BY <4>4, <4>5, ConstantsAssumption DEF QueueInv, Settled, Children
        <5>2. InitialParent[x] \notin {x}
          BY <4>4, ForestAssumption
        <5> QED BY <5>1, <5>2
      <4>8. y \in Ancestors(x)
        BY <4>6, <4>7 DEF Ancestors
      <4>9. es[j].surface \in Ancestors(es[i].surface) => i < j
        BY <4>2, <4>3 DEF DescendantsFirst
      <4> QED BY <4>3, <4>8, <4>9
    <3> QED BY <3>1, <3>2
  <2>15. Settled'
    BY <2>12, <2>13, <2>14 DEF Settled
  <2>16. OuterSame(U)
    <3>1. ASSUME NEW u \in U
          PROVE  /\ status'[u] = "applying"
                 /\ SurfacesOf(u)' = SurfacesOf(u)
                 /\ \A x \in Surfaces : Open(u, x)' => Open(u, x)
      <4>1. u \in Transactions /\ u # t /\ status[u] = "applying"
        BY <1>6
      <4>2. Left(u)' = Left(u) /\ entries'[u] = entries[u] /\ life' = life
        BY <2>9, <2>10, <4>1 DEF Begins
      <4>3. \A x \in Surfaces : Open(u, x)' => Open(u, x)
        BY <4>2 DEF Open
      <4> QED BY <2>10, <2>11, <4>1, <4>3
    <3> QED BY <2>3, <3>1 DEF OuterSame
  <2>17. Fits(a, U, O)'
    <3>1. NestedIn(a, U, O)'
      BY <1>5, <1>6, <2>2, <2>10, CallersFacts DEF NestedIn, TryOps, ApplyCalls
    <3>2. ASSUME NEW u \in U, NEW x \in Surfaces, Open(u, x)'
          PROVE  /\ x \notin SurfacesOf(t)'
                 /\ Rooted(u, x)' => SurfacesOf(t)' \subseteq Below(x)
      <4>1. Open(u, x) /\ u \in Transactions /\ status[u] = "applying"
        BY <1>6, <2>16, <3>2 DEF OuterSame
      <4>2. x \notin SurfacesOf(t)
        BY <1>5, <2>6, <2>9, <4>1, NothingShared DEF QueueInv, Begins
      <4>3. ASSUME Rooted(u, x)' PROVE SurfacesOf(t) \subseteq Below(x)
        <5>1. Rooted(u, x)
          BY <2>16, <4>3 DEF OuterSame, Rooted
        <5>2. SurfacesOf(t) \cap Below(x) # {}
          BY <1>1, <1>2, <1>5, <4>1, <5>1 DEF InsideOf
        <5>3. PICK c \in Surfaces : Rooted(t, c)
          BY <1>5 DEF QueueInv, Settled, Subtrees, Committed
        <5>4. SurfacesOf(t) \subseteq Surfaces
          BY <1>1, EntryFields DEF SurfacesOf
        <5> QED BY <4>2, <5>2, <5>3, <5>4, SubtreeBelow DEF Rooted
      <4> QED BY <2>11, <4>2, <4>3
    <3>3. InsideOf(a, U)'
      BY <2>2, <3>2 DEF InsideOf, ApplyCalls
    <3> QED BY <3>1, <3>3 DEF Fits
  <2>18. \A u \in Transactions : status'[u] = "applying" => u \in Txs(a) \cup U
    BY <1>7, <2>2, <2>10 DEF Txs, ApplyCalls
  <2> QED BY <1>1, <1>3, <1>4, <2>5, <2>15, <2>16, <2>17, <2>18, OneFrameFits DEF QueueInv
<1> QED BY <1>8, <1>9

------------------------------------------------------------------------------
(* The second loop of apply()                                               *)

LEMMA QueuedIsWhole ==
    ASSUME TypeOK, Nesting, NEW t \in Transactions, status[t] = "queued"
    PROVE  Left(t) = DOMAIN entries[t]
<1>1. ASSUME NEW d \in Calls, d.op = "unlink" PROVE d.tx # t
  <2>1. PICK k \in DOMAIN stack : stack[k] = d
    BY DEF Calls
  <2>2. status[d.tx] = "applying"
    BY <1>1, <2>1 DEF Nesting, NestedIn, ApplyCalls
  <2> QED BY <2>2
<1> QED BY <1>1 DEF Left

\* What is known of the transaction that is taken out of the queues.
LEMMA UnlinkFacts ==
    ASSUME QueueInv, Running("unlink"), NEW h, h = Head(stack),
           NEW t, t = h.tx, NEW i, i = h.index, NEW U, U = Outer(stack, 1)
    PROVE  /\ stack # <<>> /\ h \in CallType /\ h.op = "unlink" /\ h \in Calls
           /\ t \in Transactions /\ i \in Nat \ {0}
           /\ status[t] = "applying" /\ Committed(t) /\ t \notin U
           /\ OuterOps(stack, 1) \subseteq CallersOf("unlink") /\ InsideOf(h, U)
           /\ \A u \in U : u \in Transactions /\ status[u] = "applying" /\ u # t
           /\ \A u \in Transactions : status[u] = "applying" => u \in {t} \cup U
           /\ \A d \in Calls : d.op = "unlink" /\ d.tx = t => d = h
           /\ \A m \in DOMAIN stack :
                 m > 1 /\ stack[m].op = "unlink" => stack[m].tx # t
           /\ Left(t) = {k \in DOMAIN entries[t] : i <= k}
           /\ \A k \in DOMAIN entries[t] : entries[t][k].prev = None
           /\ ~SelfWaiting(t)
           /\ \A u \in Transactions : Committed(u) =>
                 \A k \in Left(u) : entries[u][k].next # t
<1> USE DEF QueueInv
<1>1. /\ stack # <<>> /\ h \in CallType /\ h.op = "unlink" /\ h \in Calls
      /\ t \in Transactions /\ i \in Nat \ {0} /\ TypeOK
  BY RunningCall, CallFields, CallPlaces DEF Settled
<1>2. /\ status[t] = "applying" /\ t \notin U
      /\ OuterOps(stack, 1) \subseteq CallersOf("unlink") /\ InsideOf(h, U)
  BY <1>1, CallPlaces DEF Nesting, NestedIn, Inside, ApplyCalls
<1>3. Committed(t)
  BY <1>2 DEF Committed
<1>4. \A u \in U : u \in Transactions /\ status[u] = "applying" /\ u # t
  BY <1>1, <1>2, OuterApplying
<1>5. \A u \in Transactions : status[u] = "applying" => u \in {t} \cup U
  BY <1>1, OuterApplying
<1>6. \A m \in DOMAIN stack : m > 1 /\ stack[m].op = "unlink" => stack[m].tx # t
  BY <1>1, <1>4, FurtherOut DEF ApplyCalls
<1>7. \A d \in Calls : d.op = "unlink" /\ d.tx = t => d = h
  BY <1>1, <1>6, CallPlaces
<1>8. Left(t) = {k \in DOMAIN entries[t] : i <= k}
  BY <1>1, <1>7 DEF Left
<1>9. \A k \in DOMAIN entries[t] : entries[t][k].prev = None
  BY <1>1, <1>2 DEF Settled, Neighbours
<1>10. ~SelfWaiting(t)
  <2>1. t # None
    BY <1>1, ConstantsAssumption
  <2> QED BY <1>9, <2>1 DEF SelfWaiting
<1>11. \A u \in Transactions : Committed(u) =>
          \A k \in Left(u) : entries[u][k].next # t
  <2>1. t # None
    BY <1>1, ConstantsAssumption
  <2> QED BY <1>2, <2>1 DEF Settled, Neighbours
<1>12. /\ stack # <<>> /\ h \in CallType /\ h.op = "unlink" /\ h \in Calls
       /\ t \in Transactions /\ i \in Nat \ {0}
       /\ status[t] = "applying" /\ Committed(t) /\ t \notin U
  BY <1>1, <1>2, <1>3
<1>13. OuterOps(stack, 1) \subseteq CallersOf("unlink") /\ InsideOf(h, U)
  BY <1>2
<1> QED
  BY <1>4, <1>5, <1>6, <1>7, <1>8, <1>9, <1>10, <1>11, <1>12, <1>13

\* What apply() has yet to do for the other transactions stays as it was.
LEMMA LeftElsewhere ==
    ASSUME TypeOK, stack # <<>>, NEW t, Head(stack).op = "unlink", Head(stack).tx = t,
           NEW cs, Replaced(stack, cs, stack'),
           \A k \in DOMAIN cs : cs[k].op = "unlink" => cs[k].tx = t,
           NEW u, u # t, DOMAIN entries'[u] = DOMAIN entries[u]
    PROVE  Left(u)' = Left(u)
<1>1. \A d : d.op = "unlink" /\ d.tx = u => (d \in Calls <=> d \in Calls')
  <2>1. \A d \in Calls : d.op = "unlink" /\ d.tx = u => d \in Calls'
    BY CallsAfter
  <2>2. \A d \in Calls' : d.op = "unlink" /\ d.tx = u => d \in Calls
    BY CallsAfter DEF Calls
  <2> QED BY <2>1, <2>2
<1> QED BY <1>1 DEF Left

\* The end of apply(): the transaction is deleted.
LEMMA DeletedKeepsQueues ==
    ASSUME Settled, TypeOK', NEW t \in Transactions,
           status[t] = "applying", ~SelfWaiting(t), Left(t) = {},
           \A u \in Transactions : Committed(u) =>
              \A k \in Left(u) : entries[u][k].next # t,
           entries' = [entries EXCEPT ![t] = <<>>],
           status' = [status EXCEPT ![t] = "free"],
           UNCHANGED <<life, first, last>>,
           \A u \in Transactions \ {t} : Left(u)' = Left(u)
    PROVE  Ends' /\ AtEnds' /\ Outside' /\ Neighbours' /\ Counted' /\ OneEntryEach'
<1> USE DEF Settled
<1>0. \A u \in Transactions : u # None
  BY ConstantsAssumption
<1>1. /\ entries'[t] = <<>> /\ status'[t] = "free"
      /\ \A u \in Transactions \ {t} : entries'[u] = entries[u] /\ status'[u] = status[u]
  BY DEF TypeOK
<1>2. Committed(t) /\ ~Committed(t)'
  BY <1>1 DEF Committed
<1>3. \A u \in Transactions \ {t} :
         /\ Committed(u)' <=> Committed(u)
         /\ SurfacesOf(u)' = SurfacesOf(u)
         /\ SelfWaiting(u)' <=> SelfWaiting(u)
  BY <1>1 DEF Committed, SurfacesOf, SelfWaiting
<1>4. \A n \in Transactions : Prevs(n, t) = {}
  <2> SUFFICES ASSUME NEW n \in Transactions PROVE Prevs(n, t) = {}
    OBVIOUS
  <2>1. Nexts(t, n) = {}
    BY DEF Nexts
  <2>2. Cardinality(Prevs(n, t)) = 0
    <3>1. Cardinality(Prevs(n, t)) = Cardinality(Nexts(t, n))
      BY <1>2 DEF Counted
    <3>2. Cardinality({}) = 0
      BY FS_EmptySet
    <3> QED BY <2>1, <3>1, <3>2
  <2>3. IsFiniteSet(Prevs(n, t))
    <3>1. IsFiniteSet(DOMAIN entries[n])
      BY EntriesFinite
    <3> QED BY <3>1, FS_Subset DEF Prevs
  <2> QED BY <2>2, <2>3, FS_EmptySet
<1>5. ASSUME NEW u \in Transactions \ {t}, NEW s \in Surfaces
      PROVE  /\ OnQueue(u, s)' <=> OnQueue(u, s)
             /\ \A w \in Transactions : Behind(w, u, s)' <=> Behind(w, u, s)
  BY <1>1, <1>3 DEF OnQueue, Behind
<1>6. ASSUME NEW s \in Surfaces
      PROVE  /\ ~OnQueue(t, s) /\ ~OnQueue(t, s)'
             /\ \A w \in Transactions : ~Behind(w, t, s) /\ ~Behind(w, t, s)'
  BY <1>2 DEF OnQueue, Behind
<1>7. Ends'
  <2> SUFFICES ASSUME NEW s \in Surfaces
      PROVE /\ first'[s] = None <=> last'[s] = None
            /\ life'[s] = "dead" => first'[s] = None
            /\ first'[s] # None => OnQueue(first[s], s)'
            /\ last'[s] # None =>
                  /\ OnQueue(last[s], s)'
                  /\ \A j \in Left(last[s])' :
                        entries'[last'[s]][j].surface = s
                           => entries'[last'[s]][j].next \in {None, last'[s]}
    BY DEF Ends
  <2>1. PICK f \in Transactions \cup {None}, l \in Transactions \cup {None} :
           f = first[s] /\ l = last[s]
    BY DEF TypeOK
  <2>2. f # t /\ l # t
    BY <1>0, <1>6, <2>1 DEF Ends
  <2>3. (f # None => OnQueue(f, s)') /\ (l # None => OnQueue(l, s)')
    BY <1>5, <2>1, <2>2 DEF Ends
  <2>4. l # None => \A j \in Left(l)' :
           entries'[l][j].surface = s => entries'[l][j].next \in {None, l}
    BY <1>1, <2>1, <2>2 DEF Ends
  <2> QED BY <2>1, <2>3, <2>4 DEF Ends
<1>8. AtEnds'
  <2> SUFFICES ASSUME NEW u \in Transactions, Committed(u)'
      PROVE /\ \A j \in Left(u)' :
                  /\ life'[entries'[u][j].surface] # "dead"
                  /\ entries'[u][j].next = None
                  => last'[entries'[u][j].surface] = u
            /\ \A s \in Surfaces :
                  /\ life'[s] # "dead"
                  /\ OnQueue(u, s)'
                  /\ \A w \in Transactions \ {u} : ~Behind(u, w, s)'
                  => first'[s] = u
    BY DEF AtEnds
  <2>1. u # t /\ Committed(u)
    BY <1>2, <1>3
  <2>2. \A j \in Left(u)' :
           /\ life'[entries'[u][j].surface] # "dead"
           /\ entries'[u][j].next = None
           => last'[entries'[u][j].surface] = u
    BY <1>1, <2>1 DEF AtEnds
  <2>3. ASSUME NEW s \in Surfaces, life'[s] # "dead", OnQueue(u, s)',
               \A w \in Transactions \ {u} : ~Behind(u, w, s)'
        PROVE  first'[s] = u
    <3>1. OnQueue(u, s)
      BY <1>5, <2>1, <2>3
    <3>2. \A w \in Transactions \ {u} : ~Behind(u, w, s)
      BY <1>5, <1>6, <2>3
    <3> QED BY <2>1, <2>3, <3>1, <3>2 DEF AtEnds
  <2> QED BY <2>2, <2>3
<1>9. Outside'
  BY <1>1, <1>3 DEF Outside
<1>10. Neighbours'
  <2> SUFFICES ASSUME NEW u \in Transactions
      PROVE /\ Committed(u)' =>
                  \A j \in Left(u)' : entries'[u][j].next # None =>
                     /\ status'[entries'[u][j].next] = "queued"
                     /\ entries'[u][j].surface \in SurfacesOf(entries[u][j].next)'
                     /\ Prevs(entries[u][j].next, u)' # {}
            /\ \A i \in DOMAIN entries'[u] :
                  entries'[u][i].prev # None => Committed(entries[u][i].prev)'
            /\ status'[u] = "applying" =>
                  \A i \in DOMAIN entries'[u] : entries'[u][i].prev = None
    BY DEF Neighbours
  <2>1. CASE u = t
    BY <1>1, <1>2, <2>1
  <2>2. CASE u # t
    <3>0. entries'[u] = entries[u] /\ status'[u] = status[u] /\ Left(u)' = Left(u)
      BY <1>1, <2>2
    <3>1. ASSUME Committed(u)', NEW j \in Left(u)', entries'[u][j].next # None
          PROVE  /\ status'[entries'[u][j].next] = "queued"
                 /\ entries'[u][j].surface \in SurfacesOf(entries[u][j].next)'
                 /\ Prevs(entries[u][j].next, u)' # {}
      <4>1. Committed(u) /\ j \in Left(u) /\ j \in DOMAIN entries[u]
        BY <1>3, <2>2, <3>0, <3>1 DEF Left
      <4>2. PICK n : n = entries[u][j].next
        OBVIOUS
      <4>3. n \in Transactions /\ n # None
        BY <3>0, <3>1, <4>1, <4>2, EntryFields
      <4>4. n # t
        BY <4>1, <4>2
      <4>5. /\ status[n] = "queued" /\ entries[u][j].surface \in SurfacesOf(n)
            /\ Prevs(n, u) # {}
        BY <4>1, <4>2, <4>3 DEF Neighbours
      <4>6. Prevs(n, u)' = Prevs(n, u)
        BY <1>1, <4>3, <4>4 DEF Prevs
      <4>7. status'[n] = "queued" /\ SurfacesOf(n)' = SurfacesOf(n)
        BY <1>1, <1>3, <4>3, <4>4, <4>5
      <4> QED BY <3>0, <4>2, <4>5, <4>6, <4>7
    <3>2. ASSUME NEW i \in DOMAIN entries'[u], entries'[u][i].prev # None
          PROVE  Committed(entries[u][i].prev)'
      <4>1. PICK w : w = entries[u][i].prev
        OBVIOUS
      <4>2. w \in Transactions /\ Committed(w)
        BY <3>0, <3>2, <4>1, EntryFields DEF Neighbours
      <4>3. w # t
        BY <1>4, <3>0, <3>2, <4>1 DEF Prevs
      <4>4. Committed(w)'
        BY <1>3, <4>2, <4>3
      <4> QED BY <4>1, <4>4
    <3>3. status'[u] = "applying" =>
             \A i \in DOMAIN entries'[u] : entries'[u][i].prev = None
      BY <3>0 DEF Neighbours
    <3> QED BY <3>1, <3>2, <3>3
  <2> QED BY <2>1, <2>2
<1>11. Counted'
  <2> SUFFICES ASSUME NEW u \in Transactions, NEW n \in Transactions,
                      Committed(u)', ~SelfWaiting(u)'
               PROVE  Cardinality(Prevs(n, u))' = Cardinality(Nexts(u, n))'
    BY DEF Counted
  <2>1. u # t /\ Committed(u) /\ ~SelfWaiting(u)
    BY <1>2, <1>3
  <2>2. Nexts(u, n)' = Nexts(u, n)
    BY <1>1, <2>1 DEF Nexts
  <2>3. CASE n # t
    <3>1. Prevs(n, u)' = Prevs(n, u)
      BY <1>1, <2>3 DEF Prevs
    <3> QED BY <2>1, <2>2, <3>1 DEF Counted
  <2>4. CASE n = t
    <3>1. Prevs(n, u)' = {}
      BY <1>1, <2>4 DEF Prevs
    <3>2. Nexts(u, n)' = {}
      BY <2>1, <2>2, <2>4 DEF Nexts
    <3> QED BY <3>1, <3>2
  <2> QED BY <2>3, <2>4
<1>12. OneEntryEach'
  BY <1>1, <1>2, <1>3 DEF OneEntryEach
<1> QED BY <1>7, <1>8, <1>9, <1>10, <1>11, <1>12

LEMMA UnlinkEndKeeps ==
    ASSUME QueueInv, TypeOK', Unlink, Head(stack).index > Len(entries[Head(stack).tx])
    PROVE  QueueInv'
<1>1. Running("unlink") /\ TypeOK /\ Nesting /\ Inside
  BY DEF Unlink, QueueInv, Settled
<1>2. PICK h, t, i, U : /\ h = Head(stack) /\ t = h.tx /\ i = h.index
                        /\ U = Outer(stack, 1)
  OBVIOUS
<1>3. /\ stack # <<>> /\ h \in CallType /\ h.op = "unlink" /\ h \in Calls
      /\ t \in Transactions /\ i \in Nat \ {0}
      /\ status[t] = "applying" /\ Committed(t) /\ t \notin U
      /\ \A u \in U : u \in Transactions /\ status[u] = "applying" /\ u # t
      /\ \A u \in Transactions : status[u] = "applying" => u \in {t} \cup U
  BY <1>1, <1>2, UnlinkFacts
<1>4. /\ Left(t) = {k \in DOMAIN entries[t] : i <= k}
      /\ ~SelfWaiting(t)
      /\ \A u \in Transactions : Committed(u) =>
            \A k \in Left(u) : entries[u][k].next # t
  BY <1>1, <1>2, UnlinkFacts
<1>5. Left(t) = {}
  <2>1. \A k \in DOMAIN entries[t] : k \in Nat /\ k <= Len(entries[t]) /\ Len(entries[t]) \in Nat
    BY <1>1, <1>3, EntryFields
  <2>2. i > Len(entries[t])
    BY <1>2
  <2> QED BY <1>3, <1>4, <2>1, <2>2
<1>6. PICK cs : cs = <<>>
  OBVIOUS
<1>7. /\ entries' = [entries EXCEPT ![t] = <<>>]
      /\ status' = [status EXCEPT ![t] = "free"]
      /\ ReturnVia(cs)
      /\ UNCHANGED <<life, clientGone, sub, parent, children, cached, current,
                     first, last>>
  BY <1>2, <1>6 DEF Unlink, tree, shown
<1>8. Replaced(stack, cs, stack') /\ DOMAIN cs = {}
  <2>1. cs \in Seq(CallType) /\ DOMAIN cs = {}
    BY <1>6, EmptySeq
  <2> QED BY <1>1, <1>3, <1>7, <2>1, ReturnReplaces
<1>9. /\ entries'[t] = <<>> /\ status'[t] = "free"
      /\ \A u \in Transactions \ {t} : entries'[u] = entries[u] /\ status'[u] = status[u]
  BY <1>1, <1>3, <1>7 DEF TypeOK
<1>10. \A u \in Transactions \ {t} : Left(u)' = Left(u)
  BY <1>1, <1>2, <1>3, <1>8, <1>9, LeftElsewhere
<1>11. Ends' /\ AtEnds' /\ Outside' /\ Neighbours' /\ Counted' /\ OneEntryEach'
  BY <1>3, <1>4, <1>5, <1>7, <1>10, DeletedKeepsQueues DEF QueueInv
<1>12. Children' /\ Subtrees' /\ Building'
  <2>1. ASSUME NEW u \in Transactions
        PROVE  /\ status[u] = "pending" <=> status'[u] = "pending"
               /\ Committed(u)' => Committed(u)
               /\ Committed(u)' \/ status[u] = "pending" =>
                     SurfacesOf(u)' = SurfacesOf(u)
               /\ \A k \in DOMAIN entries'[u] : \E l \in DOMAIN entries[u] :
                     /\ entries'[u][k].surface = entries[u][l].surface
                     /\ entries'[u][k].state = entries[u][l].state
    <3>1. CASE u = t
      BY <1>3, <1>9, <3>1 DEF Committed
    <3>2. CASE u # t
      BY <1>9, <3>2 DEF Committed, SurfacesOf
    <3> QED BY <3>1, <3>2
  <2>2. Head(stack).op \in TryOps
    BY <1>2, <1>3 DEF TryOps
  <2> QED BY <1>1, <1>3, <1>7, <1>8, <2>1, <2>2, TriesKeepTrees DEF QueueInv
<1>13. Sorted'
  BY <1>7, <1>9 DEF Sorted, QueueInv, Settled
<1>14. OuterSame(U)
  <2>1. ASSUME NEW u \in U
        PROVE  /\ status'[u] = "applying"
               /\ SurfacesOf(u)' = SurfacesOf(u)
               /\ \A x \in Surfaces : Open(u, x)' => Open(u, x)
    <3>1. u \in Transactions \ {t} /\ status[u] = "applying"
      BY <1>3
    <3>2. Left(u)' = Left(u) /\ entries'[u] = entries[u] /\ status'[u] = status[u]
      BY <1>9, <1>10, <3>1
    <3> QED BY <1>7, <3>1, <3>2 DEF SurfacesOf, Open
  <2> QED BY <1>7, <2>1 DEF OuterSame
<1>15. \A u \in Transactions : status'[u] = "applying" => u \in U
  BY <1>3, <1>9
<1>16. Nesting' /\ Inside'
  BY <1>1, <1>2, <1>6, <1>8, <1>14, <1>15, NoFrameFits
<1> QED BY <1>11, <1>12, <1>13, <1>16 DEF QueueInv, Settled

\* The transaction t, which is being applied, leaves the queue of its entry i
\* for s to its successor n there.
Leaves(t, i, s, n) ==
    /\ status[t] = "applying" /\ ~SelfWaiting(t)
    /\ i \in Left(t) /\ s = entries[t][i].surface /\ n = entries[t][i].next
    /\ \A k \in DOMAIN entries[t] : entries[t][k].prev = None
    /\ UNCHANGED <<status, life>>
    /\ LeaveQueue(t, s, n)
    /\ \/ n = None /\ UNCHANGED entries
       \/ /\ n # None /\ Left(n) = DOMAIN entries[n]
          /\ \E j \in Prevs(n, t) : entries' = [entries EXCEPT ![n][j].prev = None]
    /\ Left(t)' = Left(t) \ {i}
    /\ \A u \in Transactions \ {t} : Left(u)' = Left(u)

LEMMA LeavesFacts ==
    ASSUME Settled, TypeOK', NEW t \in Transactions, NEW i, NEW s, NEW n,
           Leaves(t, i, s, n)
    PROVE  /\ Committed(t) /\ i \in DOMAIN entries[t] /\ s \in Surfaces
           /\ n \in Transactions \cup {None}
           /\ n # None => n # t /\ status[n] = "queued" /\ s \in SurfacesOf(n)
           /\ \A u \in Transactions : DOMAIN entries'[u] = DOMAIN entries[u]
           /\ \A u \in Transactions : \A k \in DOMAIN entries[u] :
                 /\ entries'[u][k].surface = entries[u][k].surface
                 /\ entries'[u][k].state = entries[u][k].state
                 /\ entries'[u][k].next = entries[u][k].next
           /\ \A u \in Transactions \ {n} : entries'[u] = entries[u]
           /\ n = None \/ \E j \in Prevs(n, t) : \A k \in DOMAIN entries[n] :
                 entries'[n][k].prev = IF k = j THEN None ELSE entries[n][k].prev
<1> USE DEF Settled
<1>1. Committed(t) /\ i \in DOMAIN entries[t]
  BY DEF Leaves, Committed, Left
<1>2. s \in Surfaces /\ n \in Transactions \cup {None}
  BY <1>1, EntryFields DEF Leaves
<1>3. n # None => n # t /\ status[n] = "queued" /\ s \in SurfacesOf(n)
  BY <1>1 DEF Leaves, Neighbours
<1>4. CASE n = None
  <2>1. entries' = entries
    BY <1>4 DEF Leaves
  <2> QED BY <1>1, <1>2, <1>3, <1>4, <2>1
<1>5. CASE n # None
  <2>1. PICK j \in Prevs(n, t) : entries' = [entries EXCEPT ![n][j].prev = None]
    BY <1>5 DEF Leaves
  <2>2. n \in Transactions /\ j \in DOMAIN entries[n]
    BY <1>2, <1>5 DEF Prevs
  <2>3. \A u \in Transactions \ {n} : entries'[u] = entries[u]
    BY <2>1, <2>2 DEF TypeOK
  <2>4. entries'[n] = [entries[n] EXCEPT ![j].prev = None]
    BY <2>1, <2>2 DEF TypeOK
  <2>5. DOMAIN entries'[n] = DOMAIN entries[n]
    BY <2>4
  <2>6. ASSUME NEW k \in DOMAIN entries[n]
        PROVE  /\ entries'[n][k].surface = entries[n][k].surface
               /\ entries'[n][k].state = entries[n][k].state
               /\ entries'[n][k].next = entries[n][k].next
               /\ entries'[n][k].prev = IF k = j THEN None ELSE entries[n][k].prev
    <3>1. entries[n][k] \in EntryType
      BY <2>2, EntryFields
    <3>2. CASE k = j
      <4>1. entries'[n][k] = [entries[n][k] EXCEPT !.prev = None]
        BY <2>4, <3>2
      <4> QED BY <3>1, <3>2, <4>1 DEF EntryType
    <3>3. CASE k # j
      <4>1. entries'[n][k] = entries[n][k]
        BY <2>4, <3>3
      <4> QED BY <3>3, <4>1
    <3> QED BY <3>2, <3>3
  <2>7. \A u \in Transactions : DOMAIN entries'[u] = DOMAIN entries[u]
    BY <2>3, <2>5
  <2>8. \A u \in Transactions : \A k \in DOMAIN entries[u] :
           /\ entries'[u][k].surface = entries[u][k].surface
           /\ entries'[u][k].state = entries[u][k].state
           /\ entries'[u][k].next = entries[u][k].next
    BY <2>3, <2>6
  <2>9. \E l \in Prevs(n, t) : \A k \in DOMAIN entries[n] :
           entries'[n][k].prev = IF k = l THEN None ELSE entries[n][k].prev
    BY <2>6
  <2> QED BY <1>1, <1>2, <1>3, <2>3, <2>7, <2>8, <2>9
<1> QED BY <1>4, <1>5

LEMMA LeavesKeepsQueues ==
    ASSUME Settled, TypeOK', NEW t \in Transactions, NEW i, NEW s, NEW n,
           Leaves(t, i, s, n)
    PROVE  Ends' /\ AtEnds' /\ Outside' /\ Neighbours' /\ Counted' /\ OneEntryEach'
<1>0. \A u \in Transactions : u # None
  BY ConstantsAssumption
<1>1. /\ Committed(t) /\ i \in DOMAIN entries[t] /\ s \in Surfaces
      /\ n \in Transactions \cup {None}
      /\ n # None => n # t /\ status[n] = "queued" /\ s \in SurfacesOf(n)
  BY LeavesFacts
<1>2. /\ \A u \in Transactions : DOMAIN entries'[u] = DOMAIN entries[u]
      /\ \A u \in Transactions : \A k \in DOMAIN entries[u] :
            /\ entries'[u][k].surface = entries[u][k].surface
            /\ entries'[u][k].next = entries[u][k].next
      /\ \A u \in Transactions \ {n} : entries'[u] = entries[u]
  BY LeavesFacts
<1>3. n = None \/ \E j \in Prevs(n, t) : \A k \in DOMAIN entries[n] :
         entries'[n][k].prev = IF k = j THEN None ELSE entries[n][k].prev
  BY LeavesFacts
<1>4. /\ i \in Left(t) /\ s = entries[t][i].surface /\ n = entries[t][i].next
      /\ status' = status /\ life' = life
      /\ Left(t)' = Left(t) \ {i}
      /\ \A u \in Transactions \ {t} : Left(u)' = Left(u)
      /\ ~SelfWaiting(t)
  BY DEF Leaves
<1> USE DEF Settled
<1>5. /\ \A u \in Transactions : Committed(u)' <=> Committed(u)
      /\ \A u \in Transactions : SurfacesOf(u)' = SurfacesOf(u)
      /\ \A u \in Transactions : Left(u)' \subseteq Left(u)
      /\ \A u \in Transactions : Left(u) \subseteq DOMAIN entries[u]
  <2>1. \A u \in Transactions : Committed(u)' <=> Committed(u)
    BY <1>4 DEF Committed
  <2>2. \A u \in Transactions : SurfacesOf(u)' = SurfacesOf(u)
    BY <1>2 DEF SurfacesOf
  <2>3. \A u \in Transactions : Left(u)' \subseteq Left(u)
    BY <1>4
  <2> QED BY <2>1, <2>2, <2>3 DEF Left
\* The predecessors only change for n and t.
<1>6. ASSUME NEW u \in Transactions, NEW w \in Transactions, ~(u = n /\ w = t)
      PROVE  Prevs(u, w)' = Prevs(u, w)
  <2>1. CASE u # n
    BY <1>2, <2>1 DEF Prevs
  <2>2. CASE u = n
    <3>1. n # None /\ w # t
      BY <1>0, <1>6, <2>2
    <3>2. PICK j \in Prevs(n, t) : \A k \in DOMAIN entries[n] :
             entries'[n][k].prev = IF k = j THEN None ELSE entries[n][k].prev
      BY <1>3, <3>1
    <3>3. entries[n][j].prev = t
      BY DEF Prevs
    <3>4. \A k \in DOMAIN entries[n] :
             entries'[n][k].prev = w <=> entries[n][k].prev = w
      BY <1>0, <3>1, <3>2, <3>3
    <3>5. DOMAIN entries'[n] = DOMAIN entries[n]
      BY <1>2, <2>2
    <3> QED BY <2>2, <3>4, <3>5 DEF Prevs
  <2> QED BY <2>1, <2>2
<1>7. \A u \in Transactions : \A k \in DOMAIN entries[u] :
         entries'[u][k].prev \in {None, entries[u][k].prev}
  <2> SUFFICES ASSUME NEW u \in Transactions, NEW k \in DOMAIN entries[u]
               PROVE  entries'[u][k].prev \in {None, entries[u][k].prev}
    OBVIOUS
  <2>1. CASE u # n
    BY <1>2, <2>1
  <2>2. CASE u = n
    BY <1>0, <1>3, <2>2
  <2> QED BY <2>1, <2>2
<1>8. \A u \in Transactions : SelfWaiting(u)' <=> SelfWaiting(u)
  <2>1. ASSUME NEW u \in Transactions
        PROVE  SelfWaiting(u)' <=> SelfWaiting(u)
    <3>1. Prevs(u, u)' = Prevs(u, u)
      BY <1>0, <1>1, <1>6
    <3>2. SelfWaiting(u) <=> Prevs(u, u) # {}
      BY DEF SelfWaiting, Prevs
    <3>3. SelfWaiting(u)' <=> Prevs(u, u)' # {}
      BY DEF SelfWaiting, Prevs
    <3> QED BY <3>1, <3>2, <3>3
  <2> QED BY <2>1
\* t has left the queue of s.
<1>9. ASSUME life[s] # "dead"
      PROVE  /\ \A k \in DOMAIN entries[t] : entries[t][k].surface = s => k = i
             /\ ~OnQueue(t, s)' /\ \A w \in Transactions : ~Behind(w, t, s)'
             /\ first[s] = t
             /\ last[s] = t <=> n = None
  <2>1. \A k \in DOMAIN entries[t] : entries[t][k].surface = s => k = i
    BY <1>1, <1>4, <1>9 DEF OneEntryEach
  <2>2. \A k \in Left(t)' : entries'[t][k].surface # s
    BY <1>2, <1>4, <1>5, <2>1
  <2>3. ~OnQueue(t, s)' /\ \A w \in Transactions : ~Behind(w, t, s)'
    BY <2>2 DEF OnQueue, Behind
  <2>4. OnQueue(t, s)
    BY <1>1, <1>4 DEF OnQueue
  <2>5. first[s] = t
    BY <1>1, <1>9, <2>4, InFront DEF Leaves
  <2>6. ASSUME last[s] = t PROVE n = None
    <3>1. n \in {None, t}
      BY <1>0, <1>1, <1>4, <2>6 DEF Ends
    <3> QED BY <1>0, <1>1, <3>1
  <2>7. n = None => last[s] = t
    BY <1>1, <1>4, <1>9 DEF AtEnds
  <2> QED BY <2>1, <2>3, <2>5, <2>6, <2>7
<1>10. ASSUME NEW x \in Surfaces, x # s \/ life[s] = "dead"
       PROVE  first'[x] = first[x] /\ last'[x] = last[x]
  <2>1. life[s] = "dead" => first' = first /\ last' = last
    BY <1>1 DEF Leaves, LeaveQueue
  <2>2. life[s] # "dead" => /\ \E v : first' = [first EXCEPT ![s] = v]
                            /\ last' = last \/ last' = [last EXCEPT ![s] = None]
    BY <1>1 DEF Leaves, LeaveQueue
  <2>3. first \in [Surfaces -> Transactions \cup {None}]
        /\ last \in [Surfaces -> Transactions \cup {None}]
    BY <1>1 DEF TypeOK
  <2>4. CASE life[s] = "dead"
    BY <2>1, <2>4
  <2>5. CASE life[s] # "dead"
    <3>1. x # s
      BY <1>10, <2>5
    <3> QED BY <2>2, <2>3, <2>5, <3>1
  <2> QED BY <2>4, <2>5
<1>11. ASSUME life[s] # "dead"
       PROVE  /\ n = None => first'[s] = None /\ last'[s] = None
              /\ n # None => first'[s] = n /\ last'[s] = last[s]
  BY <1>1, <1>9, <1>11 DEF Leaves, LeaveQueue, TypeOK
<1>12. ASSUME NEW u \in Transactions, NEW x \in Surfaces,
              u # t \/ (x # s /\ life[x] # "dead")
       PROVE  /\ OnQueue(u, x)' <=> OnQueue(u, x)
              /\ \A w \in Transactions : Behind(w, u, x)' <=> Behind(w, u, x)
  <2>1. CASE u # t
    <3>1. Left(u)' = Left(u)
      BY <1>4, <2>1
    <3> QED BY <1>2, <1>5, <3>1 DEF OnQueue, Behind
  <2>2. CASE u = t /\ x # s
    <3>1. \A k \in DOMAIN entries[t] : entries[t][k].surface = x =>
             (k \in Left(t)' <=> k \in Left(t))
      BY <1>4, <2>2
    <3>2. Left(t)' \subseteq DOMAIN entries[t] /\ Left(t) \subseteq DOMAIN entries[t]
      BY <1>5
    <3>3. \A k \in DOMAIN entries[t] :
             /\ entries'[t][k].surface = entries[t][k].surface
             /\ entries'[t][k].next = entries[t][k].next
      BY <1>2
    <3>4. Committed(t)' <=> Committed(t)
      BY <1>5
    <3> QED BY <2>2, <3>1, <3>2, <3>3, <3>4 DEF OnQueue, Behind
  <2> QED BY <1>12, <2>1, <2>2
<1>13. Ends'
  <2> SUFFICES ASSUME NEW x \in Surfaces
      PROVE /\ first'[x] = None <=> last'[x] = None
            /\ life'[x] = "dead" => first'[x] = None
            /\ first'[x] # None => OnQueue(first[x], x)'
            /\ last'[x] # None =>
                  /\ OnQueue(last[x], x)'
                  /\ \A j \in Left(last[x])' :
                        entries'[last'[x]][j].surface = x
                           => entries'[last'[x]][j].next \in {None, last'[x]}
    BY DEF Ends
  <2>1. PICK f \in Transactions \cup {None}, l \in Transactions \cup {None} :
           f = first[x] /\ l = last[x]
    BY DEF TypeOK
  <2>2. PICK g, m : g = first'[x] /\ m = last'[x]
    OBVIOUS
  <2>3. l # None => \A j \in Left(l)' :
           entries'[l][j].surface = x => entries'[l][j].next \in {None, l}
    <3> SUFFICES ASSUME l # None, NEW j \in Left(l)', entries'[l][j].surface = x
                 PROVE  entries'[l][j].next \in {None, l}
      OBVIOUS
    <3>1. j \in Left(l) /\ j \in DOMAIN entries[l]
      BY <1>5
    <3>2. entries[l][j].surface = x
      BY <1>2, <3>1
    <3>3. entries[l][j].next \in {None, l}
      BY <2>1, <3>1, <3>2 DEF Ends
    <3> QED BY <1>2, <3>1, <3>3
  <2>4. CASE x # s \/ life[s] = "dead"
    <3>1. g = f /\ m = l
      BY <1>10, <2>1, <2>2, <2>4
    <3>2. f # None => life[x] # "dead"
      BY <2>1 DEF Ends
    <3>3. l # None => life[x] # "dead"
      BY <2>1 DEF Ends
    <3>4. (f # None => OnQueue(f, x)') /\ (l # None => OnQueue(l, x)')
      BY <1>12, <2>1, <2>4, <3>2, <3>3 DEF Ends
    <3>5. (f = None <=> l = None) /\ (life'[x] = "dead" => f = None)
      BY <1>4, <2>1 DEF Ends
    <3> QED BY <2>2, <2>3, <3>1, <3>4, <3>5
  <2>5. CASE x = s /\ life[s] # "dead" /\ n = None
    BY <1>4, <1>11, <2>5
  <2>6. CASE x = s /\ life[s] # "dead" /\ n # None
    <3>1. g = n /\ m = l
      BY <1>11, <2>1, <2>2, <2>6
    <3>2. f = t /\ l # t
      BY <1>9, <2>1, <2>6
    <3>3. l # None
      BY <1>0, <2>1, <3>2 DEF Ends
    <3>4. OnQueue(l, x)'
      BY <1>12, <2>1, <3>2, <3>3 DEF Ends
    <3>5. OnQueue(n, x)'
      <4>1. OnQueue(n, x)
        BY <1>1, <2>6 DEF OnQueue, Committed, SurfacesOf, Leaves
      <4> QED BY <1>1, <1>12, <2>6, <4>1
    <3> QED BY <1>4, <2>2, <2>3, <2>6, <3>1, <3>3, <3>4, <3>5
  <2> QED BY <2>4, <2>5, <2>6
<1>14. AtEnds'
  <2> SUFFICES ASSUME NEW u \in Transactions, Committed(u)'
      PROVE /\ \A j \in Left(u)' :
                  /\ life'[entries'[u][j].surface] # "dead"
                  /\ entries'[u][j].next = None
                  => last'[entries'[u][j].surface] = u
            /\ \A x \in Surfaces :
                  /\ life'[x] # "dead"
                  /\ OnQueue(u, x)'
                  /\ \A w \in Transactions \ {u} : ~Behind(u, w, x)'
                  => first'[x] = u
    BY DEF AtEnds
  <2>1. ASSUME NEW j \in Left(u)', life'[entries'[u][j].surface] # "dead",
               entries'[u][j].next = None
        PROVE  last'[entries'[u][j].surface] = u
    <3>1. PICK x : x = entries[u][j].surface
      OBVIOUS
    <3>2. j \in Left(u) /\ j \in DOMAIN entries[u]
      BY <1>5
    <3>3. x \in Surfaces /\ x = entries'[u][j].surface /\ entries[u][j].next = None
      BY <1>2, <2>1, <3>1, <3>2, EntryFields
    <3>4. last[x] = u
      <4>1. Committed(u) /\ life[x] # "dead"
        BY <1>4, <1>5, <2>1, <3>3
      <4> QED BY <3>1, <3>2, <3>3, <4>1 DEF AtEnds
    <3>5. CASE x # s \/ life[s] = "dead"
      BY <1>10, <3>3, <3>4, <3>5
    <3>6. CASE x = s /\ life[s] # "dead"
      <4>1. u # t
        BY <1>4, <1>9, <2>1, <3>1, <3>2, <3>6
      <4>2. n # None
        BY <1>9, <3>4, <3>6, <4>1
      <4> QED BY <1>11, <3>3, <3>4, <3>6, <4>2
    <3> QED BY <3>5, <3>6
  <2>2. ASSUME NEW x \in Surfaces, life'[x] # "dead", OnQueue(u, x)',
               \A w \in Transactions \ {u} : ~Behind(u, w, x)'
        PROVE  first'[x] = u
    <3>1. CASE x # s
      <4>1. OnQueue(u, x) /\ \A w \in Transactions \ {u} : ~Behind(u, w, x)
        BY <1>4, <1>12, <2>2, <3>1
      <4>2. first[x] = u
        BY <1>4, <1>5, <2>2, <4>1 DEF AtEnds
      <4> QED BY <1>10, <3>1, <4>2
    <3>2. CASE x = s
      <4>0. life[s] # "dead"
        BY <1>4, <2>2, <3>2
      <4>1. u # t
        BY <1>9, <2>2, <3>2, <4>0
      <4>2. OnQueue(u, s)
        BY <1>12, <2>2, <3>2, <4>1
      <4>3. PICK w \in Transactions \ {u} : Behind(u, w, s)
        <5>1. Committed(u) /\ first[s] # u
          BY <1>5, <1>9, <4>0, <4>1
        <5> QED BY <1>1, <4>0, <4>2, <5>1 DEF AtEnds
      <4>4. w = t
        BY <1>12, <2>2, <3>2, <4>3
      <4>5. n = u
        BY <1>4, <1>5, <1>9, <4>0, <4>3, <4>4 DEF Behind
      <4> QED BY <1>0, <1>11, <3>2, <4>0, <4>5
    <3> QED BY <3>1, <3>2
  <2> QED BY <2>1, <2>2
<1>15. Outside'
  <2> SUFFICES ASSUME NEW u \in Transactions
      PROVE /\ status'[u] = "free" => entries'[u] = <<>>
            /\ ~Committed(u)' => \A k \in DOMAIN entries'[u] :
                  entries'[u][k].prev = None /\ entries'[u][k].next = None
    BY DEF Outside
  <2>1. CASE u = n
    <3>1. status'[u] = "queued"
      BY <1>0, <1>1, <1>4, <2>1
    <3> QED BY <3>1 DEF Committed
  <2>2. CASE u # n
    <3>1. entries'[u] = entries[u]
      BY <1>2, <2>2
    <3> QED BY <1>4, <1>5, <3>1 DEF Outside
  <2> QED BY <2>1, <2>2
<1>16. Counted'
  <2> SUFFICES ASSUME NEW u \in Transactions, NEW m \in Transactions,
                      Committed(u)', ~SelfWaiting(u)'
               PROVE  Cardinality(Prevs(m, u))' = Cardinality(Nexts(u, m))'
    BY DEF Counted
  <2>1. Cardinality(Prevs(m, u)) = Cardinality(Nexts(u, m))
    BY <1>5, <1>8 DEF Counted
  <2>2. CASE ~(u = t /\ m = n)
    <3>1. Prevs(m, u)' = Prevs(m, u)
      BY <1>6, <2>2
    <3>2. \A k \in DOMAIN entries[u] :
             entries[u][k].next = m => (k \in Left(u)' <=> k \in Left(u))
      BY <1>4, <2>2
    <3>3. Nexts(u, m)' = Nexts(u, m)
      BY <1>2, <1>5, <3>2 DEF Nexts
    <3> QED BY <2>1, <3>1, <3>3
  <2>3. CASE u = t /\ m = n
    <3>1. PICK j \in Prevs(n, t) : \A k \in DOMAIN entries[n] :
             entries'[n][k].prev = IF k = j THEN None ELSE entries[n][k].prev
      BY <1>0, <1>3, <2>3
    <3>2. PICK P, N : P = Prevs(n, t) /\ N = Nexts(t, n)
      OBVIOUS
    <3>3. Prevs(n, t)' = P \ {j}
      <4>1. DOMAIN entries'[n] = DOMAIN entries[n]
        BY <1>2, <2>3
      <4> QED BY <1>0, <3>1, <3>2, <4>1 DEF Prevs
    <3>4. Nexts(t, n)' = N \ {i}
      BY <1>2, <1>4, <1>5, <3>2 DEF Nexts
    <3>5. j \in P /\ i \in N
      BY <1>4, <3>2 DEF Nexts
    <3>6. IsFiniteSet(P) /\ IsFiniteSet(N)
      <4>1. P \subseteq DOMAIN entries[n] /\ N \subseteq DOMAIN entries[t]
        BY <1>5, <3>2 DEF Prevs, Nexts
      <4>2. IsFiniteSet(DOMAIN entries[n]) /\ IsFiniteSet(DOMAIN entries[t])
        BY <2>3, EntriesFinite
      <4> QED BY <4>1, <4>2, FS_Subset
    <3>7. Cardinality(P \ {j}) = Cardinality(P) - 1
      BY <3>5, <3>6, FS_RemoveElement
    <3>8. Cardinality(N \ {i}) = Cardinality(N) - 1
      BY <3>5, <3>6, FS_RemoveElement
    <3> QED BY <2>1, <2>3, <3>2, <3>3, <3>4, <3>7, <3>8
  <2> QED BY <2>2, <2>3
<1>17. Neighbours'
  <2> SUFFICES ASSUME NEW u \in Transactions
      PROVE /\ Committed(u)' =>
                  \A j \in Left(u)' : entries'[u][j].next # None =>
                     /\ status'[entries'[u][j].next] = "queued"
                     /\ entries'[u][j].surface \in SurfacesOf(entries[u][j].next)'
                     /\ Prevs(entries[u][j].next, u)' # {}
            /\ \A k \in DOMAIN entries'[u] :
                  entries'[u][k].prev # None => Committed(entries[u][k].prev)'
            /\ status'[u] = "applying" =>
                  \A k \in DOMAIN entries'[u] : entries'[u][k].prev = None
    BY DEF Neighbours
  <2>1. ASSUME Committed(u)', NEW j \in Left(u)', entries'[u][j].next # None
        PROVE  /\ status'[entries'[u][j].next] = "queued"
               /\ entries'[u][j].surface \in SurfacesOf(entries[u][j].next)'
               /\ Prevs(entries[u][j].next, u)' # {}
    <3>1. Committed(u) /\ j \in Left(u) /\ j \in DOMAIN entries[u]
      BY <1>5, <2>1
    <3>2. PICK m : m = entries[u][j].next
      OBVIOUS
    <3>3. /\ m = entries'[u][j].next /\ m # None /\ m \in Transactions
          /\ entries'[u][j].surface = entries[u][j].surface
      BY <1>2, <2>1, <3>1, <3>2, EntryFields
    <3>4. /\ status[m] = "queued" /\ entries[u][j].surface \in SurfacesOf(m)
          /\ Prevs(m, u) # {}
      BY <3>1, <3>2, <3>3 DEF Neighbours
    <3>5. status'[m] = "queued" /\ entries'[u][j].surface \in SurfacesOf(m)'
      BY <1>4, <1>5, <3>3, <3>4
    <3>6. Prevs(m, u)' # {}
      <4>1. CASE ~(m = n /\ u = t)
        BY <1>6, <3>3, <3>4, <4>1
      <4>2. CASE m = n /\ u = t
        <5>1. j \in Nexts(u, m)'
          BY <2>1, <3>3 DEF Nexts
        <5>2. Cardinality(Prevs(m, u))' = Cardinality(Nexts(u, m))'
          BY <1>4, <1>8, <1>16, <2>1, <3>3, <4>2 DEF Counted
        <5>3. PICK N : N = Nexts(u, m)'
          OBVIOUS
        <5>4. IsFiniteSet(N)
          <6>1. N \subseteq DOMAIN entries[u]
            BY <1>5, <5>3 DEF Nexts
          <6> QED BY <6>1, EntriesFinite, FS_Subset
        <5>5. Cardinality(N) # 0
          BY <5>1, <5>3, <5>4, FS_EmptySet
        <5>6. Cardinality({}) = 0
          BY FS_EmptySet
        <5> QED BY <5>2, <5>3, <5>5, <5>6
      <4> QED BY <4>1, <4>2
    <3> QED BY <3>2, <3>3, <3>5, <3>6
  <2>2. ASSUME NEW k \in DOMAIN entries'[u], entries'[u][k].prev # None
        PROVE  Committed(entries[u][k].prev)'
    <3>1. PICK w : w = entries'[u][k].prev
      OBVIOUS
    <3>2. k \in DOMAIN entries[u] /\ w # None /\ w = entries[u][k].prev
      BY <1>2, <1>7, <2>2, <3>1
    <3>3. w \in Transactions /\ Committed(w)
      BY <3>1, <3>2, EntryFields DEF Neighbours
    <3>4. Committed(w)'
      BY <1>5, <3>3
    <3> QED BY <3>1, <3>4
  <2>3. status'[u] = "applying" =>
           \A k \in DOMAIN entries'[u] : entries'[u][k].prev = None
    BY <1>2, <1>4, <1>7 DEF Neighbours
  <2> QED BY <2>1, <2>2, <2>3
<1>18. OneEntryEach'
  BY <1>2, <1>4, <1>5, <1>8 DEF OneEntryEach
<1> QED BY <1>13, <1>14, <1>15, <1>16, <1>17, <1>18

LEMMA OneThenTwo ==
    ASSUME NEW a, NEW b, NEW c
    PROVE  <<a>> \o <<b, c>> = <<a, b, c>>
<1>1. PICK x, y, z : x = <<a>> /\ y = <<b, c>> /\ z = <<a, b, c>>
  OBVIOUS
<1>2. PICK A : A = {a, b, c}
  OBVIOUS
<1>3. x \in Seq(A) /\ y \in Seq(A) /\ z \in Seq(A)
  BY <1>1, <1>2
<1>4. Len(x) = 1 /\ x[1] = a /\ Len(y) = 2 /\ y[1] = b /\ y[2] = c
  BY <1>1
<1>5. Len(z) = 3 /\ z[1] = a /\ z[2] = b /\ z[3] = c
  BY <1>1
<1>6. /\ x \o y \in Seq(A) /\ Len(x \o y) = Len(x) + Len(y)
      /\ \A i \in 1..Len(x \o y) :
            (x \o y)[i] = IF i <= Len(x) THEN x[i] ELSE y[i - Len(x)]
  BY <1>3, ConcatProperties
<1>7. Len(x \o y) = 3 /\ (x \o y)[1] = a /\ (x \o y)[2] = b /\ (x \o y)[3] = c
  BY <1>4, <1>6
<1>8. Len(x \o y) = Len(z) /\ \A i \in 1..Len(x \o y) : (x \o y)[i] = z[i]
  BY <1>5, <1>7
<1>9. x \o y = z
  BY <1>3, <1>6, <1>8, SeqEqual
<1> QED BY <1>1, <1>9

\* An entry of the transaction that is being applied leaves the queues.
LEMMA UnlinkLeaves ==
    ASSUME QueueInv, TypeOK', Unlink, ~(Head(stack).index > Len(entries[Head(stack).tx]))
    PROVE  \E t, i, s, n, a, b, c, cs :
              /\ t = Head(stack).tx /\ i = Head(stack).index
              /\ s = entries[t][i].surface /\ n = entries[t][i].next
              /\ Leaves(t, i, s, n)
              /\ a = OnTx("tryApply", n) /\ b = OnSurfaces("tryChildren", {s})
              /\ c = OnEntry("unlink", t, i + 1)
              /\ Replaced(stack, cs, stack')
              /\ cs = IF n = None THEN <<b, c>> ELSE <<a, b, c>>
<1>1. Running("unlink") /\ TypeOK /\ Nesting /\ Inside
  BY DEF Unlink, QueueInv, Settled
<1>2. PICK h, t, i, U, O : /\ h = Head(stack) /\ t = h.tx /\ i = h.index
                           /\ U = Outer(stack, 1) /\ O = OuterOps(stack, 1)
  OBVIOUS
<1>3. /\ stack # <<>> /\ h \in CallType /\ h.op = "unlink" /\ h \in Calls
      /\ t \in Transactions /\ i \in Nat \ {0}
      /\ status[t] = "applying" /\ Committed(t) /\ t \notin U
      /\ O \subseteq CallersOf("unlink") /\ InsideOf(h, U)
  BY <1>1, <1>2, UnlinkFacts
<1>4. /\ \A u \in U : u \in Transactions /\ status[u] = "applying" /\ u # t
      /\ \A u \in Transactions : status[u] = "applying" => u \in {t} \cup U
      /\ \A m \in DOMAIN stack :
            m > 1 /\ stack[m].op = "unlink" => stack[m].tx # t
  BY <1>1, <1>2, UnlinkFacts
<1>5. /\ Left(t) = {k \in DOMAIN entries[t] : i <= k}
      /\ \A k \in DOMAIN entries[t] : entries[t][k].prev = None
      /\ ~SelfWaiting(t)
  BY <1>1, <1>2, UnlinkFacts
<1>6. PICK s, n : s = entries[t][i].surface /\ n = entries[t][i].next
  OBVIOUS
<1>7. i \in DOMAIN entries[t] /\ i \in Left(t)
  <2>1. /\ entries[t] \in Seq(EntryType) /\ Len(entries[t]) \in Nat
        /\ DOMAIN entries[t] = 1..Len(entries[t])
    BY <1>1, <1>3, LenProperties DEF TypeOK
  <2>2. i <= Len(entries[t])
    BY <1>2, <1>3, <2>1
  <2> QED BY <1>3, <1>5, <2>1, <2>2
<1>8. s \in Surfaces /\ n \in Transactions \cup {None} /\ s \in SurfacesOf(t)
  BY <1>1, <1>3, <1>6, <1>7, EntryFields DEF SurfacesOf
<1>9. n # None => n # t /\ status[n] = "queued" /\ s \in SurfacesOf(n) /\ Prevs(n, t) # {}
  BY <1>3, <1>6, <1>7 DEF QueueInv, Settled, Neighbours
<1>10. PICK a, b, c : /\ a = OnTx("tryApply", n)
                      /\ b = OnSurfaces("tryChildren", {s})
                      /\ c = OnEntry("unlink", t, i + 1)
  OBVIOUS
<1>11. /\ b \in CallType /\ b.op = "tryChildren" /\ b.todo = {s}
       /\ c \in CallType /\ c.op = "unlink" /\ c.tx = t /\ c.index = i + 1
       /\ a.op = "tryApply" /\ a.tx = n /\ (n # None => a \in CallType)
  BY <1>3, <1>8, <1>10, CallsTyped DEF OnSurfaces, OnEntry, OnTx, SurfaceCalls
\* What the iteration does.
<1>12. /\ LeaveQueue(t, s, n)
       /\ ReturnVia(CallOnTx("tryApply", n) \o <<b, c>>)
       /\ UNCHANGED <<status, life, clientGone, sub, parent, children, cached, current>>
  BY <1>2, <1>6, <1>10, ZenonT(60) DEF Unlink, tree, shown
<1>13. \/ n = None /\ UNCHANGED entries
       \/ /\ n # None
          /\ \E j \in Prevs(n, t) : entries' = [entries EXCEPT ![n][j].prev = None]
  <2> DEFINE tx == Head(stack).tx
             next == entries[tx][Head(stack).index].next
             blocked == IF next = None THEN {}
                        ELSE {j \in DOMAIN entries[next] : entries[next][j].prev = tx}
             least == CHOOSE k \in blocked : \A l \in blocked : k <= l
  <2>1. entries' = IF blocked = {} THEN entries
                   ELSE LET j == CHOOSE k \in blocked : \A l \in blocked : k <= l
                        IN  [entries EXCEPT ![next][j].prev = None]
    BY ZenonT(60) DEF Unlink
  <2>2. entries' = IF blocked = {} THEN entries
                   ELSE [entries EXCEPT ![next][least].prev = None]
    BY <2>1
  <2>3. tx = t /\ next = n
    BY <1>2, <1>6
  <2> HIDE DEF tx, next
  <2>4. CASE n = None
    BY <2>2, <2>3, <2>4
  <2>5. CASE n # None
    <3>1. blocked = Prevs(n, t) /\ blocked # {}
      BY <1>9, <2>3, <2>5 DEF Prevs
    <3>2. blocked \in SUBSET Nat
      <4>1. n \in Transactions
        BY <1>8, <2>5
      <4>2. \A k \in DOMAIN entries[n] : k \in Nat
        BY <1>1, <4>1, EntryFields
      <4> QED BY <3>1, <4>2 DEF Prevs
    <3>3. least \in blocked
      <4> HIDE DEF blocked
      <4> QED BY <3>1, <3>2, LeastPlace
    <3> HIDE DEF least
    <3>4. entries' = [entries EXCEPT ![n][least].prev = None]
      BY <2>2, <2>3, <3>1
    <3> QED BY <2>5, <3>1, <3>3, <3>4
  <2> QED BY <2>4, <2>5
<1>14. PICK cs : cs = CallOnTx("tryApply", n) \o <<b, c>>
  OBVIOUS
<1>15. cs = IF n = None THEN <<b, c>> ELSE <<a, b, c>>
  <2>1. CASE n = None
    <3>1. <<b, c>> \in Seq(CallType)
      BY <1>11
    <3>2. <<>> \o <<b, c>> = <<b, c>>
      BY <3>1, ConcatEmptySeq
    <3> QED BY <1>14, <2>1, <3>2 DEF CallOnTx
  <2>2. CASE n # None
    <3>1. <<a>> \o <<b, c>> = <<a, b, c>>
      BY OneThenTwo
    <3> QED BY <1>10, <1>14, <2>2, <3>1 DEF CallOnTx
  <2> QED BY <2>1, <2>2
<1>16. cs \in Seq(CallType)
  <2>1. CASE n = None
    BY <1>11, <1>15, <2>1
  <2>2. CASE n # None
    BY <1>11, <1>15, <2>2
  <2> QED BY <2>1, <2>2
<1>17. Replaced(stack, cs, stack')
  BY <1>1, <1>3, <1>12, <1>14, <1>16, ReturnReplaces
<1>18. /\ \A k \in DOMAIN cs : cs[k] \in {a, b, c}
       /\ \E k \in DOMAIN cs : cs[k] = c
  <2>1. CASE n = None
    BY <1>15, <2>1, TwoFrames
  <2>2. CASE n # None
    BY <1>15, <2>2, ThreeFrames
  <2> QED BY <2>1, <2>2
<1>19. \A u \in Transactions : DOMAIN entries'[u] = DOMAIN entries[u]
  <2>1. CASE n = None
    BY <1>13, <2>1
  <2>2. CASE n # None
    <3>1. PICK j : entries' = [entries EXCEPT ![n][j].prev = None]
      BY <1>13, <2>2
    <3>2. entries'[n] = [entries[n] EXCEPT ![j].prev = None]
      BY <1>1, <1>8, <2>2, <3>1 DEF TypeOK
    <3>3. \A u \in Transactions \ {n} : entries'[u] = entries[u]
      BY <1>1, <1>8, <3>1 DEF TypeOK
    <3> QED BY <3>2, <3>3
  <2> QED BY <2>1, <2>2
<1>20. \A u \in Transactions \ {t} : Left(u)' = Left(u)
  BY <1>1, <1>2, <1>3, <1>11, <1>17, <1>18, <1>19, LeftElsewhere
<1>21. Left(t)' = Left(t) \ {i}
  <2>1. \A d \in Calls' : d.op = "unlink" /\ d.tx = t => d = c
    BY <1>1, <1>4, <1>11, <1>17, <1>18, CallsAfter
  <2>2. c \in Calls'
    BY <1>1, <1>17, <1>18, CallsAfter
  <2>3. Left(t)' = {k \in DOMAIN entries[t] : i + 1 <= k}
    BY <1>3, <1>11, <1>19, <2>1, <2>2 DEF Left
  <2>4. \A k \in DOMAIN entries[t] : k \in Nat
    BY <1>1, <1>3, EntryFields
  <2> QED BY <1>3, <1>5, <2>3, <2>4
<1>22. Leaves(t, i, s, n)
  <2>1. n # None => Left(n) = DOMAIN entries[n]
    BY <1>1, <1>8, <1>9, QueuedIsWhole
  <2> QED BY <1>3, <1>5, <1>6, <1>7, <1>12, <1>13, <1>20, <1>21, <2>1 DEF Leaves
<1> QED BY <1>2, <1>6, <1>10, <1>15, <1>17, <1>22, Zenon

\* One iteration of the second loop of apply().
LEMMA UnlinkEntryKeeps ==
    ASSUME QueueInv, TypeOK', Unlink, ~(Head(stack).index > Len(entries[Head(stack).tx]))
    PROVE  QueueInv'
<1>1. Running("unlink") /\ TypeOK /\ Nesting /\ Inside
  BY DEF Unlink, QueueInv, Settled
<1>12. PICK t, i, s, n, a, b, c, cs :
          /\ t = Head(stack).tx /\ i = Head(stack).index
          /\ s = entries[t][i].surface /\ n = entries[t][i].next
          /\ Leaves(t, i, s, n)
          /\ a = OnTx("tryApply", n) /\ b = OnSurfaces("tryChildren", {s})
          /\ c = OnEntry("unlink", t, i + 1)
          /\ Replaced(stack, cs, stack')
          /\ cs = IF n = None THEN <<b, c>> ELSE <<a, b, c>>
  BY UnlinkLeaves, Zenon
<1>2. PICK h, U, O : /\ h = Head(stack) /\ t = h.tx /\ i = h.index
                     /\ U = Outer(stack, 1) /\ O = OuterOps(stack, 1)
  BY <1>12, Zenon
<1>3. /\ stack # <<>> /\ h \in CallType /\ h.op = "unlink" /\ h \in Calls
      /\ t \in Transactions /\ i \in Nat \ {0}
      /\ status[t] = "applying" /\ Committed(t) /\ t \notin U
      /\ O \subseteq CallersOf("unlink") /\ InsideOf(h, U)
  BY <1>1, <1>2, UnlinkFacts
<1>4. /\ \A u \in U : u \in Transactions /\ status[u] = "applying" /\ u # t
      /\ \A u \in Transactions : status[u] = "applying" => u \in {t} \cup U
      /\ \A m \in DOMAIN stack :
            m > 1 /\ stack[m].op = "unlink" => stack[m].tx # t
  BY <1>1, <1>2, UnlinkFacts
<1>5. /\ Left(t) = {k \in DOMAIN entries[t] : i <= k}
      /\ \A k \in DOMAIN entries[t] : entries[t][k].prev = None
      /\ ~SelfWaiting(t)
  BY <1>1, <1>2, UnlinkFacts
<1>6. s = entries[t][i].surface /\ n = entries[t][i].next
  BY <1>12, Zenon
<1>7. i \in DOMAIN entries[t] /\ i \in Left(t)
  <2>1. /\ entries[t] \in Seq(EntryType) /\ Len(entries[t]) \in Nat
        /\ DOMAIN entries[t] = 1..Len(entries[t])
    BY <1>1, <1>3, LenProperties DEF TypeOK
  <2>2. i <= Len(entries[t])
    BY <1>2, <1>3, <2>1
  <2> QED BY <1>3, <1>5, <2>1, <2>2
<1>8. s \in Surfaces /\ n \in Transactions \cup {None} /\ s \in SurfacesOf(t)
  BY <1>1, <1>3, <1>6, <1>7, EntryFields DEF SurfacesOf
<1>9. n # None => n # t /\ status[n] = "queued" /\ s \in SurfacesOf(n) /\ Prevs(n, t) # {}
  BY <1>3, <1>6, <1>7 DEF QueueInv, Settled, Neighbours
<1>10. /\ a = OnTx("tryApply", n) /\ b = OnSurfaces("tryChildren", {s})
       /\ c = OnEntry("unlink", t, i + 1)
  BY <1>12, Zenon
<1>11. /\ b \in CallType /\ b.op = "tryChildren" /\ b.todo = {s}
       /\ c \in CallType /\ c.op = "unlink" /\ c.tx = t /\ c.index = i + 1
       /\ a.op = "tryApply" /\ a.tx = n /\ (n # None => a \in CallType)
  BY <1>3, <1>8, <1>10, CallsTyped DEF OnSurfaces, OnEntry, OnTx, SurfaceCalls
<1>13. UNCHANGED <<status, life, clientGone, sub, parent, children, cached, current>>
  <2>1. Leaves(t, i, s, n)
    BY <1>12, Zenon
  <2> QED BY <2>1 DEF Leaves, Unlink, tree, shown
<1>15. cs = IF n = None THEN <<b, c>> ELSE <<a, b, c>>
  BY <1>12, Zenon
<1>17. Replaced(stack, cs, stack')
  BY <1>12, Zenon
<1>18. /\ \A k \in DOMAIN cs : cs[k] \in {a, b, c}
       /\ \E k \in DOMAIN cs : cs[k] = c
  <2>1. CASE n = None
    BY <1>15, <2>1, TwoFrames
  <2>2. CASE n # None
    BY <1>15, <2>2, ThreeFrames
  <2> QED BY <2>1, <2>2
<1>22. Leaves(t, i, s, n)
  BY <1>12, Zenon
<1>19. \A u \in Transactions : DOMAIN entries'[u] = DOMAIN entries[u]
  BY <1>3, <1>22, LeavesFacts DEF QueueInv
<1>20. \A u \in Transactions \ {t} : Left(u)' = Left(u)
  BY <1>22 DEF Leaves
<1>21. Left(t)' = Left(t) \ {i}
  BY <1>22 DEF Leaves
<1>23. Ends' /\ AtEnds' /\ Outside' /\ Neighbours' /\ Counted' /\ OneEntryEach'
  BY <1>3, <1>22, LeavesKeepsQueues DEF QueueInv
<1>24. \A u \in Transactions : \A k \in DOMAIN entries[u] :
          /\ entries'[u][k].surface = entries[u][k].surface
          /\ entries'[u][k].state = entries[u][k].state
  BY <1>3, <1>22, LeavesFacts DEF QueueInv
<1>25. /\ \A u \in Transactions : SurfacesOf(u)' = SurfacesOf(u)
       /\ \A u \in Transactions : Committed(u)' <=> Committed(u)
  BY <1>13, <1>19, <1>24 DEF SurfacesOf, Committed
<1>26. Children' /\ Subtrees' /\ Building'
  <2>1. \A k \in DOMAIN cs : cs[k].op \notin BuildOps
    BY <1>11, <1>18 DEF BuildOps
  <2>2. Head(stack).op \in TryOps
    BY <1>2, <1>3 DEF TryOps
  <2>3. \A u \in Transactions : status[u] = "pending" <=> status'[u] = "pending"
    BY <1>13
  <2>4. \A u \in Transactions : \A k \in DOMAIN entries'[u] : \E l \in DOMAIN entries[u] :
           /\ entries'[u][k].surface = entries[u][l].surface
           /\ entries'[u][k].state = entries[u][l].state
    BY <1>19, <1>24
  <2> QED
    BY <1>1, <1>3, <1>13, <1>17, <1>25, <2>1, <2>2, <2>3, <2>4, TriesKeepTrees DEF QueueInv
<1>27. Sorted'
  <2> SUFFICES ASSUME NEW u \in Transactions, status'[u] = "applying",
                      NEW k \in DOMAIN entries'[u], NEW l \in DOMAIN entries'[u],
                      NEW x, x = entries'[u][k].surface,
                      NEW y, y = entries'[u][l].surface,
                      life'[x] # "dead", life'[y] # "dead", sub'[x], parent'[x] = y
               PROVE  k < l
    BY DEF Sorted
  <2>1. /\ k \in DOMAIN entries[u] /\ l \in DOMAIN entries[u]
        /\ x = entries[u][k].surface /\ y = entries[u][l].surface
    BY <1>19, <1>24
  <2> QED BY <1>13, <2>1 DEF QueueInv, Settled, Sorted
<1>28. Settled'
  BY <1>23, <1>26, <1>27 DEF Settled
<1>29. OuterSame(U)
  <2>1. ASSUME NEW u \in U
        PROVE  /\ status'[u] = "applying"
               /\ SurfacesOf(u)' = SurfacesOf(u)
               /\ \A x \in Surfaces : Open(u, x)' => Open(u, x)
    <3>1. u \in Transactions \ {t} /\ status[u] = "applying"
      BY <1>4
    <3>2. Left(u)' = Left(u) /\ Left(u) \subseteq DOMAIN entries[u]
      BY <1>20, <3>1 DEF Left
    <3>3. \A x \in Surfaces : Open(u, x)' => Open(u, x)
      BY <1>13, <1>24, <3>1, <3>2 DEF Open
    <3> QED BY <1>13, <1>25, <3>1, <3>3
  <2> QED BY <1>13, <2>1 DEF OuterSame
\* Where the calls that are made work.
<1>30. ~Open(t, s)'
  <2> SUFFICES ASSUME life'[s] # "dead", NEW k \in Left(t)', entries'[t][k].surface = s
               PROVE  FALSE
    BY DEF Open
  <2>1. k # i /\ k \in DOMAIN entries[t]
    BY <1>21 DEF Left
  <2>2. entries[t][k].surface = s /\ life[s] # "dead"
    BY <1>3, <1>13, <1>24, <2>1
  <2> QED BY <1>3, <1>5, <1>6, <1>7, <2>1, <2>2 DEF QueueInv, Settled, OneEntryEach
<1>31. ASSUME NEW u \in {t} \cup U, NEW x \in Surfaces, Open(u, x)', Rooted(u, x)'
       PROVE  s \in Below(x)
  <2>1. CASE u = t
    <3>1. s # x
      BY <1>30, <1>31, <2>1
    <3>2. s \in SurfacesOf(t)'
      BY <1>3, <1>8, <1>25
    <3> QED BY <1>31, <2>1, <3>1, <3>2 DEF Rooted
  <2>2. CASE u \in U
    <3>1. Open(u, x) /\ Rooted(u, x)
      BY <1>29, <1>31, <2>2 DEF OuterSame, Rooted
    <3>2. SurfacesOf(t) \subseteq Below(x)
      BY <1>2, <1>3, <2>2, <3>1 DEF InsideOf, ApplyCalls
    <3> QED BY <1>8, <3>2
  <2> QED BY <2>1, <2>2
<1>32. \A u \in {t} \cup U : ~Open(u, s)'
  <2> SUFFICES ASSUME NEW u \in U, Open(u, s)' PROVE FALSE
    BY <1>30
  <2>1. Open(u, s)
    BY <1>8, <1>29 DEF OuterSame
  <2> QED BY <1>2, <1>3, <1>8, <2>1 DEF InsideOf, ApplyCalls
<1>33. Fits(c, U, O)'
  <2>1. NestedIn(c, U, O)'
    BY <1>3, <1>11, <1>13 DEF NestedIn, ApplyCalls
  <2>2. ASSUME NEW u \in U, NEW x \in Surfaces, Open(u, x)'
        PROVE  /\ x \notin SurfacesOf(t)'
               /\ Rooted(u, x)' => SurfacesOf(t)' \subseteq Below(x)
    <3>1. Open(u, x) /\ (Rooted(u, x)' => Rooted(u, x))
      BY <1>29, <2>2 DEF OuterSame, Rooted
    <3>2. /\ x \notin SurfacesOf(t)
          /\ Rooted(u, x) => SurfacesOf(t) \subseteq Below(x)
      BY <1>2, <1>3, <3>1 DEF InsideOf, ApplyCalls
    <3> QED BY <1>3, <1>25, <3>1, <3>2
  <2>3. InsideOf(c, U)'
    BY <1>11, <2>2 DEF InsideOf, ApplyCalls
  <2> QED BY <2>1, <2>3 DEF Fits
<1>34. PICK V, W : V = {t} \cup U /\ W = {"unlink"} \cup O
  OBVIOUS
<1>35. Fits(b, V, W)'
  <2>1. W \subseteq CallersOf(b.op)
    BY <1>3, <1>11, <1>34, CallersFacts DEF TryOps
  <2>2. NestedIn(b, V, W)'
    BY <1>11, <2>1 DEF NestedIn, ApplyCalls
  <2>3. InsideOf(b, V)'
    BY <1>11, <1>31, <1>32, <1>34 DEF InsideOf, ApplyCalls
  <2> QED BY <2>2, <2>3 DEF Fits
<1>36. Txs(a) = {} /\ Txs(b) = {} /\ Txs(c) = {t}
  BY <1>11 DEF Txs, ApplyCalls
<1>37. \A u \in Transactions : status'[u] = "applying" => u \in {t} \cup U
  BY <1>4, <1>13
<1>38. CASE n = None
  <2>1. Replaced(stack, <<b, c>>, stack')
    BY <1>15, <1>17, <1>38
  <2>2. Fits(b, Txs(c) \cup U, {c.op} \cup O)'
    BY <1>11, <1>34, <1>35, <1>36
  <2>3. \A u \in Transactions : status'[u] = "applying" => u \in Txs(b) \cup Txs(c) \cup U
    BY <1>36, <1>37
  <2>4. Nesting' /\ Inside'
    BY <1>1, <1>2, <1>29, <1>33, <2>1, <2>2, <2>3, TwoFramesFit
  <2> QED BY <1>28, <2>4 DEF QueueInv
<1>39. CASE n # None
  <2>1. Replaced(stack, <<a, b, c>>, stack')
    BY <1>15, <1>17, <1>39
  <2>2. PICK X : X = {"tryChildren", "unlink"} \cup O
    OBVIOUS
  <2>3. NestedIn(a, V, X)'
    <3>1. X \subseteq CallersOf(a.op)
      BY <1>3, <1>11, <2>2, CallersFacts DEF TryOps
    <3>2. status'[n] = "queued"
      BY <1>9, <1>13, <1>39
    <3> QED BY <1>11, <3>1, <3>2 DEF NestedIn, ApplyCalls
  <2>4. s \in SurfacesOf(n)'
    BY <1>8, <1>9, <1>25, <1>39
  <2>5. InsideOf(a, V)'
    BY <1>11, <1>31, <1>34, <2>4 DEF InsideOf, ApplyCalls
  <2>6. Fits(a, Txs(b) \cup Txs(c) \cup U, {b.op, c.op} \cup O)'
    <3>1. Txs(b) \cup Txs(c) \cup U = V /\ {b.op, c.op} \cup O = X
      BY <1>11, <1>34, <1>36, <2>2
    <3> QED BY <2>3, <2>5, <3>1 DEF Fits
  <2>7. Fits(b, Txs(c) \cup U, {c.op} \cup O)'
    BY <1>11, <1>34, <1>35, <1>36
  <2>8. \A u \in Transactions :
           status'[u] = "applying" => u \in Txs(a) \cup Txs(b) \cup Txs(c) \cup U
    BY <1>36, <1>37
  <2>9. Nesting' /\ Inside'
    BY <1>1, <1>2, <1>29, <1>33, <2>1, <2>6, <2>7, <2>8, ThreeFramesFit
  <2> QED BY <1>28, <2>9 DEF QueueInv
<1> QED BY <1>38, <1>39

LEMMA UnlinkKeeps ==
    ASSUME QueueInv, TypeOK', Unlink
    PROVE  QueueInv'
BY UnlinkEndKeeps, UnlinkEntryKeeps

------------------------------------------------------------------------------
(* commit()                                                                 *)

\* While nothing is being applied every transaction is in all its queues.
LEMMA NothingApplied ==
    ASSUME TypeOK, Nesting,
           stack = <<>> \/ Head(stack).op \in BuildOps \cup DesyncOps \cup {"destroyed"},
           NEW cs, Replaced(stack, cs, stack'),
           \A k \in DOMAIN cs : cs[k].op \notin ApplyCalls
    PROVE  /\ Outer(stack, 1) = {} /\ OuterSame({})
           /\ \A t \in Transactions : status[t] # "applying"
           /\ \A t : Left(t) = DOMAIN entries[t]
           /\ \A t : Left(t)' = DOMAIN entries'[t]
<1>1. stack # <<>> =>
         CallersOf(Head(stack).op) \cap ApplyCalls = {} /\ Head(stack).op \notin ApplyCalls
  BY CallersFacts DEF BuildOps, DesyncOps, ApplyCalls
<1>2. Outer(stack, 1) = {}
  BY <1>1, OuterApplying
<1>3. \A t \in Transactions : status[t] # "applying"
  BY <1>1, <1>2, OuterApplying
<1>4. \A m \in DOMAIN stack : m > 1 => stack[m].op \notin ApplyCalls
  BY <1>2, FurtherOut
<1>5. \A d \in Calls : d.op \notin ApplyCalls
  BY <1>1, <1>4, CallPlaces
<1>6. \A d \in Calls' : d.op \notin ApplyCalls
  BY <1>4, CallsAfter
<1>7. \A t : Left(t) = DOMAIN entries[t]
  BY <1>5 DEF Left, ApplyCalls
<1>8. \A t : Left(t)' = DOMAIN entries'[t]
  BY <1>6 DEF Left, ApplyCalls
<1> QED BY <1>2, <1>3, <1>7, <1>8 DEF OuterSame

Touches(t, s) == life[s] # "dead" /\ s \in SurfacesOf(t)

\* The entries of t for a surface that an earlier entry is for already.
Again(t) ==
    {i \in DOMAIN entries[t] :
       /\ life[entries[t][i].surface] # "dead"
       /\ \E j \in DOMAIN entries[t] :
             j < i /\ entries[t][j].surface = entries[t][i].surface}

\* The transaction t joins the queues of its surfaces.
Joins(t) ==
    /\ status[t] = "pending" /\ \A u \in Transactions : status[u] # "applying"
    /\ status' = [status EXCEPT ![t] = "queued"]
    /\ UNCHANGED life
    /\ \A u \in Transactions : /\ DOMAIN entries'[u] = DOMAIN entries[u]
                               /\ Left(u) = DOMAIN entries[u]
                               /\ Left(u)' = DOMAIN entries[u]
    /\ \A u \in Transactions : \A i \in DOMAIN entries[u] :
          /\ entries'[u][i].surface = entries[u][i].surface
          /\ entries'[u][i].state = entries[u][i].state
    /\ \A u \in Transactions \ {t} : \A i \in DOMAIN entries[u] :
          LET s == entries[u][i].surface
          IN  /\ entries'[u][i].prev = entries[u][i].prev
              /\ entries'[u][i].next = IF Touches(t, s) /\ last[s] = u THEN t
                                       ELSE entries[u][i].next
    /\ \A i \in DOMAIN entries[t] :
          LET s == entries[t][i].surface
          IN  /\ entries'[t][i].prev = IF life[s] = "dead" THEN None
                                       ELSE IF i \in Again(t) THEN t
                                       ELSE last[s]
              /\ entries'[t][i].next = IF \E k \in Again(t) : entries[t][k].surface = s
                                       THEN t ELSE None
    /\ \A s \in Surfaces :
          /\ first'[s] = IF Touches(t, s) /\ first[s] = None THEN t ELSE first[s]
          /\ last'[s] = IF Touches(t, s) THEN t ELSE last[s]

LEMMA CommitJoins ==
    ASSUME QueueInv, TypeOK', Commit
    PROVE  \E t \in Transactions :
              /\ Joins(t) /\ stack # <<>> /\ Head(stack) \in Calls
              /\ Head(stack).op = "commit" /\ Head(stack).tx = t
              /\ Replaced(stack, <<OnTx("tryApply", t)>>, stack')
<1> DEFINE t == Head(stack).tx
           own == entries[t]
           joins == {i \in DOMAIN own : life[own[i].surface] # "dead"}
           touched == {own[i].surface : i \in joins}
           again == {i \in joins : \E j \in joins :
                       j < i /\ own[j].surface = own[i].surface}
           repeated == {own[i].surface : i \in again}
           watchable == {i \in joins : HasBuffer(own[i].state)
                                         /\ own[i].surface \in Fenced}
           New(busy, u, i) ==
             LET e == entries[u][i]
             IN  IF u = t
                 THEN [e EXCEPT !.fence = i \in busy,
                                !.prev = IF i \notin joins THEN None
                                         ELSE IF i \in again THEN t
                                         ELSE last[e.surface],
                                !.next = IF e.surface \in repeated THEN t ELSE @]
                 ELSE IF e.surface \in touched /\ last[e.surface] = u
                 THEN [e EXCEPT !.next = t]
                 ELSE e
<1>1. Running("commit")
  BY Zenon DEF Commit
<1>2. TypeOK /\ Nesting
  BY DEF QueueInv, Settled
<1>3. /\ stack # <<>> /\ Head(stack) \in CallType /\ Head(stack).op = "commit"
      /\ t \in Transactions /\ Head(stack) \in Calls
  BY <1>1, <1>2, RunningCall, CallFields, CallPlaces
<1>4. BuiltBy(Head(stack))
  BY <1>3 DEF QueueInv, Settled, Building
<1>5. status[t] = "pending"
  BY <1>3, <1>4 DEF BuiltBy
<1>6. PICK busy \in SUBSET watchable :
        entries' = [u \in Transactions |-> [i \in DOMAIN entries[u] |->
                      New(busy, u, i)]]
  BY Zenon DEF Commit
<1>7. Enqueue(t, touched) /\ status' = [status EXCEPT ![t] = "queued"] /\ life' = life
  BY Zenon DEF Commit
<1>8. ReturnVia(<<OnTx("tryApply", t)>>)
  BY Zenon DEF Commit
<1>9. again = Again(t)
  BY DEF Again
<1>10. \A s \in Surfaces : s \in touched <=> Touches(t, s)
  BY DEF Touches, SurfacesOf
<1>11. \A s : s \in repeated <=> \E k \in Again(t) : entries[t][k].surface = s
  BY <1>9
<1>12. \A i \in DOMAIN entries[t] : i \in joins <=> life[entries[t][i].surface] # "dead"
  OBVIOUS
<1>13. Head(stack).tx = t
  OBVIOUS
<1> HIDE DEF t, own, joins, touched, again, repeated, watchable
<1>14. PICK a : a = OnTx("tryApply", t)
  OBVIOUS
<1>15. a \in CallType /\ a.op = "tryApply"
  BY <1>3, <1>14, CallsTyped DEF OnTx
<1>16. Replaced(stack, <<a>>, stack')
  <2>1. <<a>> \in Seq(CallType) /\ ReturnVia(<<a>>)
    BY <1>8, <1>14, <1>15
  <2> QED BY <1>2, <1>3, <2>1, ReturnReplaces
<1>17. /\ \A u \in Transactions : status[u] # "applying"
       /\ \A u : Left(u) = DOMAIN entries[u]
       /\ \A u : Left(u)' = DOMAIN entries'[u]
  <2>1. \A k \in DOMAIN <<a>> : <<a>>[k].op \notin ApplyCalls
    BY <1>15, OneFrame DEF ApplyCalls
  <2>2. Head(stack).op \in BuildOps
    BY <1>3 DEF BuildOps
  <2> QED BY <1>2, <1>16, <2>1, <2>2, NothingApplied
<1>18. \A u \in Transactions : \A i \in DOMAIN entries[u] :
          entries'[u][i] = New(busy, u, i)
  <2> HIDE DEF New
  <2> QED BY <1>6
<1>19. \A u \in Transactions : DOMAIN entries'[u] = DOMAIN entries[u]
  <2> HIDE DEF New
  <2> QED BY <1>6
<1>20. ASSUME NEW u \in Transactions \ {t}, NEW i \in DOMAIN entries[u]
       PROVE  LET s == entries[u][i].surface
              IN  /\ entries'[u][i].surface = s
                  /\ entries'[u][i].state = entries[u][i].state
                  /\ entries'[u][i].prev = entries[u][i].prev
                  /\ entries'[u][i].next = IF Touches(t, s) /\ last[s] = u THEN t
                                           ELSE entries[u][i].next
  <2>1. PICK e : e = entries[u][i]
    OBVIOUS
  <2>2. e \in EntryType /\ e.surface \in Surfaces
    BY <1>2, <1>20, <2>1, EntryFields
  <2>3. entries'[u][i] = IF e.surface \in touched /\ last[e.surface] = u
                         THEN [e EXCEPT !.next = t] ELSE e
    <3>1. New(busy, u, i) = IF e.surface \in touched /\ last[e.surface] = u
                            THEN [e EXCEPT !.next = t] ELSE e
      BY Zenon, <1>20, <2>1
    <3> HIDE DEF New
    <3> QED BY <1>18, <1>20, <3>1
  <2>4. /\ entries'[u][i].surface = e.surface
        /\ entries'[u][i].state = e.state
        /\ entries'[u][i].prev = e.prev
        /\ entries'[u][i].next = IF e.surface \in touched /\ last[e.surface] = u THEN t
                                 ELSE e.next
    BY <2>2, <2>3 DEF EntryType
  <2> QED BY <1>10, <2>1, <2>2, <2>4
<1>21. ASSUME NEW i \in DOMAIN entries[t]
       PROVE  LET s == entries[t][i].surface
              IN  /\ entries'[t][i].surface = s
                  /\ entries'[t][i].state = entries[t][i].state
                  /\ entries'[t][i].prev = IF life[s] = "dead" THEN None
                                           ELSE IF i \in Again(t) THEN t
                                           ELSE last[s]
                  /\ entries'[t][i].next =
                        IF \E k \in Again(t) : entries[t][k].surface = s
                        THEN t ELSE None
  <2>1. PICK e : e = entries[t][i]
    OBVIOUS
  <2>2. e \in EntryType /\ e.surface \in Surfaces
    BY <1>2, <1>3, <2>1, EntryFields
  <2>3. entries[t][i].next = None
    BY <1>3, <1>5 DEF QueueInv, Settled, Outside, Committed
  <2>4. PICK fence, prev, next :
           /\ fence = (i \in busy)
           /\ prev = IF i \notin joins THEN None ELSE IF i \in again THEN t
                     ELSE last[e.surface]
           /\ next = IF e.surface \in repeated THEN t ELSE e.next
    OBVIOUS
  <2>5. entries'[t][i] = [e EXCEPT !.fence = fence, !.prev = prev, !.next = next]
    <3>1. New(busy, t, i) = [e EXCEPT !.fence = fence, !.prev = prev, !.next = next]
      BY Zenon, <2>1, <2>4
    <3> HIDE DEF New
    <3> QED BY <1>3, <1>18, <3>1
  <2>6. /\ entries'[t][i].surface = e.surface
        /\ entries'[t][i].state = e.state
        /\ entries'[t][i].prev = prev
        /\ entries'[t][i].next = next
    BY <2>2, <2>5 DEF EntryType
  <2>7. prev = IF life[e.surface] = "dead" THEN None
               ELSE IF i \in Again(t) THEN t ELSE last[e.surface]
    BY <1>9, <1>12, <2>1, <2>4
  <2>8. next = IF \E k \in Again(t) : entries[t][k].surface = e.surface THEN t ELSE None
    BY <1>11, <2>1, <2>3, <2>4
  <2> QED BY <2>1, <2>6, <2>7, <2>8
<1>22. \A s \in Surfaces :
          /\ first'[s] = IF Touches(t, s) /\ first[s] = None THEN t ELSE first[s]
          /\ last'[s] = IF Touches(t, s) THEN t ELSE last[s]
  BY <1>7, <1>10 DEF Enqueue
<1>23. \A u \in Transactions : \A i \in DOMAIN entries[u] :
          /\ entries'[u][i].surface = entries[u][i].surface
          /\ entries'[u][i].state = entries[u][i].state
  BY <1>20, <1>21
<1>24. Joins(t)
  BY <1>5, <1>7, <1>17, <1>19, <1>20, <1>21, <1>22, <1>23 DEF Joins
<1> QED BY <1>3, <1>13, <1>14, <1>16, <1>24

LEMMA JoinsFacts ==
    ASSUME Settled, TypeOK', NEW t \in Transactions, Joins(t)
    PROVE  /\ ~Committed(t) /\ t # None
           /\ \A u \in Transactions : status'[u] = IF u = t THEN "queued" ELSE status[u]
           /\ \A u \in Transactions : Committed(u)' <=> (Committed(u) \/ u = t)
           /\ \A u \in Transactions : SurfacesOf(u)' = SurfacesOf(u)
           /\ \A u \in Transactions : \A s \in Surfaces :
                 OnQueue(u, s)' <=> (OnQueue(u, s) \/ (u = t /\ s \in SurfacesOf(t)))
           /\ \A s \in Surfaces : first[s] # t /\ last[s] # t
           /\ \A u \in Transactions : \A i \in DOMAIN entries[u] :
                 entries[u][i].prev # t /\ entries[u][i].next # t
           /\ \A u \in Transactions \ {t} : SelfWaiting(u)' <=> SelfWaiting(u)
           /\ SelfWaiting(t)' <=> Again(t) # {}
<1> USE ConstantsAssumption
<1>1. TypeOK /\ ~Committed(t) /\ t # None
  BY DEF Settled, Joins, Committed
<1>2. ASSUME NEW u \in Transactions
      PROVE  /\ status'[u] = IF u = t THEN "queued" ELSE status[u]
             /\ Committed(u)' <=> (Committed(u) \/ u = t)
             /\ DOMAIN entries'[u] = DOMAIN entries[u]
             /\ Left(u) = DOMAIN entries[u] /\ Left(u)' = DOMAIN entries[u]
             /\ \A i \in DOMAIN entries[u] :
                   entries'[u][i].surface = entries[u][i].surface
  <2>1. status'[u] = IF u = t THEN "queued" ELSE status[u]
    BY <1>1 DEF Joins, TypeOK
  <2>2. Committed(u)' <=> (Committed(u) \/ u = t)
    BY <2>1 DEF Committed
  <2>3. /\ DOMAIN entries'[u] = DOMAIN entries[u]
        /\ Left(u) = DOMAIN entries[u] /\ Left(u)' = DOMAIN entries[u]
        /\ \A i \in DOMAIN entries[u] :
              entries'[u][i].surface = entries[u][i].surface
    BY DEF Joins
  <2> QED BY <2>1, <2>2, <2>3
<1>3. \A u \in Transactions : SurfacesOf(u)' = SurfacesOf(u)
  BY <1>2 DEF SurfacesOf
<1>4. ASSUME NEW u \in Transactions, NEW s \in Surfaces
      PROVE  OnQueue(u, s)' <=> (OnQueue(u, s) \/ (u = t /\ s \in SurfacesOf(t)))
  <2>1. OnQueue(u, s) <=> Committed(u) /\ s \in SurfacesOf(u)
    BY <1>2 DEF OnQueue, SurfacesOf
  <2>2. OnQueue(u, s)' <=> Committed(u)' /\ s \in SurfacesOf(u)
    BY <1>2 DEF OnQueue, SurfacesOf
  <2> QED BY <1>2, <2>1, <2>2
<1>5. \A s \in Surfaces : first[s] # t /\ last[s] # t
  BY <1>1 DEF Settled, Ends, OnQueue
<1>6. ASSUME NEW u \in Transactions, NEW i \in DOMAIN entries[u]
      PROVE  entries[u][i].prev # t /\ entries[u][i].next # t
  <2>1. entries[u][i].prev # t
    BY <1>1 DEF Settled, Neighbours
  <2>2. CASE Committed(u)
    <3>1. i \in Left(u)
      BY <1>2
    <3> QED BY <1>1, <2>1, <2>2, <3>1 DEF Settled, Neighbours, Committed
  <2>3. CASE ~Committed(u)
    BY <1>1, <2>1, <2>3 DEF Settled, Outside
  <2> QED BY <2>2, <2>3
<1>7. ASSUME NEW u \in Transactions \ {t}
      PROVE  SelfWaiting(u)' <=> SelfWaiting(u)
  BY <1>2 DEF SelfWaiting, Joins
<1>8. SelfWaiting(t)' <=> Again(t) # {}
  <2>1. ASSUME NEW i \in DOMAIN entries[t]
        PROVE  entries'[t][i].prev = t <=> i \in Again(t)
    <3>1. entries[t][i].surface \in Surfaces
      BY <1>1, EntryFields
    <3>2. entries'[t][i].prev = IF life[entries[t][i].surface] = "dead" THEN None
                                ELSE IF i \in Again(t) THEN t
                                ELSE last[entries[t][i].surface]
      BY DEF Joins
    <3> QED BY <1>1, <1>5, <3>1, <3>2 DEF Again
  <2>2. Again(t) \subseteq DOMAIN entries[t]
    BY DEF Again
  <2> QED BY <1>2, <2>1, <2>2 DEF SelfWaiting
<1> QED BY <1>1, <1>2, <1>3, <1>4, <1>5, <1>6, <1>7, <1>8

\* Of the entries of t for a surface one is the first.
LEMMA FirstEntry ==
    ASSUME TypeOK, NEW t \in Transactions, NEW s, s \in SurfacesOf(t)
    PROVE  \E i \in DOMAIN entries[t] : entries[t][i].surface = s /\ i \notin Again(t)
<1>1. PICK T : T = {i \in DOMAIN entries[t] : entries[t][i].surface = s}
  OBVIOUS
<1>2. T # {}
  BY <1>1 DEF SurfacesOf
<1>3. T \in SUBSET Nat
  BY <1>1, EntryFields
<1>4. PICK i \in T : \A j \in T : i <= j
  BY <1>2, <1>3, LeastPlace
<1>5. \A j \in DOMAIN entries[t] : entries[t][j].surface = s => i <= j
  BY <1>1, <1>4
<1>6. \A j \in DOMAIN entries[t] : j \in Nat
  BY EntryFields
<1>7. ASSUME i \in Again(t) PROVE FALSE
  <2>1. PICK j \in DOMAIN entries[t] : j < i /\ entries[t][j].surface = s
    BY <1>1, <1>4, <1>7 DEF Again
  <2> QED BY <1>3, <1>4, <1>5, <1>6, <2>1
<1> QED BY <1>1, <1>4, <1>7

LEMMA JoinsKeepsQueues ==
    ASSUME Settled, TypeOK', NEW t \in Transactions, Joins(t)
    PROVE  Ends' /\ AtEnds' /\ Outside' /\ Neighbours' /\ Counted' /\ OneEntryEach'
<1> USE ConstantsAssumption
<1>a. /\ ~Committed(t) /\ t # None
      /\ \A u \in Transactions : status'[u] = IF u = t THEN "queued" ELSE status[u]
      /\ \A u \in Transactions : Committed(u)' <=> (Committed(u) \/ u = t)
      /\ \A u \in Transactions : SurfacesOf(u)' = SurfacesOf(u)
      /\ \A s \in Surfaces : first[s] # t /\ last[s] # t
      /\ \A u \in Transactions : \A i \in DOMAIN entries[u] :
            entries[u][i].prev # t /\ entries[u][i].next # t
  BY JoinsFacts
<1>b. /\ life' = life
      /\ \A u \in Transactions : /\ DOMAIN entries'[u] = DOMAIN entries[u]
                                  /\ Left(u) = DOMAIN entries[u]
                                  /\ Left(u)' = DOMAIN entries[u]
      /\ \A u \in Transactions : \A i \in DOMAIN entries[u] :
            entries'[u][i].surface = entries[u][i].surface
      /\ \A s \in Surfaces :
            /\ first'[s] = IF Touches(t, s) /\ first[s] = None THEN t ELSE first[s]
            /\ last'[s] = IF Touches(t, s) THEN t ELSE last[s]
  BY DEF Joins
<1>1. /\ ~Committed(t) /\ t # None /\ life' = life
      /\ TypeOK /\ Ends /\ AtEnds /\ Outside /\ Neighbours /\ Counted /\ OneEntryEach
  BY <1>a, <1>b DEF Settled
<1>2. \A u \in Transactions :
         /\ status'[u] = IF u = t THEN "queued" ELSE status[u]
         /\ Committed(u)' <=> (Committed(u) \/ u = t)
         /\ SurfacesOf(u)' = SurfacesOf(u)
         /\ DOMAIN entries'[u] = DOMAIN entries[u]
         /\ Left(u) = DOMAIN entries[u] /\ Left(u)' = DOMAIN entries[u]
         /\ \A i \in DOMAIN entries[u] :
               /\ entries'[u][i].surface = entries[u][i].surface
               /\ entries[u][i].surface \in Surfaces
               /\ entries[u][i].prev # t /\ entries[u][i].next # t
  BY <1>1, <1>a, <1>b, EntryFields
<1>3. \A u \in Transactions : \A s \in Surfaces :
         OnQueue(u, s)' <=> (OnQueue(u, s) \/ (u = t /\ s \in SurfacesOf(t)))
  BY JoinsFacts
<1>4. \A s \in Surfaces :
         /\ first[s] # t /\ last[s] # t
         /\ first'[s] = IF Touches(t, s) /\ first[s] = None THEN t ELSE first[s]
         /\ last'[s] = IF Touches(t, s) THEN t ELSE last[s]
  BY <1>a, <1>b
<1>5. \A u \in Transactions \ {t} : \A i \in DOMAIN entries[u] :
         LET s == entries[u][i].surface
         IN  /\ entries'[u][i].prev = entries[u][i].prev
             /\ entries'[u][i].next = IF Touches(t, s) /\ last[s] = u THEN t
                                      ELSE entries[u][i].next
  BY DEF Joins
<1>6. \A i \in DOMAIN entries[t] :
         LET s == entries[t][i].surface
         IN  /\ entries'[t][i].prev = IF life[s] = "dead" THEN None
                                      ELSE IF i \in Again(t) THEN t
                                      ELSE last[s]
             /\ entries'[t][i].next = IF \E k \in Again(t) : entries[t][k].surface = s
                                      THEN t ELSE None
  BY DEF Joins
<1>7. /\ \A u \in Transactions \ {t} : SelfWaiting(u)' <=> SelfWaiting(u)
      /\ SelfWaiting(t)' <=> Again(t) # {}
  BY JoinsFacts
<1>8. Ends'
  <2> SUFFICES ASSUME NEW s \in Surfaces
               PROVE  /\ first'[s] = None <=> last'[s] = None
                      /\ life'[s] = "dead" => first'[s] = None
                      /\ first'[s] # None => OnQueue(first[s], s)'
                      /\ last'[s] # None =>
                            /\ OnQueue(last[s], s)'
                            /\ \A j \in Left(last[s])' :
                                  entries'[last'[s]][j].surface = s
                                     => entries'[last'[s]][j].next \in {None, last'[s]}
    BY DEF Ends
  <2>1. /\ first[s] \in Transactions \cup {None} /\ last[s] \in Transactions \cup {None}
        /\ first'[s] \in Transactions \cup {None} /\ last'[s] \in Transactions \cup {None}
    BY <1>1 DEF TypeOK
  <2>2. PICK f, l : f = first'[s] /\ l = last'[s]
    OBVIOUS
  <2>3. CASE Touches(t, s)
    <3>1. l = t /\ f = (IF first[s] = None THEN t ELSE first[s])
      BY <1>4, <2>2, <2>3
    <3>2. OnQueue(t, s)'
      BY <1>3, <2>3 DEF Touches
    <3>3. OnQueue(f, s)'
      BY <1>1, <1>3, <2>1, <3>1, <3>2 DEF Ends
    <3>4. \A j \in DOMAIN entries[t] : entries'[t][j].next \in {None, t}
      BY <1>6
    <3>5. \A j \in Left(t)' : entries'[t][j].next \in {None, t}
      BY <1>2, <3>4
    <3>6. f # None /\ life'[s] # "dead"
      BY <1>1, <2>3, <3>1 DEF Touches
    <3>7. OnQueue(l, s)' /\ \A j \in Left(l)' : entries'[l][j].next \in {None, l}
      BY <3>1, <3>2, <3>5
    <3> QED BY <1>1, <2>2, <3>1, <3>3, <3>6, <3>7
  <2>4. CASE ~Touches(t, s)
    <3>1. l = last[s] /\ f = first[s]
      BY <1>4, <2>2, <2>4
    <3>2. f # None => OnQueue(f, s)'
      BY <1>1, <1>3, <2>1, <3>1 DEF Ends
    <3>3. l # None => OnQueue(l, s)'
      BY <1>1, <1>3, <2>1, <3>1 DEF Ends
    <3>4. ASSUME l # None, NEW j \in Left(l)', entries'[l][j].surface = s
          PROVE  entries'[l][j].next \in {None, l}
      <4>1. l \in Transactions \ {t} /\ j \in DOMAIN entries[l] /\ j \in Left(l)
        BY <1>2, <1>4, <2>1, <3>1, <3>4
      <4>2. entries[l][j].surface = s
        BY <1>2, <3>4, <4>1
      <4>3. entries[l][j].next \in {None, l}
        BY <1>1, <3>1, <3>4, <4>1, <4>2 DEF Ends
      <4> QED BY <1>5, <2>4, <4>1, <4>2, <4>3
    <3> QED BY <1>1, <2>2, <3>1, <3>2, <3>3, <3>4 DEF Ends
  <2> QED BY <2>3, <2>4
<1>9. AtEnds'
  <2>1. ASSUME NEW u \in Transactions, Committed(u)', NEW j \in Left(u)',
               life'[entries'[u][j].surface] # "dead", entries'[u][j].next = None
        PROVE  last'[entries'[u][j].surface] = u
    <3>1. PICK s : s = entries[u][j].surface
      OBVIOUS
    <3>2. /\ j \in DOMAIN entries[u] /\ j \in Left(u) /\ s \in Surfaces
          /\ entries'[u][j].surface = s
      BY <1>2, <2>1, <3>1
    <3>3. life[s] # "dead"
      BY <1>1, <2>1, <3>2
    <3>4. CASE u = t
      BY <1>4, <3>1, <3>2, <3>3, <3>4 DEF Touches, SurfacesOf
    <3>5. CASE u # t
      <4>1. ~(Touches(t, s) /\ last[s] = u) /\ entries[u][j].next = None
        BY <1>1, <1>5, <2>1, <3>1, <3>2, <3>5
      <4>2. Committed(u)
        BY <1>2, <2>1, <3>5
      <4>3. last[s] = u
        BY <1>1, <3>1, <3>2, <3>3, <4>1, <4>2 DEF AtEnds
      <4> QED BY <1>4, <3>2, <4>1, <4>3
    <3> QED BY <3>4, <3>5
  <2>2. ASSUME NEW u \in Transactions, Committed(u)', NEW s \in Surfaces,
               life'[s] # "dead", OnQueue(u, s)',
               \A w \in Transactions \ {u} : ~Behind(u, w, s)'
        PROVE  first'[s] = u
    <3>1. last[s] \in Transactions \cup {None} /\ life[s] # "dead"
      BY <1>1, <2>2 DEF TypeOK
    <3>2. CASE u = t
      <4>1. Touches(t, s)
        BY <1>1, <1>3, <2>2, <3>1, <3>2 DEF Touches, OnQueue
      <4>2. ASSUME first[s] # None PROVE FALSE
        <5>1. PICK w : w = last[s]
          OBVIOUS
        <5>2. w \in Transactions \ {t} /\ OnQueue(w, s)
          BY <1>1, <1>4, <3>1, <4>2, <5>1 DEF Ends
        <5>3. PICK j \in Left(w) : entries[w][j].surface = s
          BY <5>2 DEF OnQueue
        <5>4. j \in DOMAIN entries[w]
          BY <1>2, <5>2, <5>3
        <5>5. entries'[w][j].surface = s /\ entries'[w][j].next = t
          BY <1>2, <1>5, <4>1, <5>1, <5>2, <5>3, <5>4
        <5>6. Committed(w)' /\ j \in Left(w)'
          BY <1>2, <5>2, <5>4 DEF OnQueue
        <5>7. Behind(t, w, s)'
          BY <5>5, <5>6 DEF Behind
        <5> QED BY <2>2, <3>2, <5>2, <5>7
      <4> QED BY <1>4, <3>2, <4>1, <4>2
    <3>3. CASE u # t
      <4>1. Committed(u) /\ OnQueue(u, s)
        BY <1>2, <1>3, <2>2, <3>3
      <4>2. ASSUME NEW w \in Transactions \ {u}, Behind(u, w, s)
            PROVE  FALSE
        <5>1. PICK j \in Left(w) :
                 entries[w][j].surface = s /\ entries[w][j].next = u
          BY <4>2 DEF Behind
        <5>2. Committed(w) /\ w # t /\ j \in DOMAIN entries[w]
          BY <1>1, <1>2, <4>2, <5>1 DEF Behind
        <5>3. last[s] # w
          BY <1>1, <4>2, <5>1 DEF Ends
        <5>4. entries'[w][j].surface = s /\ entries'[w][j].next = u
          BY <1>2, <1>5, <4>2, <5>1, <5>2, <5>3
        <5>5. Committed(w)' /\ j \in Left(w)'
          BY <1>2, <4>2, <5>2
        <5>6. Behind(u, w, s)'
          BY <5>4, <5>5 DEF Behind
        <5> QED BY <2>2, <4>2, <5>6
      <4>3. first[s] = u
        BY <1>1, <3>1, <4>1, <4>2 DEF AtEnds
      <4> QED BY <1>4, <4>3
    <3> QED BY <3>2, <3>3
  <2> QED BY <2>1, <2>2 DEF AtEnds
<1>10. Outside'
  <2>1. ASSUME NEW u \in Transactions, status'[u] = "free"
        PROVE  entries'[u] = <<>>
    <3>1. u # t /\ status[u] = "free"
      BY <1>2, <2>1
    <3>2. entries[u] = <<>>
      BY <1>1, <3>1 DEF Outside
    <3>3. DOMAIN entries'[u] = {} /\ entries'[u] \in Seq(EntryType)
      BY <1>2, <3>2 DEF TypeOK
    <3>4. PICK q : q = entries'[u]
      OBVIOUS
    <3>5. q = <<>>
      <4>1. q \in Seq(EntryType) /\ DOMAIN q = {}
        BY <3>3, <3>4
      <4>2. Len(q) \in Nat /\ DOMAIN q = 1..Len(q)
        BY <4>1, LenProperties
      <4>3. Len(q) = 0
        BY <4>1, <4>2
      <4> QED BY <4>1, <4>3, EmptySeq
    <3> QED BY <3>4, <3>5
  <2>2. ASSUME NEW u \in Transactions, ~Committed(u)', NEW i \in DOMAIN entries'[u]
        PROVE  entries'[u][i].prev = None /\ entries'[u][i].next = None
    <3>1. u # t /\ ~Committed(u) /\ i \in DOMAIN entries[u]
      BY <1>2, <2>2
    <3>2. entries[u][i].prev = None /\ entries[u][i].next = None
      BY <1>1, <3>1 DEF Outside
    <3>3. \A s \in Surfaces : last[s] # u
      BY <1>1, <3>1 DEF Ends, OnQueue
    <3>4. entries[u][i].surface \in Surfaces
      BY <1>2, <3>1
    <3> QED BY <1>5, <3>1, <3>2, <3>3, <3>4
  <2> QED BY <2>1, <2>2 DEF Outside
<1>11. Neighbours'
  <2>1. ASSUME NEW u \in Transactions, Committed(u)', NEW j \in Left(u)',
               NEW n, n = entries'[u][j].next, n # None
        PROVE  /\ status'[n] = "queued" /\ entries'[u][j].surface \in SurfacesOf(n)'
               /\ Prevs(n, u)' # {}
    <3>1. PICK s : s = entries[u][j].surface
      OBVIOUS
    <3>2. /\ j \in DOMAIN entries[u] /\ j \in Left(u) /\ s \in Surfaces
          /\ entries'[u][j].surface = s
      BY <1>2, <2>1, <3>1
    <3>3. CASE u = t
      <4>1. PICK k \in Again(t) : entries[t][k].surface = s
        BY <1>1, <1>6, <2>1, <3>1, <3>2, <3>3
      <4>2. n = t
        BY <1>6, <2>1, <3>1, <3>2, <3>3
      <4>3. k \in DOMAIN entries[t] /\ life[s] # "dead"
        BY <4>1 DEF Again
      <4>4. entries'[t][k].prev = t
        BY <1>6, <4>1, <4>3
      <4>5. k \in Prevs(t, t)'
        BY <1>2, <4>3, <4>4 DEF Prevs
      <4>6. s \in SurfacesOf(t)'
        BY <1>2, <3>1, <3>2, <3>3 DEF SurfacesOf
      <4>7. \E k2 : k2 \in Prevs(n, u)'
        BY <3>3, <4>2, <4>5
      <4> QED BY <1>2, <3>2, <4>2, <4>6, <4>7
    <3>4. CASE u # t /\ Touches(t, s) /\ last[s] = u
      <4>1. n = t
        BY <1>5, <2>1, <3>1, <3>2, <3>4
      <4>2. PICK i \in DOMAIN entries[t] :
               entries[t][i].surface = s /\ i \notin Again(t)
        BY <1>1, <3>4, FirstEntry DEF Touches
      <4>3. entries'[t][i].prev = u
        BY <1>6, <3>4, <4>2 DEF Touches
      <4>4. i \in Prevs(t, u)'
        BY <1>2, <4>2, <4>3 DEF Prevs
      <4>5. s \in SurfacesOf(t)'
        BY <1>2, <3>4 DEF Touches
      <4> QED BY <1>2, <3>2, <4>1, <4>4, <4>5
    <3>5. CASE u # t /\ ~(Touches(t, s) /\ last[s] = u)
      <4>1. n = entries[u][j].next
        BY <1>5, <2>1, <3>1, <3>2, <3>5
      <4>2. Committed(u)
        BY <1>2, <2>1, <3>5
      <4>3. status[n] = "queued" /\ s \in SurfacesOf(n) /\ Prevs(n, u) # {}
        BY <1>1, <2>1, <3>1, <3>2, <4>1, <4>2 DEF Neighbours
      <4>4. n \in Transactions \ {t}
        BY <1>1, <1>2, <2>1, <3>2, <4>1, EntryFields
      <4>5. Prevs(n, u)' = Prevs(n, u)
        BY <1>2, <1>5, <4>4 DEF Prevs
      <4> QED BY <1>2, <3>2, <4>3, <4>4, <4>5
    <3> QED BY <3>3, <3>4, <3>5
  <2>2. ASSUME NEW u \in Transactions, NEW i \in DOMAIN entries'[u],
               NEW p, p = entries'[u][i].prev, p # None
        PROVE  Committed(p)'
    <3>1. PICK s : s = entries[u][i].surface
      OBVIOUS
    <3>2. i \in DOMAIN entries[u] /\ s \in Surfaces
      BY <1>2, <2>2, <3>1
    <3>3. CASE u = t
      <4>1. p = t \/ p = last[s]
        BY <1>6, <2>2, <3>1, <3>2, <3>3
      <4>2. last[s] \in Transactions \cup {None}
        BY <1>1, <3>2 DEF TypeOK
      <4>3. last[s] # None => Committed(last[s])
        BY <1>1, <3>2 DEF Ends, OnQueue
      <4>4. p = t \/ (p \in Transactions /\ Committed(p))
        BY <2>2, <4>1, <4>2, <4>3
      <4> QED BY <1>2, <4>4
    <3>4. CASE u # t
      <4>1. p = entries[u][i].prev
        BY <1>5, <2>2, <3>2, <3>4
      <4>2. p \in Transactions /\ Committed(p)
        BY <1>1, <2>2, <3>2, <4>1, EntryFields DEF Neighbours
      <4> QED BY <1>2, <4>2
    <3> QED BY <3>3, <3>4
  <2>3. \A u \in Transactions : status'[u] # "applying"
    BY <1>2 DEF Joins
  <2> QED BY <2>1, <2>2, <2>3 DEF Neighbours
<1>12. OneEntryEach'
  <2> SUFFICES ASSUME NEW u \in Transactions, Committed(u)', ~SelfWaiting(u)',
                      NEW i \in DOMAIN entries'[u], NEW j \in DOMAIN entries'[u],
                      entries'[u][i].surface = entries'[u][j].surface,
                      life'[entries'[u][i].surface] # "dead"
               PROVE  i = j
    BY DEF OneEntryEach
  <2>1. /\ i \in DOMAIN entries[u] /\ j \in DOMAIN entries[u]
        /\ entries[u][i].surface = entries[u][j].surface
        /\ life[entries[u][i].surface] # "dead"
    BY <1>1, <1>2
  <2>2. CASE u # t
    BY <1>1, <1>2, <1>7, <2>1, <2>2 DEF OneEntryEach
  <2>3. CASE u = t
    <3>1. i \notin Again(t) /\ j \notin Again(t)
      BY <1>7, <2>3
    <3>2. ~(i < j) /\ ~(j < i)
      BY <2>1, <2>3, <3>1 DEF Again
    <3>3. i \in Nat /\ j \in Nat
      BY <1>1, <2>1, EntryFields
    <3> QED BY <3>2, <3>3
  <2> QED BY <2>2, <2>3
<1>13. Counted'
  <2> SUFFICES ASSUME NEW u \in Transactions, NEW n \in Transactions,
                      Committed(u)', ~SelfWaiting(u)'
               PROVE  Cardinality(Prevs(n, u)') = Cardinality(Nexts(u, n)')
    BY DEF Counted
  <2>1. CASE u = t
    <3>1. Again(t) = {}
      BY <1>7, <2>1
    <3>2. ASSUME NEW k \in DOMAIN entries[n]
          PROVE  entries'[n][k].prev # t
      <4>1. CASE n = t
        BY <1>1, <1>2, <1>4, <1>6, <3>1, <3>2, <4>1
      <4>2. CASE n # t
        BY <1>2, <1>5, <3>2, <4>2
      <4> QED BY <4>1, <4>2
    <3>3. Prevs(n, u)' = {}
      BY <1>2, <2>1, <3>2 DEF Prevs
    <3>4. \A k \in DOMAIN entries[t] : entries'[t][k].next = None
      BY <1>6, <3>1
    <3>5. Nexts(u, n)' = {}
      BY <1>2, <2>1, <3>4 DEF Nexts
    <3> QED BY <3>3, <3>5
  <2>2. CASE u # t /\ n # t
    <3>1. Committed(u) /\ ~SelfWaiting(u)
      BY <1>2, <1>7, <2>2
    <3>2. Prevs(n, u)' = Prevs(n, u)
      BY <1>2, <1>5, <2>2 DEF Prevs
    <3>3. ASSUME NEW j \in DOMAIN entries[u]
          PROVE  entries'[u][j].next = n <=> entries[u][j].next = n
      <4>1. PICK s : s = entries[u][j].surface
        OBVIOUS
      <4>2. CASE Touches(t, s) /\ last[s] = u
        <5>1. entries'[u][j].next = t
          BY <1>5, <2>2, <3>3, <4>1, <4>2
        <5>2. entries[u][j].next \in {None, u}
          <6>1. s \in Surfaces /\ last[s] # None /\ j \in Left(u)
            BY <1>2, <3>3, <4>1, <4>2
          <6>2. j \in Left(last[s]) /\ entries[last[s]][j].surface = s
            BY <4>1, <4>2, <6>1
          <6>3. entries[last[s]][j].next \in {None, last[s]}
            BY <1>1, <6>1, <6>2 DEF Ends
          <6> QED BY <4>2, <6>3
        <5>3. ASSUME entries[u][j].next = n PROVE FALSE
          <6>1. n = u
            BY <5>2, <5>3
          <6>2. Prevs(u, u) # {}
            BY <1>1, <1>2, <3>1, <3>3, <5>3, <6>1 DEF Neighbours
          <6> QED BY <3>1, <6>2 DEF Prevs, SelfWaiting
        <5> QED BY <2>2, <5>1, <5>3
      <4>3. CASE ~(Touches(t, s) /\ last[s] = u)
        BY <1>5, <2>2, <3>3, <4>1, <4>3
      <4> QED BY <4>2, <4>3
    <3>4. Nexts(u, n)' = Nexts(u, n)
      BY <1>2, <3>3 DEF Nexts
    <3>5. Cardinality(Prevs(n, u)) = Cardinality(Nexts(u, n))
      BY <1>1, <3>1 DEF Counted
    <3> QED BY <3>2, <3>4, <3>5
  <2>3. CASE u # t /\ n = t
    <3>1. Committed(u) /\ ~SelfWaiting(u)
      BY <1>2, <1>7, <2>3
    <3>2. PICK A, B : A = Prevs(t, u)' /\ B = Nexts(u, t)'
      OBVIOUS
    <3>3. \A i : i \in A <=> /\ i \in DOMAIN entries[t]
                             /\ life[entries[t][i].surface] # "dead"
                             /\ i \notin Again(t)
                             /\ last[entries[t][i].surface] = u
      <4>1. \A i : i \in A <=> i \in DOMAIN entries[t] /\ entries'[t][i].prev = u
        BY <1>2, <3>2 DEF Prevs
      <4>2. u # None
        OBVIOUS
      <4> QED BY <1>6, <2>3, <4>1, <4>2
    <3>4. \A j : j \in B <=> /\ j \in DOMAIN entries[u]
                             /\ Touches(t, entries[u][j].surface)
                             /\ last[entries[u][j].surface] = u
      <4>1. \A j : j \in B <=> j \in DOMAIN entries[u] /\ entries'[u][j].next = t
        BY <1>2, <3>2 DEF Nexts
      <4> QED BY <1>2, <1>5, <2>3, <4>1
    <3>5. \A i \in A : \E j \in B : entries[u][j].surface = entries[t][i].surface
      <4> SUFFICES ASSUME NEW i \in A
                   PROVE  \E j \in B : entries[u][j].surface = entries[t][i].surface
        OBVIOUS
      <4>1. PICK s : s = entries[t][i].surface
        OBVIOUS
      <4>2. i \in DOMAIN entries[t] /\ life[s] # "dead" /\ last[s] = u /\ s \in Surfaces
        BY <1>2, <3>3, <4>1
      <4>3. PICK j \in DOMAIN entries[u] : entries[u][j].surface = s
        BY <1>1, <1>2, <4>2 DEF Ends, OnQueue
      <4>4. j \in B
        BY <3>4, <4>1, <4>2, <4>3 DEF Touches, SurfacesOf
      <4> QED BY <4>1, <4>3, <4>4
    <3>6. \A j \in B : \E i \in A : entries[u][j].surface = entries[t][i].surface
      <4> SUFFICES ASSUME NEW j \in B
                   PROVE  \E i \in A : entries[u][j].surface = entries[t][i].surface
        OBVIOUS
      <4>1. PICK s : s = entries[u][j].surface
        OBVIOUS
      <4>2. life[s] # "dead" /\ s \in SurfacesOf(t) /\ last[s] = u
        BY <3>4, <4>1 DEF Touches
      <4>3. PICK i \in DOMAIN entries[t] : entries[t][i].surface = s /\ i \notin Again(t)
        BY <1>1, <4>2, FirstEntry
      <4>4. i \in A
        BY <3>3, <4>2, <4>3
      <4> QED BY <4>1, <4>3, <4>4
    <3>7. \A i, k \in A : entries[t][i].surface = entries[t][k].surface => i = k
      <4> SUFFICES ASSUME NEW i \in A, NEW k \in A,
                          entries[t][i].surface = entries[t][k].surface
                   PROVE  i = k
        OBVIOUS
      <4>1. /\ i \in DOMAIN entries[t] /\ k \in DOMAIN entries[t]
            /\ life[entries[t][i].surface] # "dead"
            /\ i \notin Again(t) /\ k \notin Again(t)
        BY <3>3
      <4>2. ~(i < k) /\ ~(k < i)
        BY <4>1 DEF Again
      <4>3. i \in Nat /\ k \in Nat
        BY <1>1, <4>1, EntryFields
      <4> QED BY <4>2, <4>3
    <3>8. \A j, k \in B : entries[u][j].surface = entries[u][k].surface => j = k
      BY <1>1, <3>1, <3>4 DEF OneEntryEach, Touches
    <3>9. PICK f : f = [i \in A |-> CHOOSE j \in B :
                          entries[u][j].surface = entries[t][i].surface]
      OBVIOUS
    <3>10. \A i \in A : f[i] \in B /\ entries[u][f[i]].surface = entries[t][i].surface
      BY <3>5, <3>9
    <3>11. f \in [A -> B]
      BY <3>9, <3>10
    <3>12. \A i, k \in A : f[i] = f[k] => i = k
      BY <3>7, <3>10
    <3>13. \A j \in B : \E i \in A : f[i] = j
      BY <3>6, <3>8, <3>10
    <3>14. ExistsBijection(A, B)
      <4>1. f \in Bijection(A, B)
        BY <3>11, <3>12, <3>13 DEF Bijection, Injection, IsInjective, Surjection
      <4> QED BY <4>1 DEF ExistsBijection
    <3>15. IsFiniteSet(A)
      <4>1. IsFiniteSet(DOMAIN entries[t]) /\ A \subseteq DOMAIN entries[t]
        BY <1>1, <3>3, EntriesFinite
      <4> QED BY <4>1, FS_Subset
    <3>16. Cardinality(A) = Cardinality(B)
      BY <3>14, <3>15, FS_Bijection
    <3> QED BY <2>3, <3>2, <3>16
  <2> QED BY <2>1, <2>2, <2>3
<1> QED BY <1>8, <1>9, <1>10, <1>11, <1>12, <1>13

LEMMA CommitKeeps ==
    ASSUME QueueInv, TypeOK', Commit
    PROVE  QueueInv'
<1>1. PICK t \in Transactions :
         /\ Joins(t) /\ stack # <<>> /\ Head(stack) \in Calls
         /\ Head(stack).op = "commit" /\ Head(stack).tx = t
         /\ Replaced(stack, <<OnTx("tryApply", t)>>, stack')
  BY CommitJoins
<1>2. TypeOK /\ Nesting /\ Inside /\ Settled
  BY DEF QueueInv, Settled
<1>3. PICK a : a = OnTx("tryApply", t)
  OBVIOUS
<1>4. a.op = "tryApply" /\ a.tx = t /\ Replaced(stack, <<a>>, stack')
  BY <1>1, <1>3 DEF OnTx
<1>5. UNCHANGED <<life, clientGone, tree, cached, shown, history>>
  BY Zenon DEF Commit
<1>6. UNCHANGED <<life, clientGone, sub, parent, children, cached, current>>
  BY <1>5 DEF tree, shown
<1>7. Ends' /\ AtEnds' /\ Outside' /\ Neighbours' /\ Counted' /\ OneEntryEach'
  BY <1>1, <1>2, JoinsKeepsQueues
<1>8. /\ \A u \in Transactions : status'[u] = IF u = t THEN "queued" ELSE status[u]
      /\ \A u \in Transactions : Committed(u)' <=> (Committed(u) \/ u = t)
      /\ \A u \in Transactions : SurfacesOf(u)' = SurfacesOf(u)
  BY <1>1, <1>2, JoinsFacts
<1>9. \A u \in Transactions : status[u] # "applying"
  BY <1>1 DEF Joins
<1>10. \A u \in Transactions : status'[u] # "applying"
  BY <1>8, <1>9
<1>11. Outer(stack, 1) = {} /\ OuterSame({})
  <2>1. \A k \in DOMAIN <<a>> : <<a>>[k].op \notin ApplyCalls
    BY <1>4, OneFrame DEF ApplyCalls
  <2> QED BY <1>1, <1>2, <1>4, <2>1, NothingApplied DEF BuildOps
<1>12. OuterOps(stack, 1) \subseteq DesyncOps
  BY <1>1, <1>2, OuterApplying, CallersFacts
<1>13. \A m \in DOMAIN stack : m > 1 => stack[m].op \in DesyncOps
  BY <1>2, <1>12, FurtherOut
<1>14. /\ \A c \in Calls : c.op \notin {"merge", "add"}
       /\ \A c \in Calls' : c.op \notin BuildOps
  <2>1. \A c \in Calls : c = Head(stack) \/ c.op \in DesyncOps
    BY <1>2, <1>13, CallPlaces
  <2>2. \A c \in Calls' : c = a \/ c.op \in DesyncOps
    BY <1>2, <1>4, <1>13, CallsAfter, OneFrame
  <2> QED BY <1>1, <1>4, <2>1, <2>2 DEF BuildOps, DesyncOps
<1>15. BuiltBy(Head(stack))
  BY <1>1, <1>2 DEF Settled, Building
<1>16. /\ \A s \in Surfaces : cached[s] # t
       /\ \E s \in Surfaces : Gathered(t, s) /\ (s \in SurfacesOf(t) \/ Adding(t, s))
  BY <1>1, <1>15 DEF BuiltBy
<1>17. \A u, s : ~Adding(u, s)
  BY <1>14 DEF Adding
<1>18. \E s \in Surfaces : Rooted(t, s)
  <2>1. PICK s \in Surfaces : Gathered(t, s) /\ s \in SurfacesOf(t)
    BY <1>16, <1>17
  <2>2. SurfacesOf(t) \cup {s} = SurfacesOf(t)
    BY <2>1
  <2> QED BY <2>1, <2>2 DEF Gathered, Rooted
<1>19. Children'
  <2>1. /\ \A s \in Surfaces :
             /\ parent'[s] \in {InitialParent[s], None}
             /\ \A c \in children'[s] \cup current'[s].children : InitialParent[c] = s
             /\ \A c \in current'[s].children :
                   life'[c] # "dead" /\ life'[s] # "dead" => sub'[c] /\ parent'[c] = s
        /\ ~clientGone' => \A c \in Surfaces :
             /\ life'[c] # "dead"
             /\ InitialParent[c] # None
             /\ life'[InitialParent[c]] # "dead"
             => sub'[c] /\ parent'[c] = InitialParent[c]
    BY <1>2, <1>6 DEF Settled, Children
  <2>2. \A u \in Transactions : \A i \in DOMAIN entries'[u] :
           \A c \in entries'[u][i].state.children :
              InitialParent[c] = entries'[u][i].surface
    BY <1>1, <1>2 DEF Settled, Children, Joins
  <2>3. \A d \in Calls' : d.op # "add"
    BY <1>14 DEF BuildOps
  <2> QED BY <2>1, <2>2, <2>3 DEF Children
<1>20. Subtrees'
  <2>1. \A u \in Transactions : \A s : /\ Rooted(u, s)' <=> Rooted(u, s)
                                       /\ Gathered(u, s)' <=> Gathered(u, s)
    BY <1>8 DEF Rooted, Gathered
  <2>2. \A u \in Transactions : Committed(u)' => \E c \in Surfaces : Rooted(u, c)'
    BY <1>2, <1>8, <1>18, <2>1 DEF Settled, Subtrees
  <2>3. ASSUME NEW s \in Surfaces, NEW u, u = cached[s], u # None
        PROVE  status'[u] = "pending" /\ Gathered(u, s)' /\ s \in SurfacesOf(u)'
    <3>1. u \in Transactions /\ u # t
      BY <1>2, <1>16, <2>3 DEF TypeOK
    <3>2. status[u] = "pending" /\ Gathered(u, s) /\ s \in SurfacesOf(u)
      BY <1>2, <1>17, <2>3 DEF Settled, Subtrees
    <3> QED BY <1>8, <2>1, <3>1, <3>2
  <2>4. \A c, d \in Surfaces : cached[c] # None /\ cached[c] = cached[d] => c = d
    BY <1>2 DEF Settled, Subtrees
  <2>5. cached' = cached
    BY <1>6
  <2>6. \A s \in Surfaces : cached'[s] # None =>
           /\ status'[cached'[s]] = "pending" /\ Gathered(cached[s], s)'
           /\ s \in SurfacesOf(cached[s])'
    BY <2>3, <2>5
  <2> QED BY <2>2, <2>4, <2>5, <2>6 DEF Subtrees
<1>21. Building'
  BY <1>14 DEF Building, BuiltBy, BuildOps
<1>22. Sorted'
  BY <1>10 DEF Sorted
<1>23. Settled'
  BY <1>7, <1>19, <1>20, <1>21, <1>22 DEF Settled
<1>24. Nesting' /\ Inside'
  <2>1. PICK U : U = Outer(stack, 1)
    OBVIOUS
  <2>2. PICK O : O = OuterOps(stack, 1)
    OBVIOUS
  <2>3. U = {} /\ OuterSame(U)
    BY <1>11, <2>1
  <2>4. O \subseteq CallersOf(a.op)
    BY <1>4, <1>12, <2>2, CallersFacts DEF TryOps
  <2>5. status'[t] = "queued" /\ a.op \notin {"addChild"} \cup ApplyCalls
    BY <1>4, <1>8 DEF ApplyCalls
  <2>6. Fits(a, {}, O)'
    BY <1>4, <2>4, <2>5, EmptyFits
  <2>7. Fits(a, U, O)'
    BY <2>3, <2>6
  <2> QED BY <1>2, <1>4, <1>10, <2>1, <2>2, <2>3, <2>7, OneFrameFits
<1> QED BY <1>23, <1>24 DEF QueueInv

------------------------------------------------------------------------------
(* The steps that build transactions or delete them before they are committed *)

LEMMA BuildStepKeeps ==
    ASSUME QueueInv, TypeOK',
           stack = <<>> \/ Head(stack).op \in BuildOps \cup DesyncOps \cup {"destroyed"},
           NEW cs, Replaced(stack, cs, stack'),
           \A k \in DOMAIN cs :
              /\ cs[k].op \notin {"addChild", "tryApply"} \cup ApplyCalls
              /\ OuterOps(cs, k) \cup OuterOps(stack, 1) \subseteq CallersOf(cs[k].op),
           \A t \in Transactions :
              /\ status'[t] = status[t] \/ (~Committed(t) /\ ~Committed(t)')
              /\ Committed(t) =>
                    /\ DOMAIN entries'[t] = DOMAIN entries[t]
                    /\ \A i \in DOMAIN entries[t] :
                          /\ entries'[t][i].surface = entries[t][i].surface
                          /\ entries'[t][i].prev = entries[t][i].prev
                          /\ entries'[t][i].next = entries[t][i].next,
           \A s \in Surfaces :
              \/ life'[s] = "dead" /\ first'[s] = None /\ last'[s] = None
              \/ life'[s] = life[s] /\ first'[s] = first[s] /\ last'[s] = last[s],
           Outside', Children', Subtrees', Building'
    PROVE  QueueInv'
<1>1. TypeOK /\ Nesting /\ Inside /\ Settled
  BY DEF QueueInv, Settled
<1>2. \A k \in DOMAIN cs : cs[k].op \notin ApplyCalls
  OBVIOUS
<1>3. /\ Outer(stack, 1) = {}
      /\ \A t \in Transactions : status[t] # "applying"
      /\ \A t : Left(t) = DOMAIN entries[t]
      /\ \A t : Left(t)' = DOMAIN entries'[t]
  BY <1>1, <1>2, NothingApplied
<1>4. \A t \in Transactions : status'[t] # "applying"
  BY <1>3 DEF Committed
<1>5. QueuesSame
  <2>1. \A s \in Surfaces : life[s] = "dead" => first[s] = None /\ last[s] = None
    BY <1>1 DEF Settled, Ends
  <2>2. \A s \in Surfaces :
           \/ life'[s] = "dead" /\ first'[s] = None /\ last'[s] = None
           \/ life[s] # "dead" /\ life'[s] # "dead"
                /\ first'[s] = first[s] /\ last'[s] = last[s]
    BY <2>1
  <2>3. \A t \in Transactions : Committed(t) => Left(t)' = Left(t)
    BY <1>3
  <2> QED BY <2>2, <2>3 DEF QueuesSame
<1>6. Ends' /\ AtEnds' /\ Neighbours' /\ Counted' /\ OneEntryEach'
  BY <1>1, <1>5, QueuesKept DEF Settled
<1>7. Sorted'
  BY <1>4 DEF Sorted
<1>8. Settled'
  BY <1>6, <1>7 DEF Settled
<1>9. PICK U : U = Outer(stack, 1)
  OBVIOUS
<1>10. PICK O : O = OuterOps(stack, 1)
  OBVIOUS
<1>11. U = {}
  BY <1>3, <1>9
<1>12. \A k \in DOMAIN cs : Outer(cs, k) = {}
  BY <1>2 DEF Outer
<1>13. ASSUME NEW k \in DOMAIN cs
       PROVE  Fits(cs[k], Outer(cs, k) \cup U, OuterOps(cs, k) \cup O)'
  <2>1. PICK a, W : a = cs[k] /\ W = OuterOps(cs, k) \cup O
    OBVIOUS
  <2>2. W \subseteq CallersOf(a.op) /\ a.op \notin {"addChild", "tryApply"} \cup ApplyCalls
    BY <1>10, <2>1
  <2>3. Fits(a, {}, W)'
    BY <2>2, EmptyFits
  <2>4. PICK V : V = Outer(cs, k) \cup U
    OBVIOUS
  <2>5. V = {}
    BY <1>11, <1>12, <2>4
  <2>6. Fits(a, V, W)'
    BY <2>3, <2>5
  <2> QED BY <2>1, <2>4, <2>6
<1>14. Nesting' /\ Inside'
  <2>1. \A t \in Transactions : status'[t] = "applying" => t \in Outer(cs, 0) \cup U
    BY <1>4
  <2>2. \A t \in U : /\ status'[t] = "applying"
                     /\ SurfacesOf(t)' = SurfacesOf(t)
                     /\ \A x \in Surfaces : Open(t, x)' => Open(t, x)
    BY <1>11
  <2> HIDE DEF Replaced
  <2> QED BY <1>1, <1>9, <1>10, <1>11, <1>13, <2>1, <2>2, StackKept
<1> QED BY <1>8, <1>14 DEF QueueInv

\* Whether a surface is still to be added depends on the calls of add alone.
LEMMA AddingKept ==
    ASSUME TypeOK, NEW cs, Replaced(stack, cs, stack'),
           stack = <<>> \/ Head(stack).op # "add",
           \A k \in DOMAIN cs : cs[k].op # "add"
    PROVE  /\ \A u, s : Adding(u, s)' <=> Adding(u, s)
           /\ \A d : d.op = "add" => (d \in Calls' <=> d \in Calls)
<1>1. \A d \in Calls : d.op = "add" => d \in Calls'
  BY CallsAfter, CallPlaces
<1>2. \A d \in Calls' : d.op = "add" => d \in Calls
  BY CallsAfter DEF Calls
<1> QED BY <1>1, <1>2 DEF Adding

\* The loops that desynchronize are in none of those calls.
LEMMA NoneBuiltYet ==
    ASSUME TypeOK, Nesting,
           stack = <<>> \/ Head(stack).op \in DesyncOps \cup {"destroyed"}
    PROVE  /\ \A c \in Calls : c.op \notin BuildOps
           /\ \A m \in DOMAIN stack : stack[m].op \notin BuildOps
           /\ \A u, s : ~Adding(u, s)
<1>1. \A m \in DOMAIN stack : m > 1 => stack[m].op \notin BuildOps
  BY FurtherOut, CallersFacts, CallPlaces DEF BuildOps, DesyncOps
<1>2. \A c \in Calls : c.op \notin BuildOps
  BY <1>1, CallPlaces DEF BuildOps, DesyncOps
<1>3. \A u, s : ~Adding(u, s)
  BY <1>2 DEF Adding, BuildOps
<1> QED BY <1>2, <1>3 DEF Calls

\* A step that changes neither the surfaces nor what the entries say.
LEMMA ChildrenSame ==
    ASSUME Children, UNCHANGED <<life, clientGone, sub, parent, children, current>>,
           \A t \in Transactions : \A i \in DOMAIN entries'[t] :
              \A c \in entries'[t][i].state.children :
                 InitialParent[c] = entries'[t][i].surface,
           \A d \in Calls' : d.op = "add" =>
              \A c \in d.state.children : InitialParent[c] = d.surface
    PROVE  Children'
<1>1. /\ \A s \in Surfaces :
           /\ parent'[s] \in {InitialParent[s], None}
           /\ \A c \in children'[s] \cup current'[s].children : InitialParent[c] = s
           /\ \A c \in current'[s].children :
                 life'[c] # "dead" /\ life'[s] # "dead" => sub'[c] /\ parent'[c] = s
      /\ ~clientGone' => \A c \in Surfaces :
           /\ life'[c] # "dead"
           /\ InitialParent[c] # None
           /\ life'[InitialParent[c]] # "dead"
           => sub'[c] /\ parent'[c] = InitialParent[c]
  BY DEF Children
<1> QED BY <1>1 DEF Children

LEMMA PlacesOfThree ==
    ASSUME NEW a, NEW b, NEW c, NEW cs, cs = <<a, b, c>>
    PROVE  /\ DOMAIN cs = {1, 2, 3} /\ cs[1] = a /\ cs[2] = b /\ cs[3] = c
           /\ OuterOps(cs, 1) = {b.op, c.op} /\ OuterOps(cs, 2) = {c.op}
           /\ OuterOps(cs, 3) = {}
BY ThreeFrames

\* parentDesynchronized() commits the cached transaction of a surface.
LEMMA CachedCommitKeeps ==
    ASSUME QueueInv, TypeOK', Running("parentDesynchronized"), NEW s \in Surfaces,
           NEW t, t = cached[s], t # None, NEW a, NEW b,
           a = OnTx("commit", t), b = OnSurfaces("desynchronizeChildren", {s}),
           cached' = [cached EXCEPT ![s] = None], VisitVia(s, <<a>> \o <<b>>),
           UNCHANGED <<life, clientGone, tree, queue, shown, history>>
    PROVE  QueueInv'
<1>1. TypeOK /\ Nesting /\ Settled
  BY DEF QueueInv, Settled
<1>2. t \in Transactions
  BY <1>1 DEF TypeOK
<1>3. /\ a \in CallType /\ a.op = "commit" /\ a.tx = t
      /\ b \in CallType /\ b.op = "desynchronizeChildren"
  BY <1>2, CallsTyped DEF OnTx, OnSurfaces, SurfaceCalls
<1>4. /\ stack # <<>> /\ Head(stack).op = "parentDesynchronized"
      /\ Head(stack).op \in SurfaceCalls
      /\ OuterOps(stack, 1) \subseteq DesyncOps
  BY LoopFacts, CallersFacts DEF SurfaceCalls, DesyncOps
<1>5. PICK rest \in CallType :
         /\ rest.op = "parentDesynchronized"
         /\ Replaced(stack, <<a, b, rest>>, stack')
  <2>1. <<a>> \o <<b>> = <<a, b>> /\ <<a, b>> \in Seq(CallType)
    BY <1>3, OneThenOne
  <2>2. PICK rest \in CallType :
           /\ rest.op = Head(stack).op
           /\ Replaced(stack, <<a>> \o <<b>> \o <<rest>>, stack')
    BY <1>1, <1>4, <2>1, VisitReplaces
  <2>3. <<a>> \o <<b>> \o <<rest>> = <<a, b, rest>>
    BY TwoThenOne
  <2> QED BY <1>4, <2>2, <2>3
<1>6. PICK cs : cs = <<a, b, rest>>
  OBVIOUS
<1>7. /\ DOMAIN cs = {1, 2, 3} /\ cs[1] = a /\ cs[2] = b /\ cs[3] = rest
      /\ OuterOps(cs, 1) = {b.op, rest.op} /\ OuterOps(cs, 2) = {rest.op}
      /\ OuterOps(cs, 3) = {} /\ Replaced(stack, cs, stack')
  <2>1. Replaced(stack, cs, stack')
    BY <1>5, <1>6
  <2>2. /\ DOMAIN cs = {1, 2, 3} /\ cs[1] = a /\ cs[2] = b /\ cs[3] = rest
        /\ OuterOps(cs, 1) = {b.op, rest.op} /\ OuterOps(cs, 2) = {rest.op}
        /\ OuterOps(cs, 3) = {}
    BY <1>6, PlacesOfThree
  <2> QED BY <2>1, <2>2
<1>8. \A k \in DOMAIN cs :
         /\ cs[k].op \notin {"addChild", "tryApply"} \cup ApplyCalls
         /\ OuterOps(cs, k) \cup OuterOps(stack, 1) \subseteq CallersOf(cs[k].op)
  <2>1. /\ CallersOf("commit") = DesyncOps
        /\ CallersOf("desynchronizeChildren") = DesyncOps
        /\ CallersOf("parentDesynchronized") = DesyncOps
    BY CallersFacts DEF DesyncOps
  <2>2. \A o \in {"commit", "desynchronizeChildren", "parentDesynchronized"} :
           /\ o \notin {"addChild", "tryApply"} \cup ApplyCalls
           /\ CallersOf(o) = DesyncOps
    BY <2>1 DEF ApplyCalls
  <2>3. /\ cs[1].op = "commit" /\ cs[2].op = "desynchronizeChildren"
        /\ cs[3].op = "parentDesynchronized"
    BY <1>3, <1>5, <1>7
  <2>4. /\ OuterOps(cs, 1) \subseteq DesyncOps /\ OuterOps(cs, 2) \subseteq DesyncOps
        /\ OuterOps(cs, 3) \subseteq DesyncOps
    BY <1>3, <1>5, <1>7 DEF DesyncOps
  <2>5. \A k \in {1, 2, 3} :
           /\ cs[k].op \in {"commit", "desynchronizeChildren", "parentDesynchronized"}
           /\ OuterOps(cs, k) \cup OuterOps(stack, 1) \subseteq DesyncOps
    BY <1>4, <2>3, <2>4
  <2>6. DOMAIN cs = {1, 2, 3}
    BY <1>7
  <2> QED BY <2>2, <2>5, <2>6
<1>9. UNCHANGED <<life, clientGone, sub, parent, children, first, last, status,
                  entries, current>>
  BY DEF tree, queue, shown
<1>10. /\ \A c \in Calls : c.op \notin BuildOps
       /\ \A m \in DOMAIN stack : stack[m].op \notin BuildOps
       /\ \A u, x : ~Adding(u, x)
  BY <1>1, <1>4, NoneBuiltYet DEF DesyncOps
<1>11. \A d \in Calls' : d.op \in BuildOps => d = a
  BY <1>1, <1>3, <1>5, <1>7, <1>10, CallsAfter DEF BuildOps
<1>12. \A u : SurfacesOf(u)' = SurfacesOf(u)
  BY <1>9 DEF SurfacesOf
<1>13. \A u : \A x : Rooted(u, x)' <=> Rooted(u, x)
  BY <1>12 DEF Rooted
<1>14. \A u : \A x : Gathered(u, x)' <=> Gathered(u, x)
  BY <1>12 DEF Gathered
<1>15. \A x \in Surfaces : cached'[x] # None => x # s /\ cached'[x] = cached[x]
  BY <1>1 DEF TypeOK
<1>16. Outside'
  BY <1>1, <1>9 DEF Settled, Outside, Committed
<1>17. Children'
  <2>1. \A d \in Calls' : d.op # "add"
    BY <1>3, <1>11 DEF BuildOps
  <2> QED BY <1>1, <1>9, <2>1, ChildrenSame DEF Settled, Children
<1>18. /\ \A x \in Surfaces : cached[x] # None =>
             /\ status[cached[x]] = "pending" /\ Gathered(cached[x], x)
             /\ x \in SurfacesOf(cached[x])
       /\ \A c, d \in Surfaces : cached[c] # None /\ cached[c] = cached[d] => c = d
       /\ \A u \in Transactions : Committed(u) => \E c \in Surfaces : Rooted(u, c)
  BY <1>1, <1>10 DEF Settled, Subtrees
<1>19. Subtrees'
  <2>1. \A u \in Transactions : Committed(u)' => \E c \in Surfaces : Rooted(u, c)'
    BY <1>9, <1>13, <1>18 DEF Committed
  <2>2. ASSUME NEW x \in Surfaces, NEW u, u = cached'[x], u # None
        PROVE  status'[u] = "pending" /\ Gathered(u, x)' /\ x \in SurfacesOf(u)'
    BY <1>9, <1>12, <1>14, <1>15, <1>18, <2>2
  <2>3. \A c, d \in Surfaces : cached'[c] # None /\ cached'[c] = cached'[d] => c = d
    BY <1>15, <1>18
  <2>4. \A x \in Surfaces : cached'[x] # None =>
           /\ status'[cached'[x]] = "pending" /\ Gathered(cached[x], x)'
           /\ x \in SurfacesOf(cached[x])'
    <3>1. ASSUME NEW x \in Surfaces, cached'[x] # None
          PROVE  /\ status'[cached'[x]] = "pending" /\ Gathered(cached[x], x)'
                 /\ x \in SurfacesOf(cached[x])'
      <4>1. PICK u : u = cached'[x]
        OBVIOUS
      <4>2. status'[u] = "pending" /\ Gathered(u, x)' /\ x \in SurfacesOf(u)'
        BY <2>2, <3>1, <4>1
      <4> QED BY <4>1, <4>2
    <3> QED BY <3>1
  <2> QED BY <2>1, <2>3, <2>4 DEF Subtrees
<1>20. Building'
  <2>1. \A x \in Surfaces : cached'[x] # t
    <3>1. ASSUME NEW x \in Surfaces, cached'[x] = t PROVE FALSE
      BY <1>15, <1>18, <3>1
    <3> QED BY <3>1
  <2>2. status'[t] = "pending" /\ Gathered(t, s)' /\ s \in SurfacesOf(t)'
    BY <1>9, <1>12, <1>14, <1>18
  <2>3. BuiltBy(a)'
    BY <1>3, <2>1, <2>2 DEF BuiltBy
  <2>4. ASSUME NEW d \in Calls' PROVE BuiltBy(d)'
    <3>1. CASE d = a
      BY <2>3, <3>1
    <3>2. CASE d # a
      <4>1. d.op \notin BuildOps
        BY <1>11, <2>4, <3>2
      <4> QED BY <4>1 DEF BuiltBy, BuildOps
    <3> QED BY <3>1, <3>2
  <2> QED BY <2>4 DEF Building
<1>21. \A u \in Transactions : status'[u] = status[u] /\ entries'[u] = entries[u]
  BY <1>9
<1>22. \A x \in Surfaces : life'[x] = life[x] /\ first'[x] = first[x] /\ last'[x] = last[x]
  BY <1>9
<1> QED BY <1>4, <1>7, <1>8, <1>16, <1>17, <1>19, <1>20, <1>21, <1>22,
           BuildStepKeeps DEF DesyncOps

LEMMA ParentDesynchronizedKeeps ==
    ASSUME QueueInv, TypeOK', ParentDesynchronized
    PROVE  QueueInv'
<1>1. PICK s \in Head(stack).todo :
         IF mode[s] = "sync" THEN VisitVia(s, <<>>) /\ UNCHANGED cached
         ELSE /\ cached' = [cached EXCEPT ![s] = None]
              /\ VisitVia(s, (IF cached[s] = None THEN <<>>
                              ELSE <<OnTx("commit", cached[s])>>)
                             \o <<OnSurfaces("desynchronizeChildren", {s})>>)
  BY DEF ParentDesynchronized
<1>2. /\ Running("parentDesynchronized") /\ "parentDesynchronized" \in SurfaceCalls
      /\ UNCHANGED <<life, clientGone, tree, queue, shown, history>>
  BY DEF ParentDesynchronized, SurfaceCalls
<1>3. s \in Surfaces /\ OuterOps(stack, 1) \subseteq DesyncOps
  BY <1>2, LoopFacts, CallersFacts DEF DesyncOps
<1>4. cached' = cached => QuietData
  BY <1>2, QuietIfSame DEF QueueInv, tree, queue, shown
<1>5. PICK b : b = OnSurfaces("desynchronizeChildren", {s})
  OBVIOUS
<1>6. b \in CallType /\ b.op = "desynchronizeChildren"
  BY <1>3, <1>5, CallsTyped DEF OnSurfaces, SurfaceCalls
<1>7. CASE mode[s] = "sync"
  BY <1>1, <1>2, <1>4, <1>7, VisitOnly
<1>8. CASE mode[s] # "sync" /\ cached[s] = None
  <2>1. cached' = [cached EXCEPT ![s] = None] /\ VisitVia(s, <<>> \o <<b>>)
    BY <1>1, <1>5, <1>8
  <2>2. cached' = cached /\ <<>> \o <<b>> = <<b>>
    BY <1>3, <1>8, <2>1 DEF QueueInv, Settled, TypeOK
  <2>3. QuietData /\ VisitVia(s, <<b>>)
    BY <1>4, <2>1, <2>2
  <2>4. PICK U : U = Outer(stack, 1)
    OBVIOUS
  <2>5. PICK O : O = OuterOps(stack, 1)
    OBVIOUS
  <2>6. PICK W : W = {"parentDesynchronized"} \cup O
    OBVIOUS
  <2>7. W \subseteq CallersOf(b.op)
    BY <1>3, <1>6, <2>5, <2>6, CallersFacts DEF DesyncOps
  <2>8. b.op \notin {"addChild", "tryApply", "tryFirst", "tryChildren"} \cup ApplyCalls
          \cup BuildOps
    BY <1>6 DEF ApplyCalls, BuildOps
  <2>9. Fits(b, U, W)'
    BY <2>7, <2>8, PlainFits
  <2>10. Fits(b, U, {"parentDesynchronized"} \cup O)'
    BY <2>6, <2>9
  <2> QED BY <1>2, <1>6, <2>3, <2>4, <2>5, <2>8, <2>10, VisitWithCall
<1>9. CASE mode[s] # "sync" /\ cached[s] # None
  <2>1. PICK t : t = cached[s]
    OBVIOUS
  <2>2. PICK a : a = OnTx("commit", t)
    OBVIOUS
  <2>3. cached' = [cached EXCEPT ![s] = None] /\ VisitVia(s, <<a>> \o <<b>>) /\ t # None
    BY <1>1, <1>5, <1>9, <2>1, <2>2
  <2> QED BY <1>2, <1>3, <1>5, <2>1, <2>2, <2>3, CachedCommitKeeps
<1> QED BY <1>7, <1>8, <1>9

LEMMA PlacesOfTwo ==
    ASSUME NEW a, NEW b, NEW cs, cs = <<a, b>>
    PROVE  /\ DOMAIN cs = {1, 2} /\ cs[1] = a /\ cs[2] = b
           /\ OuterOps(cs, 1) = {b.op} /\ OuterOps(cs, 2) = {}
BY TwoFrames

\* wl_surface.commit: the pending state s goes into the transaction t, its
\* cached one or a new one, which is committed at once unless s is synchronized.
Prepares(s, t, sync, m, d, c) ==
    /\ m.op = "merge" /\ m.tx = t /\ m.surface = s
    /\ d.op = "add" /\ d.tx = t /\ d.surface = s /\ d.state.children = children[s]
    /\ c.op = "commit" /\ c.tx = t
    /\ status[t] = "free" \/ (sync /\ cached[s] = t)
    /\ status' = [status EXCEPT ![t] = "pending"]
    /\ cached' = IF sync THEN [cached EXCEPT ![s] = t] ELSE cached
    /\ stack' = IF sync THEN <<m, d>> ELSE <<m, d, c>>
    /\ UNCHANGED <<life, clientGone, tree, first, last, entries, shown>>

LEMMA SurfaceCommitCalls ==
    ASSUME QueueInv, TypeOK', Idle, NEW s \in Surfaces, NEW t \in Transactions,
           NEW sync \in BOOLEAN, NEW m, NEW d, NEW c,
           Prepares(s, t, sync, m, d, c)
    PROVE  QueueInv'
<1> USE ConstantsAssumption
<1>a. /\ m.op = "merge" /\ m.tx = t /\ m.surface = s
      /\ d.op = "add" /\ d.tx = t /\ d.surface = s /\ d.state.children = children[s]
      /\ c.op = "commit" /\ c.tx = t
  BY DEF Prepares
<1>b. /\ status[t] = "free" \/ (sync /\ cached[s] = t)
      /\ status' = [status EXCEPT ![t] = "pending"]
      /\ cached' = IF sync THEN [cached EXCEPT ![s] = t] ELSE cached
      /\ stack' = IF sync THEN <<m, d>> ELSE <<m, d, c>>
      /\ UNCHANGED <<life, clientGone, tree, first, last, entries, shown>>
  BY DEF Prepares
<1>1. TypeOK /\ Nesting /\ Settled /\ t # None /\ stack = <<>> /\ Calls = {}
  BY CallPlaces DEF QueueInv, Settled, Idle
<1>2. OuterOps(stack, 1) = {}
  BY <1>1, OuterApplying
<1>3. PICK cs : cs = stack'
  OBVIOUS
<1>4. Replaced(stack, cs, stack')
  BY <1>3, IdleReplaces
<1>5. /\ CallersOf("merge") = {"add", "commit"} /\ CallersOf("add") = {"commit"}
      /\ CallersOf("commit") = DesyncOps
  BY CallersFacts
<1>6. /\ \A k \in DOMAIN cs :
            /\ cs[k].op \notin {"addChild", "tryApply"} \cup ApplyCalls
            /\ OuterOps(cs, k) \cup OuterOps(stack, 1) \subseteq CallersOf(cs[k].op)
      /\ \A e \in Calls' : e = m \/ e = d \/ (~sync /\ e = c)
      /\ m \in Calls' /\ d \in Calls'
  <2>1. CASE sync
    <3>1. cs = <<m, d>>
      BY <1>3, <1>b, <2>1
    <3>2. /\ DOMAIN cs = {1, 2} /\ cs[1] = m /\ cs[2] = d
          /\ OuterOps(cs, 1) = {d.op} /\ OuterOps(cs, 2) = {}
      BY <3>1, PlacesOfTwo
    <3>3. Calls' = {m, d}
      BY <1>3, <3>2 DEF Calls
    <3> QED BY <1>2, <1>5, <1>a, <3>2, <3>3 DEF ApplyCalls
  <2>2. CASE ~sync
    <3>1. cs = <<m, d, c>>
      BY <1>3, <1>b, <2>2
    <3>2. /\ DOMAIN cs = {1, 2, 3} /\ cs[1] = m /\ cs[2] = d /\ cs[3] = c
          /\ OuterOps(cs, 1) = {d.op, c.op} /\ OuterOps(cs, 2) = {c.op}
          /\ OuterOps(cs, 3) = {}
      BY <3>1, PlacesOfThree
    <3>3. Calls' = {m, d, c}
      BY <1>3, <3>2 DEF Calls
    <3> QED BY <1>2, <1>5, <1>a, <2>2, <3>2, <3>3 DEF ApplyCalls
  <2> QED BY <2>1, <2>2
<1>7. UNCHANGED <<life, clientGone, sub, parent, children, first, last, entries, current>>
  BY <1>b DEF tree, shown
<1>8. /\ \A u, x : ~Adding(u, x)
      /\ Adding(t, s)'
  BY <1>1, <1>6, <1>a DEF Adding
<1>9. /\ \A x \in Surfaces : cached[x] # None =>
            /\ status[cached[x]] = "pending" /\ Gathered(cached[x], x)
            /\ x \in SurfacesOf(cached[x])
      /\ \A x, y \in Surfaces : cached[x] # None /\ cached[x] = cached[y] => x = y
      /\ \A u \in Transactions : Committed(u) => \E x \in Surfaces : Rooted(u, x)
  BY <1>1, <1>8 DEF Settled, Subtrees
<1>10. /\ status[t] \in {"free", "pending"}
       /\ \A x \in Surfaces : cached[x] = t => sync /\ x = s
       /\ Gathered(t, s)
  <2>1. CASE status[t] = "free"
    <3>1. SurfacesOf(t) = {}
      BY <1>1, <2>1 DEF Settled, Outside, SurfacesOf
    <3>2. Gathered(t, s)
      BY <3>1 DEF Gathered
    <3>3. \A x \in Surfaces : cached[x] # t
      BY <1>1, <1>9, <2>1
    <3> QED BY <2>1, <3>2, <3>3
  <2>2. CASE sync /\ cached[s] = t
    BY <1>1, <1>9, <2>2
  <2> QED BY <1>b, <2>1, <2>2
<1>11. \A u \in Transactions :
          /\ status'[u] = IF u = t THEN "pending" ELSE status[u]
          /\ Committed(u)' <=> Committed(u)
          /\ Committed(u) => u # t
  BY <1>1, <1>10, <1>b DEF TypeOK, Committed
<1>12. \A u : SurfacesOf(u)' = SurfacesOf(u)
  BY <1>7 DEF SurfacesOf
<1>13. \A u : \A x : Rooted(u, x)' <=> Rooted(u, x)
  BY <1>12 DEF Rooted
<1>14. \A u : \A x : Gathered(u, x)' <=> Gathered(u, x)
  BY <1>12 DEF Gathered
<1>15. \A x \in Surfaces : cached'[x] = IF sync /\ x = s THEN t ELSE cached[x]
  BY <1>1, <1>b DEF TypeOK
<1>16. Outside'
  <2>1. \A u \in Transactions : status'[u] = "free" => entries'[u] = <<>>
    BY <1>1, <1>7, <1>11 DEF Settled, Outside
  <2>2. \A u \in Transactions : ~Committed(u)' =>
           \A i \in DOMAIN entries'[u] : entries'[u][i].prev = None /\ entries'[u][i].next = None
    BY <1>1, <1>7, <1>11 DEF Settled, Outside
  <2> QED BY <2>1, <2>2 DEF Outside
<1>17. Children'
  <2>1. \A u \in Transactions : \A i \in DOMAIN entries'[u] :
           \A x \in entries'[u][i].state.children :
              InitialParent[x] = entries'[u][i].surface
    BY <1>1, <1>7 DEF Settled, Children
  <2>2. \A e \in Calls' : e.op = "add" => e = d
    BY <1>6, <1>a
  <2>3. \A x \in children[s] : InitialParent[x] = s
    BY <1>1 DEF Settled, Children
  <2>4. \A e \in Calls' : e.op = "add" =>
           \A x \in e.state.children : InitialParent[x] = e.surface
    BY <1>a, <2>2, <2>3
  <2> QED BY <1>1, <1>7, <2>1, <2>4, ChildrenSame DEF Settled
<1>18. Subtrees'
  <2>1. \A u \in Transactions : Committed(u)' => \E x \in Surfaces : Rooted(u, x)'
    BY <1>9, <1>11, <1>13
  <2>2. ASSUME NEW x \in Surfaces, cached'[x] # None
        PROVE  /\ status'[cached'[x]] = "pending" /\ Gathered(cached[x], x)'
               /\ x \in SurfacesOf(cached[x])' \/ Adding(cached[x], x)'
    <3>1. PICK u : u = cached'[x]
      OBVIOUS
    <3>2. u \in Transactions
      BY <2>2, <3>1 DEF TypeOK
    <3>3. CASE sync /\ x = s
      <4>1. u = t
        BY <1>15, <3>1, <3>3
      <4>2. status'[u] = "pending" /\ Gathered(u, x)' /\ Adding(u, x)'
        BY <1>8, <1>10, <1>11, <1>14, <3>3, <4>1
      <4> QED BY <3>1, <4>2
    <3>4. CASE ~(sync /\ x = s)
      <4>1. u = cached[x] /\ u # t
        BY <1>10, <1>15, <3>1, <3>4
      <4>2. status'[u] = "pending" /\ Gathered(u, x)' /\ x \in SurfacesOf(u)'
        BY <1>9, <1>11, <1>12, <1>14, <2>2, <3>1, <3>2, <4>1
      <4> QED BY <3>1, <4>2
    <3> QED BY <3>3, <3>4
  <2>3. \A x, y \in Surfaces : cached'[x] # None /\ cached'[x] = cached'[y] => x = y
    BY <1>9, <1>10, <1>15
  <2> QED BY <2>1, <2>2, <2>3 DEF Subtrees
<1>19. Building'
  <2>1. \A x \in Surfaces : cached'[x] = t => sync /\ x = s
    BY <1>10, <1>15
  <2>2. status'[t] = "pending" /\ Gathered(t, s)'
    BY <1>10, <1>11, <1>14
  <2>3. BuiltBy(m)'
    BY <1>8, <1>a, <2>1, <2>2 DEF BuiltBy
  <2>4. BuiltBy(d)'
    BY <1>6, <1>a, <2>1, <2>2 DEF BuiltBy
  <2>5. ~sync => BuiltBy(c)'
    BY <1>8, <1>a, <2>1, <2>2 DEF BuiltBy
  <2> QED BY <1>6, <2>3, <2>4, <2>5 DEF Building
<1>20. \A u \in Transactions :
          /\ status'[u] = status[u] \/ (~Committed(u) /\ ~Committed(u)')
          /\ entries'[u] = entries[u]
  BY <1>7, <1>11
<1>21. \A x \in Surfaces : life'[x] = life[x] /\ first'[x] = first[x] /\ last'[x] = last[x]
  BY <1>7
<1> QED BY <1>1, <1>4, <1>6, <1>16, <1>17, <1>18, <1>19, <1>20, <1>21, BuildStepKeeps

LEMMA SurfaceCommitPrepares ==
    ASSUME NEW s \in Surfaces, NEW shape \in CommitShapes, SurfaceCommit(s, shape)
    PROVE  \E t \in Transactions : \E m, d, c :
              Prepares(s, t, Synchronized(s), m, d, c) /\ d.state.content = commits[s] + 1
<1> DEFINE sync == Synchronized(s)
           state == [content |-> commits[s] + 1,
                     buffer |-> shape.buffer,
                     barrier |-> shape.barrier,
                     wait |-> shape.wait /\ ~sync,
                     generation |-> MainGeneration(s),
                     children |-> children[s]]
<1>1. PICK t \in Transactions :
         /\ IF sync /\ cached[s] # None THEN t = cached[s]
            ELSE Unused # {} /\ Create(t)
         /\ status' = [status EXCEPT ![t] = "pending"]
         /\ cached' = IF sync THEN [cached EXCEPT ![s] = t] ELSE cached
         /\ stack' = <<Merge(t, s), Add(t, s, state)>>
                       \o (IF sync THEN <<>> ELSE <<OnTx("commit", t)>>)
  BY Zenon DEF SurfaceCommit
<1>2. Idle /\ UNCHANGED <<life, clientGone, tree, first, last, entries, shown>>
  BY Zenon DEF SurfaceCommit
<1>3. sync \in BOOLEAN
  BY DEF Synchronized
<1>4. state.children = children[s] /\ state.content = commits[s] + 1
  OBVIOUS
<1> HIDE DEF sync, state
<1>5. status[t] = "free" \/ (sync /\ cached[s] = t)
  <2>1. CASE sync /\ cached[s] # None
    BY <1>1, <2>1
  <2>2. CASE ~(sync /\ cached[s] # None)
    <3>1. Unused # {} /\ t = CHOOSE u \in Unused : TRUE
      BY <1>1, <2>2 DEF Create
    <3> QED BY <3>1 DEF Unused
  <2> QED BY <2>1, <2>2
<1>6. PICK m, d, c : m = Merge(t, s) /\ d = Add(t, s, state) /\ c = OnTx("commit", t)
  OBVIOUS
<1>7. /\ m.op = "merge" /\ m.tx = t /\ m.surface = s
      /\ d.op = "add" /\ d.tx = t /\ d.surface = s /\ d.state.children = children[s]
      /\ d.state.content = commits[s] + 1
      /\ c.op = "commit" /\ c.tx = t
  BY <1>4, <1>6 DEF Merge, Add, OnTx
<1>8. stack' = <<m, d>> \o (IF sync THEN <<>> ELSE <<c>>)
  BY <1>1, <1>6
<1>9. stack' = IF sync THEN <<m, d>> ELSE <<m, d, c>>
  <2>1. <<m, d>> \o <<>> = <<m, d>>
    BY <1>8
  <2>2. <<m, d>> \o <<c>> = <<m, d, c>>
    <3>1. <<m>> \o <<d>> \o <<c>> = <<m, d, c>> /\ <<m>> \o <<d>> = <<m, d>>
      BY TwoThenOne, OneThenOne
    <3> QED BY <3>1
  <2> QED BY <1>3, <1>8, <2>1, <2>2
<1>10. /\ status' = [status EXCEPT ![t] = "pending"]
       /\ cached' = IF sync THEN [cached EXCEPT ![s] = t] ELSE cached
  BY <1>1
<1>11. PICK S : S = sync
  OBVIOUS
<1>12. /\ status[t] = "free" \/ (S /\ cached[s] = t)
       /\ cached' = IF S THEN [cached EXCEPT ![s] = t] ELSE cached
       /\ stack' = IF S THEN <<m, d>> ELSE <<m, d, c>>
  BY <1>3, <1>5, <1>9, <1>10, <1>11
<1>13. Prepares(s, t, S, m, d, c)
  BY <1>2, <1>7, <1>10, <1>12 DEF Prepares
<1> QED BY <1>7, <1>11, <1>13 DEF sync

LEMMA SurfaceCommitKeeps ==
    ASSUME QueueInv, TypeOK', NEW s \in Surfaces, NEW shape \in CommitShapes,
           SurfaceCommit(s, shape)
    PROVE  QueueInv'
<1>1. PICK S : S = Synchronized(s)
  OBVIOUS
<1>2. PICK t \in Transactions : \E m, d, c : Prepares(s, t, S, m, d, c)
  BY <1>1, SurfaceCommitPrepares
<1>3. S \in BOOLEAN
  BY <1>1 DEF Synchronized
<1>4. Idle
  BY DEF SurfaceCommit
<1> QED BY <1>2, <1>3, <1>4, SurfaceCommitCalls

\* No two calls add to a transaction.
LEMMA OneAdd ==
    ASSUME TypeOK, Nesting, NEW d \in Calls, d.op = "add", NEW e \in Calls, e.op = "add"
    PROVE  d = e
<1>1. PICK k \in DOMAIN stack : stack[k] = d
  BY DEF Calls
<1>2. PICK l \in DOMAIN stack : stack[l] = e
  BY DEF Calls
<1>3. ASSUME NEW a \in DOMAIN stack, NEW b \in DOMAIN stack, a < b,
             stack[a].op = "add", stack[b].op = "add"
      PROVE  FALSE
  <2>1. "add" \in OuterOps(stack, a)
    BY <1>3 DEF OuterOps
  <2>2. OuterOps(stack, a) \subseteq CallersOf("add")
    BY <1>3 DEF Nesting, NestedIn
  <2> QED BY <2>1, <2>2, CallersFacts
<1>4. k \in Nat /\ l \in Nat
  BY CallPlaces
<1>5. ~(k < l) /\ ~(l < k)
  BY <1>1, <1>2, <1>3
<1>6. k = l
  BY <1>4, <1>5
<1> QED BY <1>1, <1>2, <1>6

\* What the entries of a transaction are after add().
Extended(t, s, state, w) ==
    /\ \A x : (\E i \in DOMAIN w : w[i].surface = x) <=> x \in SurfacesOf(t) \cup {s}
    /\ \A i \in DOMAIN w :
          \/ i \in DOMAIN entries[t] /\ w[i] = entries[t][i]
          \/ /\ w[i].surface = s /\ w[i].state.children = state.children
             /\ w[i].state.content = state.content
             /\ \/ w[i].prev = None /\ w[i].next = None
                \/ /\ i \in DOMAIN entries[t]
                   /\ w[i].prev = entries[t][i].prev
                   /\ w[i].next = entries[t][i].next

LEMMA WithStateFacts ==
    ASSUME TypeOK, NEW t \in Transactions, NEW s \in Surfaces, NEW state \in StateType,
           NEW w, w = WithState(t, s, state)
    PROVE  Extended(t, s, state, w)
<1> DEFINE fresh == [surface |-> s, state |-> state, fence |-> FALSE,
                     prev |-> None, next |-> None]
           same == EntriesOf(t, s)
           i0 == CHOOSE j \in same : \A k \in same : j <= k
<1>1. PICK es : es = entries[t]
  OBVIOUS
<1>2. /\ es \in Seq(EntryType) /\ DOMAIN es = 1..Len(es) /\ Len(es) \in Nat
      /\ \A i \in DOMAIN es : es[i] \in EntryType
  BY <1>1, LenProperties, ElementOfSeq DEF TypeOK
<1>3. fresh \in EntryType
  BY DEF EntryType
<1>4. /\ fresh.surface = s /\ fresh.state = state /\ fresh.prev = None /\ fresh.next = None
  OBVIOUS
<1>5. same = {i \in DOMAIN es : es[i].surface = s}
  BY <1>1 DEF EntriesOf
<1>6. CASE same = {}
  <2>1. w = Append(es, fresh)
    BY <1>1, <1>6 DEF WithState
  <2> HIDE DEF fresh, same
  <2>2. /\ w \in Seq(EntryType) /\ Len(w) = Len(es) + 1
        /\ \A i \in 1..Len(es) : w[i] = es[i]
        /\ w[Len(es) + 1] = fresh
    BY <1>2, <1>3, <2>1, AppendProperties
  <2>3. DOMAIN w = 1..(Len(es) + 1)
    BY <2>2, LenProperties
  <2>4. \A i \in DOMAIN w : \/ i \in DOMAIN es /\ w[i] = es[i]
                            \/ i = Len(es) + 1 /\ w[i] = fresh
    BY <1>2, <2>2, <2>3
  <2>5. DOMAIN es \subseteq DOMAIN w /\ Len(es) + 1 \in DOMAIN w
    BY <1>2, <2>3
  <2>6. \A x : (\E i \in DOMAIN w : w[i].surface = x) <=> x \in SurfacesOf(t) \cup {s}
    BY <1>1, <1>2, <1>4, <2>2, <2>4, <2>5 DEF SurfacesOf
  <2> QED BY <1>1, <1>4, <2>4, <2>6 DEF Extended
<1>7. CASE same # {}
  <2>1. same \in SUBSET Nat
    BY <1>2, <1>5
  <2>2. i0 \in same
    <3> HIDE DEF same
    <3> QED BY <1>7, <2>1, LeastPlace
  <2>3. w = [es EXCEPT ![i0].state = MergeInto(state, @)]
    BY <1>1, <1>7 DEF WithState
  <2>4. PICK m : m = i0
    OBVIOUS
  <2>5. m \in DOMAIN es /\ es[m].surface = s /\ w = [es EXCEPT ![m].state = MergeInto(state, @)]
    BY <1>5, <2>2, <2>3, <2>4
  <2> HIDE DEF i0, same, fresh
  <2>6. DOMAIN w = DOMAIN es /\ \A i \in DOMAIN es : i # m => w[i] = es[i]
    BY <1>2, <2>5
  <2>7. PICK new : new = MergeInto(state, es[m].state)
    OBVIOUS
  <2>8. w[m] = [es[m] EXCEPT !.state = new]
    BY <1>2, <2>5, <2>7
  <2>9. /\ w[m].surface = s /\ w[m].state = new
        /\ w[m].prev = es[m].prev /\ w[m].next = es[m].next
    BY <1>2, <2>5, <2>8 DEF EntryType
  <2>10. new.children = state.children /\ new.content = state.content
    BY <2>7 DEF MergeInto, StateType
  <2>11. \A x : (\E i \in DOMAIN w : w[i].surface = x) <=> x \in SurfacesOf(t) \cup {s}
    BY <1>1, <2>5, <2>6, <2>9 DEF SurfacesOf
  <2> QED BY <1>1, <2>5, <2>6, <2>9, <2>10, <2>11 DEF Extended
<1> QED BY <1>6, <1>7

LEMMA AddSurfaceKeeps ==
    ASSUME QueueInv, TypeOK', AddSurface
    PROVE  QueueInv'
<1> USE ConstantsAssumption
<1>1. TypeOK /\ Nesting /\ Settled /\ Running("add")
  BY DEF QueueInv, Settled, AddSurface
<1>2. PICK h : h = Head(stack)
  OBVIOUS
<1>3. /\ stack # <<>> /\ h \in Calls /\ h.op = "add" /\ h \in CallType
      /\ h.tx \in Transactions /\ h.surface \in Surfaces /\ h.state \in StateType
  BY <1>1, <1>2, RunningCall, CallFields, CallPlaces
<1>4. PICK t, s : t = h.tx /\ s = h.surface
  OBVIOUS
<1>5. PICK w : w = WithState(t, s, h.state)
  OBVIOUS
<1>6. entries' = [entries EXCEPT ![t] = w]
  BY <1>2, <1>4, <1>5 DEF AddSurface
<1>7. /\ ReturnVia(<<>>)
      /\ UNCHANGED <<life, clientGone, sub, parent, children, current, cached,
                     first, last, status>>
  BY DEF AddSurface, tree, shown
<1>8. PICK cs : cs = <<>>
  OBVIOUS
<1>9. Replaced(stack, cs, stack') /\ DOMAIN cs = {}
  <2>1. cs \in Seq(CallType) /\ DOMAIN cs = {}
    BY <1>8, EmptySeq
  <2> QED BY <1>1, <1>3, <1>7, <1>8, <2>1, ReturnReplaces
<1>10. \A d \in Calls' : d.op = "commit" /\ d \in Calls
  <2>1. \A m \in DOMAIN stack : m > 1 => stack[m].op = "commit"
    BY <1>1, <1>2, <1>3, FurtherOut, CallersFacts
  <2>2. \A d \in Calls' : \E m \in DOMAIN stack : m > 1 /\ stack[m] = d
    BY <1>1, <1>9, CallsAfter
  <2> QED BY <2>1, <2>2 DEF Calls
<1>11. BuiltBy(h)
  BY <1>1, <1>3 DEF Settled, Building
<1>12. /\ status[t] = "pending" /\ Gathered(t, s)
       /\ \A x \in Surfaces : cached[x] = t => x = s
       /\ \A d \in Calls : d.op = "commit" => d.tx = t
  BY <1>3, <1>4, <1>11 DEF BuiltBy
<1>13. /\ t \in Transactions /\ s \in Surfaces
       /\ \A x : (\E i \in DOMAIN w : w[i].surface = x) <=> x \in SurfacesOf(t) \cup {s}
       /\ \A i \in DOMAIN w :
             \/ i \in DOMAIN entries[t] /\ w[i] = entries[t][i]
             \/ /\ w[i].surface = s /\ w[i].state.children = h.state.children
                /\ \/ w[i].prev = None /\ w[i].next = None
                   \/ /\ i \in DOMAIN entries[t]
                      /\ w[i].prev = entries[t][i].prev
                      /\ w[i].next = entries[t][i].next
  <2>1. t \in Transactions /\ s \in Surfaces
    BY <1>3, <1>4
  <2>2. PICK state \in StateType : state = h.state
    BY <1>3
  <2>3. w = WithState(t, s, state)
    BY <1>5, <2>2
  <2>4. Extended(t, s, state, w)
    BY <1>1, <2>1, <2>3, WithStateFacts
  <2> QED BY <2>1, <2>2, <2>4 DEF Extended
<1>14. /\ \A u \in Transactions : u # t => entries'[u] = entries[u]
       /\ entries'[t] = w
  BY <1>1, <1>6, <1>13 DEF TypeOK
<1>15. /\ \A u \in Transactions : u # t => SurfacesOf(u)' = SurfacesOf(u)
       /\ SurfacesOf(t)' = SurfacesOf(t) \cup {s}
  <2>1. \A u \in Transactions : u # t => SurfacesOf(u)' = SurfacesOf(u)
    BY <1>14 DEF SurfacesOf
  <2>2. \A x : x \in SurfacesOf(t)' <=> \E i \in DOMAIN w : w[i].surface = x
    BY <1>14 DEF SurfacesOf
  <2>3. \A x : x \in SurfacesOf(t)' <=> x \in SurfacesOf(t) \cup {s}
    BY <1>13, <2>2
  <2> QED BY <2>1, <2>3
<1>16. /\ ~Committed(t)
       /\ \A u : Committed(u)' <=> Committed(u)
  BY <1>7, <1>12 DEF Committed
<1>17. Outside'
  <2>1. \A u \in Transactions : status'[u] = "free" => entries'[u] = <<>>
    BY <1>1, <1>7, <1>12, <1>14 DEF Settled, Outside
  <2>2. \A i \in DOMAIN entries[t] : entries[t][i].prev = None /\ entries[t][i].next = None
    BY <1>1, <1>13, <1>16 DEF Settled, Outside
  <2>3. \A i \in DOMAIN w : w[i].prev = None /\ w[i].next = None
    BY <1>13, <2>2
  <2>4. \A u \in Transactions : ~Committed(u)' =>
           \A i \in DOMAIN entries'[u] : entries'[u][i].prev = None /\ entries'[u][i].next = None
    BY <1>1, <1>14, <1>16, <2>3 DEF Settled, Outside
  <2> QED BY <2>1, <2>4 DEF Outside
<1>18. Children'
  <2>1. Children
    BY <1>1 DEF Settled
  <2>2. \A x \in h.state.children : InitialParent[x] = s
    BY <1>3, <1>4, <2>1 DEF Children
  <2>3. \A i \in DOMAIN entries[t] : \A x \in entries[t][i].state.children :
           InitialParent[x] = entries[t][i].surface
    BY <1>13, <2>1 DEF Children
  <2>4. \A i \in DOMAIN w : \A x \in w[i].state.children : InitialParent[x] = w[i].surface
    BY <1>13, <2>2, <2>3
  <2>5. \A u \in Transactions : \A i \in DOMAIN entries'[u] :
           \A x \in entries'[u][i].state.children :
              InitialParent[x] = entries'[u][i].surface
    BY <1>14, <2>1, <2>4 DEF Children
  <2>6. \A d \in Calls' : d.op # "add"
    BY <1>10
  <2> QED BY <1>7, <2>1, <2>5, <2>6, ChildrenSame
<1>19. Gathered(t, s)' /\ s \in SurfacesOf(t)'
  <2>1. \A x \in SurfacesOf(t) :
           x = s \/ (x \in Below(s) /\ InitialParent[x] \in SurfacesOf(t) \cup {s})
    BY <1>12 DEF Gathered
  <2>2. \A x \in SurfacesOf(t)' :
           x = s \/ (x \in Below(s) /\ InitialParent[x] \in SurfacesOf(t)' \cup {s})
    BY <1>15, <2>1
  <2>3. SurfacesOf(t)' = SurfacesOf(t) \cup {s}
    BY <1>15
  <2> QED BY <2>2, <2>3 DEF Gathered
<1>20. /\ \A x \in Surfaces : cached[x] # None =>
             /\ status[cached[x]] = "pending" /\ Gathered(cached[x], x)
             /\ x \in SurfacesOf(cached[x]) \/ Adding(cached[x], x)
       /\ \A x, y \in Surfaces : cached[x] # None /\ cached[x] = cached[y] => x = y
       /\ \A u \in Transactions : Committed(u) => \E x \in Surfaces : Rooted(u, x)
  BY <1>1 DEF Settled, Subtrees
<1>21. Subtrees'
  <2>1. \A u \in Transactions : u # t => \A x : /\ Rooted(u, x)' <=> Rooted(u, x)
                                                /\ Gathered(u, x)' <=> Gathered(u, x)
    BY <1>15 DEF Rooted, Gathered
  <2>2. \A u \in Transactions : Committed(u)' => \E x \in Surfaces : Rooted(u, x)'
    BY <1>16, <1>20, <2>1
  <2>3. ASSUME NEW x \in Surfaces, NEW u, u = cached[x], u # None
        PROVE  status'[u] = "pending" /\ Gathered(u, x)' /\ x \in SurfacesOf(u)'
    <3>1. u \in Transactions
      BY <1>1, <2>3 DEF TypeOK
    <3>2. CASE u = t
      <4>1. x = s
        BY <1>12, <2>3, <3>2
      <4> QED BY <1>7, <1>12, <1>19, <3>2, <4>1
    <3>3. CASE u # t
      <4>1. ~Adding(u, x)
        BY <1>1, <1>3, <1>4, <3>3, OneAdd DEF Adding
      <4>2. status[u] = "pending" /\ Gathered(u, x) /\ x \in SurfacesOf(u)
        BY <1>20, <2>3, <4>1
      <4> QED BY <1>7, <1>15, <2>1, <3>1, <3>3, <4>2
    <3> QED BY <3>2, <3>3
  <2>4. \A x \in Surfaces : cached'[x] # None =>
           /\ status'[cached'[x]] = "pending" /\ Gathered(cached[x], x)'
           /\ x \in SurfacesOf(cached[x])'
    <3>1. cached' = cached
      BY <1>7
    <3> QED BY <2>3, <3>1
  <2> QED BY <1>7, <1>20, <2>2, <2>4 DEF Subtrees
<1>22. Building'
  <2> SUFFICES ASSUME NEW d \in Calls' PROVE BuiltBy(d)'
    BY DEF Building
  <2>1. d.op = "commit" /\ d \in Calls /\ d.tx = t
    BY <1>10, <1>12
  <2>2. \A x \in Surfaces : cached[x] # t
    BY <1>1, <2>1 DEF Settled, Building, BuiltBy
  <2>3. \E x \in Surfaces : Gathered(t, x)' /\ x \in SurfacesOf(t)'
    BY <1>13, <1>19
  <2> QED BY <1>7, <1>12, <2>1, <2>2, <2>3 DEF BuiltBy
<1>23. Head(stack).op \in BuildOps
  BY <1>2, <1>3 DEF BuildOps
<1>24. \A u \in Transactions :
          /\ status'[u] = status[u]
          /\ Committed(u) => entries'[u] = entries[u]
  BY <1>7, <1>14, <1>16
<1>25. \A x \in Surfaces : life'[x] = life[x] /\ first'[x] = first[x] /\ last'[x] = last[x]
  BY <1>7
<1> QED BY <1>9, <1>17, <1>18, <1>21, <1>22, <1>23, <1>24, <1>25, BuildStepKeeps

\* The entries w are those of es and of fs.
Merged(es, fs, w) ==
    /\ \A i \in DOMAIN w : \/ \E k \in DOMAIN es : w[i] = es[k]
                           \/ \E k \in DOMAIN fs : w[i] = fs[k]
    /\ \A k \in DOMAIN es : \E i \in DOMAIN w : w[i] = es[k]
    /\ \A k \in DOMAIN fs : \E i \in DOMAIN w : w[i] = fs[k]

LEMMA MergedEntries ==
    ASSUME NEW es \in Seq(EntryType), NEW fs \in Seq(EntryType), NEW w, w = es \o fs
    PROVE  Merged(es, fs, w)
<1>1. PICK m, n : m = Len(es) /\ n = Len(fs)
  OBVIOUS
<1>2. m \in Nat /\ n \in Nat /\ DOMAIN es = 1..m /\ DOMAIN fs = 1..n
  BY <1>1, LenProperties
<1>3. /\ w \in Seq(EntryType) /\ Len(w) = m + n
      /\ \A i \in 1..(m + n) : w[i] = IF i <= m THEN es[i] ELSE fs[i - m]
  BY <1>1, ConcatProperties
<1>4. DOMAIN w = 1..(m + n)
  BY <1>3, LenProperties
<1>5. ASSUME NEW i \in DOMAIN w
      PROVE  (\E k \in DOMAIN es : w[i] = es[k]) \/ (\E k \in DOMAIN fs : w[i] = fs[k])
  <2>1. CASE i <= m
    BY <1>2, <1>3, <1>4, <2>1
  <2>2. CASE ~(i <= m)
    <3>1. i - m \in DOMAIN fs
      BY <1>2, <1>4, <2>2
    <3> QED BY <1>3, <1>4, <2>2, <3>1
  <2> QED BY <2>1, <2>2
<1>6. ASSUME NEW k \in DOMAIN es PROVE \E i \in DOMAIN w : w[i] = es[k]
  <2>1. k \in DOMAIN w /\ k <= m
    BY <1>2, <1>4
  <2> QED BY <1>3, <1>4, <2>1
<1>7. ASSUME NEW k \in DOMAIN fs PROVE \E i \in DOMAIN w : w[i] = fs[k]
  <2>1. k + m \in DOMAIN w /\ ~(k + m <= m) /\ (k + m) - m = k
    BY <1>2, <1>4
  <2>2. w[k + m] = fs[k]
    BY <1>3, <1>4, <2>1
  <2> QED BY <2>1, <2>2
<1> QED BY <1>5, <1>6, <1>7 DEF Merged

\* merge() takes over the cached transaction v of the child c.
Takes(t, v, c) ==
    /\ c \in Surfaces /\ cached[c] = v
    /\ entries' = [entries EXCEPT ![t] = @ \o entries[v], ![v] = <<>>]
    /\ status' = [status EXCEPT ![v] = "free"]
    /\ cached' = [cached EXCEPT ![c] = None]
    /\ UNCHANGED <<life, clientGone, sub, parent, children, current, first, last>>

LEMMA MergeCallFacts ==
    ASSUME TypeOK, Nesting, Settled, Running("merge"), NEW h, h = Head(stack)
    PROVE  /\ stack # <<>> /\ h \in Calls /\ h.op = "merge" /\ h \in CallType
           /\ h.tx \in Transactions /\ h.surface \in Surfaces
           /\ status[h.tx] = "pending" /\ Gathered(h.tx, h.surface)
           /\ \A x \in Surfaces : cached[x] = h.tx => x = h.surface
           /\ Adding(h.tx, h.surface)
           /\ \A d \in Calls : d.op = "add" => d.tx = h.tx /\ d.surface = h.surface
           /\ \A d \in Calls : d.op = "merge" => d = h
           /\ \A d \in Calls : d.op = "commit" => d.tx = h.tx
           /\ \A d \in Calls : d.op \in {"merge", "add", "commit"}
           /\ OuterOps(stack, 1) \subseteq {"add", "commit"}
<1>1. /\ stack # <<>> /\ h \in Calls /\ h.op = "merge" /\ h \in CallType
      /\ h.tx \in Transactions /\ h.surface \in Surfaces
  BY RunningCall, CallFields, CallPlaces
<1>2. BuiltBy(h)
  BY <1>1 DEF Settled, Building
<1>3. PICK t, s : t = h.tx /\ s = h.surface
  OBVIOUS
<1>4. /\ status[t] = "pending" /\ Gathered(t, s) /\ Adding(t, s)
      /\ \A x \in Surfaces : cached[x] = t => x = s
  BY <1>1, <1>2, <1>3 DEF BuiltBy
<1>5. PICK a \in Calls : a.op = "add" /\ a.tx = t /\ a.surface = s
  BY <1>4 DEF Adding
<1>6. \A d \in Calls : d.op = "add" => d = a
  BY <1>5, OneAdd
<1>7. BuiltBy(a)
  BY <1>5 DEF Settled, Building
<1>8. \A d \in Calls : d.op = "commit" => d.tx = t
  BY <1>5, <1>7 DEF BuiltBy
<1>9. \A m \in DOMAIN stack : m > 1 => stack[m].op \in {"add", "commit"}
  BY <1>1, FurtherOut, CallersFacts
<1>10. \A d \in Calls : d = h \/ d.op \in {"add", "commit"}
  BY <1>9, CallPlaces
<1>11. OuterOps(stack, 1) \subseteq {"add", "commit"}
  BY <1>1, OuterApplying, CallersFacts
<1> QED BY <1>1, <1>3, <1>4, <1>5, <1>6, <1>8, <1>10, <1>11

LEMMA TakesKeeps ==
    ASSUME QueueInv, TypeOK', Running("merge"), NEW h, h = Head(stack),
           NEW t, t = h.tx, NEW s, s = h.surface, NEW v, v # None, NEW c,
           Takes(t, v, c), InitialParent[c] = s, stack' = stack
    PROVE  QueueInv'
<1> USE ConstantsAssumption
<1>1. TypeOK /\ Nesting /\ Settled
  BY DEF QueueInv, Settled
<1>2. /\ stack # <<>> /\ h \in Calls /\ h.op = "merge" /\ h \in CallType
      /\ t \in Transactions /\ s \in Surfaces
      /\ status[t] = "pending" /\ Gathered(t, s)
      /\ \A x \in Surfaces : cached[x] = t => x = s
      /\ Adding(t, s)
      /\ \A d \in Calls : d.op = "add" => d.tx = t /\ d.surface = s
      /\ \A d \in Calls : d.op = "merge" => d = h
      /\ \A d \in Calls : d.op = "commit" => d.tx = t
      /\ \A d \in Calls : d.op \in {"merge", "add", "commit"}
      /\ OuterOps(stack, 1) \subseteq {"add", "commit"}
  BY <1>1, MergeCallFacts
<1>3. /\ c \in Surfaces /\ cached[c] = v
      /\ entries' = [entries EXCEPT ![t] = @ \o entries[v], ![v] = <<>>]
      /\ status' = [status EXCEPT ![v] = "free"]
      /\ cached' = [cached EXCEPT ![c] = None]
      /\ UNCHANGED <<life, clientGone, sub, parent, children, current, first, last>>
  BY DEF Takes
<1>4. Calls' = Calls
  BY DEF Calls
<1>5. \A u, x : Adding(u, x)' <=> Adding(u, x)
  BY <1>4 DEF Adding
<1>6. c \in Below(s) /\ c # s
  BY <1>2, <1>3, BelowFacts
<1>7. /\ \A x \in Surfaces : cached[x] # None =>
            /\ status[cached[x]] = "pending" /\ Gathered(cached[x], x)
            /\ x \in SurfacesOf(cached[x]) \/ Adding(cached[x], x)
      /\ \A x, y \in Surfaces : cached[x] # None /\ cached[x] = cached[y] => x = y
      /\ \A u \in Transactions : Committed(u) => \E x \in Surfaces : Rooted(u, x)
  BY <1>1 DEF Settled, Subtrees
<1>8. v \in Transactions /\ v # t /\ status[v] = "pending" /\ Gathered(v, c)
  <2>1. v \in Transactions
    <3>1. cached[c] \in Transactions \cup {None}
      BY <1>1, <1>3 DEF TypeOK
    <3> QED BY <1>3, <3>1
  <2>2. v # t
    BY <1>2, <1>3, <1>6
  <2>3. status[v] = "pending" /\ Gathered(v, c)
    BY <1>3, <1>7
  <2> QED BY <2>1, <2>2, <2>3
<1>9. ~Adding(v, c)
  BY <1>2, <1>8 DEF Adding
<1>10. c \in SurfacesOf(v)
  BY <1>3, <1>7, <1>8, <1>9
<1>11. PICK w : w = entries[t] \o entries[v]
  OBVIOUS
<1>12. /\ \A u \in Transactions \ {t, v} : entries'[u] = entries[u]
       /\ entries'[t] = w /\ entries'[v] = <<>>
  <2>1. PICK E : E = entries
    OBVIOUS
  <2>2. E \in [Transactions -> Seq(EntryType)]
    BY <1>1, <2>1 DEF TypeOK
  <2>3. entries' = [E EXCEPT ![t] = @ \o E[v], ![v] = <<>>]
    BY <1>3, <2>1
  <2>4. w = E[t] \o E[v]
    BY <1>11, <2>1
  <2>5. entries'[v] = <<>>
    BY <1>2, <1>8, <2>2, <2>3
  <2>6. entries'[t] = w
    BY <1>2, <1>8, <2>2, <2>3, <2>4
  <2>7. \A u \in Transactions \ {t, v} : entries'[u] = E[u]
    BY <1>2, <1>8, <2>2, <2>3
  <2> QED BY <2>1, <2>5, <2>6, <2>7
<1>13. Merged(entries[t], entries[v], w)
  <2>1. PICK es, fs : es = entries[t] /\ fs = entries[v]
    OBVIOUS
  <2>2. es \in Seq(EntryType) /\ fs \in Seq(EntryType)
    BY <1>1, <1>2, <1>8, <2>1 DEF TypeOK
  <2>3. w = es \o fs
    BY <1>11, <2>1
  <2>4. Merged(es, fs, w)
    BY <2>2, <2>3, MergedEntries
  <2> QED BY <2>1, <2>4
<1>14. /\ \A u \in Transactions \ {t, v} : SurfacesOf(u)' = SurfacesOf(u)
       /\ SurfacesOf(t)' = SurfacesOf(t) \cup SurfacesOf(v)
  <2>1. \A u \in Transactions \ {t, v} : SurfacesOf(u)' = SurfacesOf(u)
    BY <1>12 DEF SurfacesOf
  <2>2. \A x : x \in SurfacesOf(t)' <=> \E i \in DOMAIN w : w[i].surface = x
    BY <1>12 DEF SurfacesOf
  <2>3. /\ \A x : x \in SurfacesOf(t) <=> \E i \in DOMAIN entries[t] : entries[t][i].surface = x
        /\ \A x : x \in SurfacesOf(v) <=> \E i \in DOMAIN entries[v] : entries[v][i].surface = x
    BY DEF SurfacesOf
  <2>4. \A x : x \in SurfacesOf(t)' => x \in SurfacesOf(t) \cup SurfacesOf(v)
    BY <1>13, <2>2, <2>3 DEF Merged
  <2>5. \A x : x \in SurfacesOf(t) \cup SurfacesOf(v) => x \in SurfacesOf(t)'
    BY <1>13, <2>2, <2>3 DEF Merged
  <2> QED BY <2>1, <2>4, <2>5
<1>15. \A u \in Transactions :
          /\ status'[u] = IF u = v THEN "free" ELSE status[u]
          /\ Committed(u)' <=> Committed(u)
          /\ Committed(u) => u \notin {t, v}
  <2>1. \A u \in Transactions : status'[u] = IF u = v THEN "free" ELSE status[u]
    BY <1>1, <1>3, <1>8 DEF TypeOK
  <2> QED BY <1>2, <1>8, <2>1 DEF Committed
<1>16. \A x \in Surfaces : cached'[x] = IF x = c THEN None ELSE cached[x]
  BY <1>1, <1>3 DEF TypeOK
<1>17. Outside'
  <2>1. \A u \in Transactions : status'[u] = "free" => entries'[u] = <<>>
    BY <1>1, <1>2, <1>12, <1>15 DEF Settled, Outside
  <2>2. /\ \A i \in DOMAIN entries[t] : entries[t][i].prev = None /\ entries[t][i].next = None
        /\ \A i \in DOMAIN entries[v] : entries[v][i].prev = None /\ entries[v][i].next = None
    BY <1>1, <1>2, <1>8, <1>15 DEF Settled, Outside
  <2>3. \A i \in DOMAIN w : w[i].prev = None /\ w[i].next = None
    BY <1>13, <2>2 DEF Merged
  <2>4. \A u \in Transactions : ~Committed(u)' =>
           \A i \in DOMAIN entries'[u] : entries'[u][i].prev = None /\ entries'[u][i].next = None
    <3>1. DOMAIN entries'[v] = {}
      BY <1>12
    <3> QED BY <1>1, <1>12, <1>15, <2>3, <3>1 DEF Settled, Outside
  <2> QED BY <2>1, <2>4 DEF Outside
<1>18. Children'
  <2>1. Children
    BY <1>1 DEF Settled
  <2>2. \A u \in {t, v} : \A i \in DOMAIN entries[u] : \A x \in entries[u][i].state.children :
           InitialParent[x] = entries[u][i].surface
    BY <1>2, <1>8, <2>1 DEF Children
  <2>3. \A i \in DOMAIN w : \A x \in w[i].state.children : InitialParent[x] = w[i].surface
    BY <1>13, <2>2 DEF Merged
  <2>4. \A u \in Transactions : \A i \in DOMAIN entries'[u] :
           \A x \in entries'[u][i].state.children :
              InitialParent[x] = entries'[u][i].surface
    <3>1. DOMAIN entries'[v] = {}
      BY <1>12
    <3> QED BY <1>12, <2>1, <2>3, <3>1 DEF Children
  <2>5. \A d \in Calls' : d.op = "add" =>
           \A x \in d.state.children : InitialParent[x] = d.surface
    BY <1>4, <2>1 DEF Children
  <2> QED BY <1>3, <2>1, <2>4, <2>5, ChildrenSame
<1>19. Gathered(t, s)'
  <2>1. PICK S, T, N : S = SurfacesOf(t) /\ T = SurfacesOf(v) /\ N = SurfacesOf(t)'
    OBVIOUS
  <2>2. N = S \cup T
    BY <1>14, <2>1
  <2>3. \A x \in S : x = s \/ (x \in Below(s) /\ InitialParent[x] \in S \cup {s})
    BY <1>2, <2>1 DEF Gathered
  <2>4. \A x \in T : x = c \/ (x \in Below(c) /\ InitialParent[x] \in T \cup {c})
    BY <1>8, <2>1 DEF Gathered
  <2>5. \A x \in Below(c) : x \in Below(s)
    BY <1>2, <1>6, BelowFacts
  <2>6. \A x \in T : x \in Below(s) /\ InitialParent[x] \in T \cup {s}
    BY <1>6, <1>10, <2>1, <2>4, <2>5
  <2>7. \A x \in N : x = s \/ (x \in Below(s) /\ InitialParent[x] \in N \cup {s})
    BY <2>2, <2>3, <2>6
  <2> QED BY <2>1, <2>7 DEF Gathered
<1>20. Subtrees'
  <2>1. \A u \in Transactions \ {t, v} : \A x : /\ Rooted(u, x)' <=> Rooted(u, x)
                                                /\ Gathered(u, x)' <=> Gathered(u, x)
    BY <1>14 DEF Rooted, Gathered
  <2>2. \A u \in Transactions : Committed(u)' => \E x \in Surfaces : Rooted(u, x)'
    BY <1>7, <1>15, <2>1
  <2>3. ASSUME NEW x \in Surfaces, NEW u, u = cached'[x], u # None
        PROVE  /\ status'[u] = "pending" /\ Gathered(u, x)'
               /\ x \in SurfacesOf(u)' \/ Adding(u, x)'
    <3>1. u \in Transactions /\ x # c /\ u = cached[x] /\ u # v
      BY <1>1, <1>3, <1>7, <1>16, <2>3 DEF TypeOK
    <3>2. CASE u = t
      <4>1. x = s
        BY <1>2, <3>1, <3>2
      <4> QED BY <1>2, <1>5, <1>8, <1>15, <1>19, <3>2, <4>1
    <3>3. CASE u # t
      <4>1. /\ status[u] = "pending" /\ Gathered(u, x)
            /\ x \in SurfacesOf(u) \/ Adding(u, x)
        BY <1>7, <2>3, <3>1
      <4> QED BY <1>5, <1>14, <1>15, <2>1, <3>1, <3>3, <4>1
    <3> QED BY <3>2, <3>3
  <2>4. \A x \in Surfaces : cached'[x] # None =>
           /\ status'[cached'[x]] = "pending" /\ Gathered(cached[x], x)'
           /\ x \in SurfacesOf(cached[x])' \/ Adding(cached[x], x)'
    <3> SUFFICES ASSUME NEW x \in Surfaces, cached'[x] # None
                 PROVE  /\ status'[cached'[x]] = "pending" /\ Gathered(cached[x], x)'
                        /\ x \in SurfacesOf(cached[x])' \/ Adding(cached[x], x)'
      OBVIOUS
    <3>1. PICK u : u = cached'[x]
      OBVIOUS
    <3>2. /\ status'[u] = "pending" /\ Gathered(u, x)'
          /\ x \in SurfacesOf(u)' \/ Adding(u, x)'
      BY <2>3, <3>1
    <3> QED BY <3>1, <3>2
  <2>5. \A x, y \in Surfaces : cached'[x] # None /\ cached'[x] = cached'[y] => x = y
    BY <1>7, <1>16
  <2> QED BY <2>2, <2>4, <2>5 DEF Subtrees
<1>21. Building'
  <2> SUFFICES ASSUME NEW d \in Calls' PROVE BuiltBy(d)'
    BY DEF Building
  <2>1. d \in Calls /\ BuiltBy(d)
    BY <1>1, <1>4 DEF Settled, Building
  <2>2. d.tx = t /\ (d.op \in {"merge", "add"} => d.surface = s)
    BY <1>2, <2>1
  <2>3. status'[t] = "pending"
    BY <1>2, <1>8, <1>15
  <2>4. \A x \in Surfaces : cached'[x] = t => cached[x] = t
    BY <1>2, <1>16
  <2>5. d.op = "add" => BuiltBy(d)'
    BY <1>2, <1>4, <1>19, <2>2, <2>3, <2>4 DEF BuiltBy
  <2>6. d.op = "merge" => BuiltBy(d)'
    BY <1>2, <1>5, <1>19, <2>2, <2>3, <2>4 DEF BuiltBy
  <2>7. d.op = "commit" => BuiltBy(d)'
    <3>1. ASSUME d.op = "commit" PROVE \A x \in Surfaces : cached[x] # t
      BY <2>1, <2>2, <3>1 DEF BuiltBy
    <3>2. \E x \in Surfaces : Gathered(t, x)' /\ Adding(t, x)'
      BY <1>2, <1>5, <1>19
    <3> QED BY <2>2, <2>3, <2>4, <3>1, <3>2 DEF BuiltBy
  <2> QED BY <1>2, <2>1, <2>5, <2>6, <2>7
<1>22. PICK cs : cs = <<h>>
  OBVIOUS
<1>23. Replaced(stack, cs, stack')
  <2>1. stack \in Seq(CallType)
    BY <1>1 DEF TypeOK
  <2>2. cs \in Seq(CallType)
    BY <1>2, <1>22
  <2>3. PICK st : st = stack
    OBVIOUS
  <2>4. PICK N : N = cs \o Tail(st)
    OBVIOUS
  <2>5. /\ st \in Seq(CallType) /\ st # <<>> /\ Len(st) \in Nat /\ Len(st) > 0
        /\ Tail(st) \in Seq(CallType) /\ Len(Tail(st)) = Len(st) - 1
        /\ \A i \in 1..Len(Tail(st)) : Tail(st)[i] = st[i + 1]
    BY <1>2, <2>1, <2>3, HeadTailProperties, LenProperties, EmptySeq
  <2>6. /\ N \in Seq(CallType) /\ Len(N) = Len(cs) + Len(Tail(st))
        /\ \A i \in 1..(Len(cs) + Len(Tail(st))) :
              N[i] = IF i <= Len(cs) THEN cs[i] ELSE Tail(st)[i - Len(cs)]
    BY <2>2, <2>4, <2>5, ConcatProperties
  <2>7. Len(cs) = 1 /\ cs[1] = h
    BY <1>22
  <2>8. st[1] = h
    BY <1>1, <1>2, <2>3, CallPlaces
  <2>9. Len(N) = Len(st)
    BY <2>5, <2>6, <2>7
  <2>10. \A i \in 1..Len(N) : N[i] = st[i]
    <3> SUFFICES ASSUME NEW i \in 1..Len(N) PROVE N[i] = st[i]
      OBVIOUS
    <3>1. CASE i = 1
      BY <2>5, <2>6, <2>7, <2>8, <3>1
    <3>2. CASE i # 1
      <4>1. /\ i - 1 \in 1..Len(Tail(st)) /\ (i - 1) + 1 = i /\ ~(i <= 1)
            /\ i \in 1..(Len(cs) + Len(Tail(st)))
        BY <2>5, <2>7, <2>9, <3>2
      <4>2. N[i] = Tail(st)[i - 1]
        BY <2>6, <2>7, <4>1
      <4>3. Tail(st)[i - 1] = st[(i - 1) + 1]
        BY <2>5, <4>1
      <4> QED BY <4>1, <4>2, <4>3
    <3> QED BY <3>1, <3>2
  <2>11. N = st
    BY <2>5, <2>6, <2>9, <2>10, SeqEqual
  <2>12. ReturnVia(cs)
    BY <2>3, <2>4, <2>11 DEF ReturnVia
  <2> QED BY <1>1, <1>2, <2>2, <2>12, ReturnReplaces
<1>24. \A k \in DOMAIN cs :
          /\ cs[k].op \notin {"addChild", "tryApply"} \cup ApplyCalls
          /\ OuterOps(cs, k) \cup OuterOps(stack, 1) \subseteq CallersOf(cs[k].op)
  <2>1. DOMAIN cs = {1} /\ cs[1] = h /\ OuterOps(cs, 1) = {}
    BY <1>22, OneFrame
  <2>2. CallersOf("merge") = {"add", "commit"}
    BY CallersFacts
  <2> QED BY <1>2, <2>1, <2>2 DEF ApplyCalls
<1>25. Head(stack).op \in BuildOps
  BY <1>2 DEF BuildOps
<1>26. \A u \in Transactions :
          /\ status'[u] = status[u] \/ (~Committed(u) /\ ~Committed(u)')
          /\ Committed(u) => entries'[u] = entries[u]
  BY <1>8, <1>12, <1>15 DEF Committed
<1>27. \A x \in Surfaces : life'[x] = life[x] /\ first'[x] = first[x] /\ last'[x] = last[x]
  BY <1>3
<1> QED BY <1>17, <1>18, <1>20, <1>21, <1>23, <1>24, <1>25, <1>26, <1>27, BuildStepKeeps

\* merge() has taken over what its children had cached.
LEMMA MergedAllKeeps ==
    ASSUME QueueInv, TypeOK', Running("merge"), ReturnVia(<<>>),
           UNCHANGED <<life, clientGone, sub, parent, children, current, cached,
                       first, last, status, entries>>
    PROVE  QueueInv'
<1>1. TypeOK /\ Nesting /\ Settled
  BY DEF QueueInv, Settled
<1>2. stack # <<>> /\ Head(stack).op = "merge" /\ Head(stack).op \in BuildOps
  BY <1>1, RunningCall DEF BuildOps
<1>3. PICK cs : cs = <<>>
  OBVIOUS
<1>4. Replaced(stack, cs, stack') /\ DOMAIN cs = {}
  <2>1. cs \in Seq(CallType) /\ DOMAIN cs = {}
    BY <1>3, EmptySeq
  <2> QED BY <1>1, <1>2, <1>3, <2>1, ReturnReplaces
<1>5. /\ \A u, s : Adding(u, s)' <=> Adding(u, s)
      /\ \A d : d.op = "add" => (d \in Calls' <=> d \in Calls)
  <2>1. \A k \in DOMAIN cs : cs[k].op # "add"
    BY <1>4
  <2> HIDE DEF Replaced
  <2> QED BY <1>1, <1>2, <1>4, <2>1, AddingKept
<1>6. \A d \in Calls' : d \in Calls
  <2>1. \A d \in Calls' : \E m \in DOMAIN stack : m > 1 /\ stack[m] = d
    BY <1>1, <1>4, CallsAfter
  <2> QED BY <2>1 DEF Calls
<1>7. \A u : /\ SurfacesOf(u)' = SurfacesOf(u)
             /\ Committed(u)' <=> Committed(u)
             /\ \A x : /\ Rooted(u, x)' <=> Rooted(u, x)
                       /\ Gathered(u, x)' <=> Gathered(u, x)
  BY DEF SurfacesOf, Committed, Rooted, Gathered
<1>8. Outside'
  BY <1>1, <1>7 DEF Settled, Outside
<1>9. Children'
  BY <1>1, <1>6, ChildrenSame DEF Settled, Children
<1>10. Subtrees'
  BY <1>1, <1>5, <1>7 DEF Settled, Subtrees
<1>11. Building'
  <2> SUFFICES ASSUME NEW d \in Calls' PROVE BuiltBy(d)'
    BY DEF Building
  <2>1. d \in Calls /\ BuiltBy(d)
    BY <1>1, <1>6 DEF Settled, Building
  <2> QED BY <1>5, <1>6, <1>7, <2>1 DEF BuiltBy
<1>12. \A u \in Transactions : status'[u] = status[u] /\ entries'[u] = entries[u]
  OBVIOUS
<1>13. \A x \in Surfaces : life'[x] = life[x] /\ first'[x] = first[x] /\ last'[x] = last[x]
  OBVIOUS
<1> QED BY <1>2, <1>4, <1>8, <1>9, <1>10, <1>11, <1>12, <1>13, BuildStepKeeps

LEMMA MergeChildKeeps ==
    ASSUME QueueInv, TypeOK', MergeChild
    PROVE  QueueInv'
<1> DEFINE t == Head(stack).tx
           holders == {c \in children[Head(stack).surface] : cached[c] # None}
<1>1. TypeOK /\ Nesting /\ Settled /\ Running("merge")
  BY DEF QueueInv, Settled, MergeChild
<1>2. UNCHANGED <<life, clientGone, sub, parent, children, current, first, last>>
  BY DEF MergeChild, tree, shown
<1>3. CASE holders = {}
  <2>1. ReturnVia(<<>>) /\ UNCHANGED <<cached, status, entries>>
    BY <1>3, Zenon DEF MergeChild
  <2> QED BY <1>1, <1>2, <2>1, MergedAllKeeps
<1>4. CASE holders # {}
  <2> DEFINE c == CHOOSE h \in holders : TRUE
  <2>1. /\ entries' = [entries EXCEPT ![t] = @ \o entries[cached[c]],
                                      ![cached[c]] = <<>>]
        /\ status' = [status EXCEPT ![cached[c]] = "free"]
        /\ cached' = [cached EXCEPT ![c] = None]
        /\ UNCHANGED stack
    BY <1>4, Zenon DEF MergeChild
  <2>2. Head(stack).surface \in Surfaces
    BY <1>1, RunningCall, CallFields
  <2>3. c \in children[Head(stack).surface] /\ cached[c] # None
    BY <1>4
  <2>4. c \in Surfaces
    BY <1>1, <2>2, <2>3 DEF TypeOK
  <2>5. InitialParent[c] = Head(stack).surface
    BY <1>1, <2>2, <2>3 DEF Settled, Children
  <2>6. PICK v, b, s, r : v = cached[c] /\ b = c /\ s = Head(stack).surface /\ r = t
    OBVIOUS
  <2>7. Takes(r, v, b)
    <3>1. /\ entries' = [entries EXCEPT ![r] = @ \o entries[v], ![v] = <<>>]
          /\ status' = [status EXCEPT ![v] = "free"]
          /\ cached' = [cached EXCEPT ![b] = None]
      BY <2>1, <2>6
    <3>2. b \in Surfaces /\ cached[b] = v
      BY <2>4, <2>6
    <3> QED BY <1>2, <3>1, <3>2 DEF Takes
  <2>8. InitialParent[b] = s /\ v # None /\ stack' = stack
    BY <2>1, <2>3, <2>5, <2>6
  <2>9. PICK h : h = Head(stack)
    OBVIOUS
  <2>10. s = h.surface /\ r = h.tx
    BY <2>6, <2>9
  <2> HIDE DEF c, t, holders
  <2> QED BY <1>1, <2>7, <2>8, <2>9, <2>10, TakesKeeps
<1> QED BY <1>3, <1>4

\* B is A, but s may be missing.
Loses(A, B, s) == B \subseteq A /\ A \ {s} \subseteq B

\* The wl_subsurface of s is deleted, and its cached transaction with it.
LeavesTree(s) ==
    /\ \A t \in Transactions :
          /\ status'[t] = IF t = cached[s] THEN "free" ELSE status[t]
          /\ t = cached[s] => entries'[t] = <<>>
          /\ t # cached[s] =>
                /\ DOMAIN entries'[t] = DOMAIN entries[t]
                /\ \A i \in DOMAIN entries[t] :
                      /\ entries'[t][i].surface = entries[t][i].surface
                      /\ entries'[t][i].prev = entries[t][i].prev
                      /\ entries'[t][i].next = entries[t][i].next
                      /\ entries'[t][i].state.content = entries[t][i].state.content
                      /\ Loses(entries[t][i].state.children,
                               entries'[t][i].state.children, s)
    /\ \A x \in Surfaces :
          /\ cached'[x] = IF x = s THEN None ELSE cached[x]
          /\ sub'[x] = IF x = s THEN FALSE ELSE sub[x]
          /\ Loses(children[x], children'[x], s)
          /\ Loses(current[x].children, current'[x].children, s)
          /\ current'[x].content = current[x].content
          /\ parent[s] = x => s \notin current'[x].children

LEMMA UnlinkedFacts ==
    ASSUME TypeOK, NEW s \in Surfaces, Unlinked(s)
    PROVE  LeavesTree(s)
<1> USE ConstantsAssumption
<1> DEFINE p == parent[s]
           amended == IF p = None THEN entries ELSE AmendChildren(p, {}, {s})
<1>1. /\ children' = IF p = None THEN children
                     ELSE [children EXCEPT ![p] = @ \ {s}]
      /\ current' = IF p = None THEN current
                    ELSE [current EXCEPT ![p].children = @ \ {s}]
      /\ entries' = [t \in Transactions |->
                       IF t = cached[s] THEN <<>> ELSE amended[t]]
      /\ status' = [t \in Transactions |->
                      IF t = cached[s] THEN "free" ELSE status[t]]
      /\ cached' = [cached EXCEPT ![s] = None]
      /\ sub' = [sub EXCEPT ![s] = FALSE]
  BY DEF Unlinked
<1>2. p \in Surfaces \cup {None}
  BY DEF TypeOK
<1>3. ASSUME NEW t \in Transactions
      PROVE  /\ DOMAIN amended[t] = DOMAIN entries[t]
             /\ \A i \in DOMAIN entries[t] :
                   /\ amended[t][i].surface = entries[t][i].surface
                   /\ amended[t][i].prev = entries[t][i].prev
                   /\ amended[t][i].next = entries[t][i].next
                   /\ amended[t][i].state.content = entries[t][i].state.content
                   /\ Loses(entries[t][i].state.children, amended[t][i].state.children, s)
  <2>1. CASE p = None
    BY <2>1 DEF Loses
  <2>2. CASE p # None
    <3>1. PICK S : S = Chain(p)
      OBVIOUS
    <3>2. amended = [u \in Transactions |->
             IF u = cached[p] \/ u \in S
             THEN [i \in DOMAIN entries[u] |->
                     IF entries[u][i].surface = p
                     THEN [entries[u][i] EXCEPT !.state.children = (@ \cup {}) \ {s}]
                     ELSE entries[u][i]]
             ELSE entries[u]]
      BY <2>2, <3>1 DEF AmendChildren
    <3>3. PICK es, as : es = entries[t] /\ as = amended[t]
      OBVIOUS
    <3>4. es \in Seq(EntryType)
      BY <3>3 DEF TypeOK
    <3>5. \/ as = es
          \/ as = [i \in DOMAIN es |->
                     IF es[i].surface = p
                     THEN [es[i] EXCEPT !.state.children = (@ \cup {}) \ {s}]
                     ELSE es[i]]
      BY <3>2, <3>3
    <3>6. DOMAIN as = DOMAIN es
      BY <3>5
    <3>7. ASSUME NEW i \in DOMAIN es
          PROVE  /\ as[i].surface = es[i].surface
                 /\ as[i].prev = es[i].prev
                 /\ as[i].next = es[i].next
                 /\ as[i].state.content = es[i].state.content
                 /\ Loses(es[i].state.children, as[i].state.children, s)
      <4>1. PICK e \in EntryType : e = es[i]
        BY <3>4, <3>7, ElementOfSeq
      <4>2. as[i] = e \/ as[i] = [e EXCEPT !.state.children = (@ \cup {}) \ {s}]
        BY <3>5, <4>1
      <4>3. PICK A : A = (e.state.children \cup {}) \ {s}
        OBVIOUS
      <4>4. as[i] = e \/ as[i] = [e EXCEPT !.state.children = A]
        BY <4>2, <4>3
      <4>5. Loses(e.state.children, A, s)
        BY <4>3 DEF Loses
      <4>6. CASE as[i] = e
        BY <4>1, <4>6 DEF Loses
      <4>7. CASE as[i] = [e EXCEPT !.state.children = A]
        <5>1. PICK f : f = as[i]
          OBVIOUS
        <5>2. f = [e EXCEPT !.state.children = A]
          BY <4>7, <5>1
        <5>3. /\ f.surface = e.surface /\ f.prev = e.prev /\ f.next = e.next
              /\ f.state.children = A /\ f.state.content = e.state.content
          BY <5>2 DEF EntryType, StateType
        <5> QED BY <4>1, <4>5, <5>1, <5>3
      <4> QED BY <4>4, <4>6, <4>7
    <3> QED BY <3>3, <3>6, <3>7
  <2> QED BY <2>1, <2>2
<1>4. ASSUME NEW x \in Surfaces
      PROVE  /\ Loses(children[x], children'[x], s)
             /\ Loses(current[x].children, current'[x].children, s)
             /\ current'[x].content = current[x].content
             /\ p = x => s \notin current'[x].children
  <2>1. Loses(children[x], children'[x], s)
    BY <1>1, <1>2 DEF TypeOK, Loses
  <2>2. CASE p = None
    <3>1. current' = current /\ p # x
      BY <1>1, <2>2
    <3> QED BY <2>1, <3>1 DEF Loses
  <2>3. CASE p # None
    <3>1. current' = [current EXCEPT ![p].children = @ \ {s}]
      BY <1>1, <2>3
    <3>2. current \in [Surfaces -> StateType] /\ p \in Surfaces
      BY <1>2, <2>3 DEF TypeOK
    <3>3. current[p] \in StateType
      BY <3>2
    <3>4. x = p => /\ current'[x].children = current[x].children \ {s}
                   /\ current'[x].content = current[x].content
      BY <3>1, <3>2, <3>3 DEF StateType
    <3>5. x # p => current'[x] = current[x]
      BY <3>1, <3>2
    <3> QED BY <2>1, <3>4, <3>5 DEF Loses
  <2> QED BY <2>1, <2>2, <2>3
<1> HIDE DEF p, amended
<1>5. \A t \in Transactions :
         /\ status'[t] = IF t = cached[s] THEN "free" ELSE status[t]
         /\ t = cached[s] => entries'[t] = <<>>
         /\ t # cached[s] => entries'[t] = amended[t]
  BY <1>1
<1>6. \A x \in Surfaces :
         /\ cached'[x] = IF x = s THEN None ELSE cached[x]
         /\ sub'[x] = IF x = s THEN FALSE ELSE sub[x]
  BY <1>1 DEF TypeOK
<1>7. \A x \in Surfaces : parent[s] = x => s \notin current'[x].children
  BY <1>4 DEF p
<1>8. ASSUME NEW t \in Transactions, t # cached[s]
      PROVE  /\ DOMAIN entries'[t] = DOMAIN entries[t]
             /\ \A i \in DOMAIN entries[t] :
                   /\ entries'[t][i].surface = entries[t][i].surface
                   /\ entries'[t][i].prev = entries[t][i].prev
                   /\ entries'[t][i].next = entries[t][i].next
                   /\ entries'[t][i].state.content = entries[t][i].state.content
                   /\ Loses(entries[t][i].state.children,
                            entries'[t][i].state.children, s)
  <2>1. entries'[t] = amended[t]
    BY <1>5, <1>8
  <2> QED BY <1>3, <2>1
<1>9. \A x \in Surfaces : /\ Loses(children[x], children'[x], s)
                         /\ Loses(current[x].children, current'[x].children, s)
                         /\ current'[x].content = current[x].content
  BY <1>4
<1> QED BY <1>5, <1>6, <1>7, <1>8, <1>9 DEF LeavesTree

LEMMA LeavesTreeKeeps ==
    ASSUME QueueInv, TypeOK', NEW s \in Surfaces, LeavesTree(s),
           stack = <<>> \/ Head(stack).op = "destroyed",
           UNCHANGED clientGone, clientGone \/ life'[s] = "dead",
           NEW cs, Replaced(stack, cs, stack'),
           \A k \in DOMAIN cs :
              /\ cs[k].op \notin {"addChild", "tryApply"} \cup ApplyCalls \cup BuildOps
              /\ OuterOps(cs, k) \cup OuterOps(stack, 1) \subseteq CallersOf(cs[k].op),
           \A x \in Surfaces :
              \/ parent'[x] = parent[x]
              \/ /\ parent'[x] = None
                 /\ x = s \/ (parent[x] = s /\ life'[s] = "dead"),
           \A x \in Surfaces :
              \/ life'[x] = "dead" /\ first'[x] = None /\ last'[x] = None
              \/ life'[x] = life[x] /\ first'[x] = first[x] /\ last'[x] = last[x]
    PROVE  QueueInv'
<1> USE ConstantsAssumption
<1>1. TypeOK /\ Nesting /\ Settled
  BY DEF QueueInv, Settled
<1>2. \A t \in Transactions :
         /\ status'[t] = IF t = cached[s] THEN "free" ELSE status[t]
         /\ t = cached[s] => entries'[t] = <<>>
         /\ t # cached[s] =>
               /\ DOMAIN entries'[t] = DOMAIN entries[t]
               /\ \A i \in DOMAIN entries[t] :
                     /\ entries'[t][i].surface = entries[t][i].surface
                     /\ entries'[t][i].prev = entries[t][i].prev
                     /\ entries'[t][i].next = entries[t][i].next
                     /\ entries'[t][i].state.children \subseteq entries[t][i].state.children
  BY DEF LeavesTree, Loses
<1>3. \A x \in Surfaces :
         /\ cached'[x] = IF x = s THEN None ELSE cached[x]
         /\ sub'[x] = IF x = s THEN FALSE ELSE sub[x]
         /\ children'[x] \subseteq children[x]
         /\ current'[x].children \subseteq current[x].children
         /\ parent[s] = x => s \notin current'[x].children
  <2>1. \A x \in Surfaces :
           /\ cached'[x] = IF x = s THEN None ELSE cached[x]
           /\ sub'[x] = IF x = s THEN FALSE ELSE sub[x]
           /\ parent[s] = x => s \notin current'[x].children
    BY DEF LeavesTree
  <2>2. \A x \in Surfaces : Loses(children[x], children'[x], s)
                              /\ Loses(current[x].children, current'[x].children, s)
    BY DEF LeavesTree
  <2>3. \A x \in Surfaces : children'[x] \subseteq children[x]
                              /\ current'[x].children \subseteq current[x].children
    BY <2>2 DEF Loses
  <2> QED BY <2>1, <2>3
<1>4. /\ \A c \in Calls : c.op \notin BuildOps
      /\ \A m \in DOMAIN stack : stack[m].op \notin BuildOps
      /\ \A u, x : ~Adding(u, x)
  BY <1>1, NoneBuiltYet
<1>5. \A d \in Calls' : d.op \notin BuildOps
  BY <1>1, <1>4, CallsAfter
<1>6. /\ \A x \in Surfaces : cached[x] # None =>
            /\ status[cached[x]] = "pending" /\ Gathered(cached[x], x)
            /\ x \in SurfacesOf(cached[x]) \/ Adding(cached[x], x)
      /\ \A x, y \in Surfaces : cached[x] # None /\ cached[x] = cached[y] => x = y
      /\ \A u \in Transactions : Committed(u) => \E x \in Surfaces : Rooted(u, x)
  BY <1>1 DEF Settled, Subtrees
<1>7. \A t \in Transactions : t = cached[s] => status[t] = "pending"
  BY <1>6
<1>8. \A t \in Transactions : /\ Committed(t)' <=> Committed(t)
                              /\ Committed(t) => t # cached[s]
  BY <1>2, <1>7 DEF Committed
<1>9. ASSUME NEW t \in Transactions, t # cached[s]
      PROVE  /\ SurfacesOf(t)' = SurfacesOf(t)
             /\ \A x : /\ Rooted(t, x)' <=> Rooted(t, x)
                       /\ Gathered(t, x)' <=> Gathered(t, x)
  <2>1. /\ DOMAIN entries'[t] = DOMAIN entries[t]
        /\ \A i \in DOMAIN entries[t] : entries'[t][i].surface = entries[t][i].surface
    BY <1>2, <1>9
  <2>2. SurfacesOf(t)' = SurfacesOf(t)
    BY <2>1 DEF SurfacesOf
  <2> QED BY <2>2 DEF Rooted, Gathered
<1>10. Outside'
  <2>1. Outside
    BY <1>1 DEF Settled
  <2>2. ASSUME NEW t \in Transactions
        PROVE  /\ status'[t] = "free" => entries'[t] = <<>>
               /\ ~Committed(t)' => \A i \in DOMAIN entries'[t] :
                     entries'[t][i].prev = None /\ entries'[t][i].next = None
    <3>1. CASE t = cached[s]
      <4>1. entries'[t] = <<>> /\ DOMAIN entries'[t] = {}
        BY <1>2, <3>1
      <4> QED BY <4>1
    <3>2. CASE t # cached[s]
      <4>1. status'[t] = status[t] /\ (Committed(t)' <=> Committed(t))
        BY <1>2, <1>8, <3>2
      <4>2. status[t] = "free" => entries'[t] = <<>>
        <5>1. status[t] = "free" => DOMAIN entries'[t] = {}
          BY <1>2, <2>1, <3>2 DEF Outside
        <5>2. entries'[t] \in Seq(EntryType)
          BY DEF TypeOK
        <5>3. PICK w : w = entries'[t]
          OBVIOUS
        <5>4. w \in Seq(EntryType)
          BY <5>2, <5>3
        <5>5. DOMAIN w = {} => w = <<>>
          BY <5>4
        <5> QED BY <5>1, <5>3, <5>5
      <4>3. ~Committed(t) => \A i \in DOMAIN entries'[t] :
               entries'[t][i].prev = None /\ entries'[t][i].next = None
        BY <1>2, <2>1, <3>2 DEF Outside
      <4> QED BY <4>1, <4>2, <4>3
    <3> QED BY <3>1, <3>2
  <2> QED BY <2>2 DEF Outside
<1>11. Children'
  <2>1. Children
    BY <1>1 DEF Settled
  <2>2. \A x \in Surfaces : /\ children[x] \subseteq Surfaces
                            /\ current[x].children \subseteq Surfaces
    BY <1>1 DEF TypeOK, StateType
  <2>3. \A x \in Surfaces :
           /\ parent'[x] \in {InitialParent[x], None}
           /\ \A c \in children'[x] \cup current'[x].children : InitialParent[c] = x
    <3>1. \A x \in Surfaces : parent'[x] \in {InitialParent[x], None}
      BY <2>1 DEF Children
    <3>2. \A x \in Surfaces : \A c \in children[x] \cup current[x].children :
             InitialParent[c] = x
      BY <2>1 DEF Children
    <3>3. \A x \in Surfaces : children'[x] \cup current'[x].children
                                \subseteq children[x] \cup current[x].children
      BY <1>3
    <3> QED BY <3>1, <3>2, <3>3
  <2>4. ASSUME NEW x \in Surfaces, NEW c \in current'[x].children,
               life'[c] # "dead", life'[x] # "dead"
        PROVE  sub'[c] /\ parent'[c] = x
    <3>1. c \in current[x].children /\ c \in Surfaces
      BY <1>3, <2>2
    <3>2. life[c] # "dead" /\ life[x] # "dead"
      BY <2>4, <3>1
    <3>3. sub[c] /\ parent[c] = x
      BY <2>1, <3>1, <3>2 DEF Children
    <3>4. c # s
      BY <1>3, <3>3
    <3>5. ~(parent[c] = s /\ life'[s] = "dead")
      BY <2>4, <3>3
    <3>6. parent'[c] = parent[c]
      BY <1>3, <3>1, <3>4, <3>5
    <3>7. sub'[c]
      BY <1>3, <3>1, <3>3, <3>4
    <3> QED BY <3>3, <3>6, <3>7
  <2>5. ASSUME NEW t \in Transactions, NEW i \in DOMAIN entries'[t],
               NEW c \in entries'[t][i].state.children
        PROVE  InitialParent[c] = entries'[t][i].surface
    <3>1. t # cached[s]
      <4>1. t = cached[s] => DOMAIN entries'[t] = {}
        BY <1>2
      <4> QED BY <4>1
    <3>2. /\ i \in DOMAIN entries[t] /\ c \in entries[t][i].state.children
          /\ entries'[t][i].surface = entries[t][i].surface
      BY <1>2, <3>1
    <3> QED BY <2>1, <3>2 DEF Children
  <2>6. \A d \in Calls' : d.op # "add"
    BY <1>5 DEF BuildOps
  <2>7. ASSUME ~clientGone', NEW c \in Surfaces, life'[c] # "dead",
               InitialParent[c] # None, life'[InitialParent[c]] # "dead"
        PROVE  sub'[c] /\ parent'[c] = InitialParent[c]
    <3>1. InitialParent[c] \in Surfaces /\ life'[s] = "dead" /\ ~clientGone
      BY <2>7
    <3>2. c # s /\ InitialParent[c] # s
      BY <2>7, <3>1
    <3>3. life[c] # "dead" /\ life[InitialParent[c]] # "dead"
      BY <2>7, <3>1
    <3>4. sub[c] /\ parent[c] = InitialParent[c]
      BY <2>1, <2>7, <3>1, <3>3 DEF Children
    <3>5. parent'[c] = parent[c]
      BY <3>2, <3>4
    <3> QED BY <1>3, <3>2, <3>4, <3>5
  <2> QED BY <2>3, <2>4, <2>5, <2>6, <2>7 DEF Children
<1>12. Subtrees'
  <2>1. \A u \in Transactions : Committed(u)' => \E x \in Surfaces : Rooted(u, x)'
    BY <1>6, <1>8, <1>9
  <2>2. ASSUME NEW x \in Surfaces, NEW u, u = cached'[x], u # None
        PROVE  status'[u] = "pending" /\ Gathered(u, x)' /\ x \in SurfacesOf(u)'
    <3>1. x # s /\ u = cached[x]
      BY <1>3, <2>2
    <3>2. u # cached[s]
      BY <1>6, <2>2, <3>1
    <3>3. u \in Transactions
      <4>1. cached[x] \in Transactions \cup {None}
        BY <1>1 DEF TypeOK
      <4> QED BY <2>2, <3>1, <4>1
    <3>4. status[u] = "pending" /\ Gathered(u, x) /\ x \in SurfacesOf(u)
      BY <1>4, <1>6, <2>2, <3>1
    <3> QED BY <1>2, <1>9, <3>2, <3>3, <3>4
  <2>3. ASSUME NEW x \in Surfaces, cached'[x] # None
        PROVE  /\ status'[cached'[x]] = "pending" /\ Gathered(cached[x], x)'
               /\ x \in SurfacesOf(cached[x])'
    <3>1. PICK u : u = cached'[x]
      OBVIOUS
    <3>2. status'[u] = "pending" /\ Gathered(u, x)' /\ x \in SurfacesOf(u)'
      BY <2>2, <2>3, <3>1
    <3> QED BY <3>1, <3>2
  <2>4. ASSUME NEW x \in Surfaces, NEW y \in Surfaces,
               cached'[x] # None, cached'[x] = cached'[y]
        PROVE  x = y
    <3>1. x # s /\ cached'[x] = cached[x]
      BY <1>3, <2>4
    <3>2. y # s /\ cached'[y] = cached[y]
      BY <1>3, <2>4
    <3>3. cached[x] # None /\ cached[x] = cached[y]
      BY <2>4, <3>1, <3>2
    <3>4. \A a, b \in Surfaces : cached[a] # None /\ cached[a] = cached[b] => a = b
      BY <1>6
    <3> QED BY <3>3, <3>4
  <2> QED BY <2>1, <2>3, <2>4 DEF Subtrees
<1>13. Building'
  BY <1>5 DEF Building, BuiltBy, BuildOps
<1>14. \A u \in Transactions :
          /\ status'[u] = status[u] \/ (~Committed(u) /\ ~Committed(u)')
          /\ Committed(u) =>
                /\ DOMAIN entries'[u] = DOMAIN entries[u]
                /\ \A i \in DOMAIN entries[u] :
                      /\ entries'[u][i].surface = entries[u][i].surface
                      /\ entries'[u][i].prev = entries[u][i].prev
                      /\ entries'[u][i].next = entries[u][i].next
  <2>1. \A u \in Transactions : status'[u] = status[u] \/ (~Committed(u) /\ ~Committed(u)')
    BY <1>2, <1>8
  <2> QED BY <1>2, <1>8, <2>1
<1>15. \A k \in DOMAIN cs :
          /\ cs[k].op \notin {"addChild", "tryApply"} \cup ApplyCalls
          /\ OuterOps(cs, k) \cup OuterOps(stack, 1) \subseteq CallersOf(cs[k].op)
  OBVIOUS
<1> HIDE DEF Replaced
<1> QED BY <1>10, <1>11, <1>12, <1>13, <1>14, <1>15, BuildStepKeeps

LEMMA DestroySubsurfaceKeeps ==
    ASSUME Reparented = {}, QueueInv, TypeOK', NEW s \in Surfaces, DestroySubsurface(s)
    PROVE  QueueInv'
<1>1. TypeOK
  BY DEF QueueInv, Settled
<1>2. /\ Idle /\ clientGone /\ Unlinked(s)
      /\ parent' = [parent EXCEPT ![s] = None]
      /\ stack' = <<OnSurfaces("tryFirst", {s})>>
      /\ UNCHANGED <<life, clientGone, first, last>>
  BY DEF DestroySubsurface
<1>3. LeavesTree(s)
  BY <1>1, <1>2, UnlinkedFacts
<1>4. PICK a : a = OnSurfaces("tryFirst", {s})
  OBVIOUS
<1>5. a.op = "tryFirst"
  BY <1>4 DEF OnSurfaces
<1>6. PICK cs : cs = <<a>>
  OBVIOUS
<1>7. stack = <<>> /\ Replaced(stack, cs, stack')
  BY <1>2, <1>4, <1>6, IdleReplaces DEF Idle
<1>8. \A k \in DOMAIN cs :
         /\ cs[k].op \notin {"addChild", "tryApply"} \cup ApplyCalls \cup BuildOps
         /\ OuterOps(cs, k) \cup OuterOps(stack, 1) \subseteq CallersOf(cs[k].op)
  <2>1. DOMAIN cs = {1} /\ cs[1] = a /\ OuterOps(cs, 1) = {}
    BY <1>6, OneFrame
  <2>2. OuterOps(stack, 1) = {}
    BY <1>7 DEF OuterOps
  <2> QED BY <1>5, <2>1, <2>2 DEF ApplyCalls, BuildOps
<1>9. \A x \in Surfaces : parent'[x] = parent[x] \/ (parent'[x] = None /\ x = s)
  BY <1>1, <1>2 DEF TypeOK
<1>10. \A x \in Surfaces : life'[x] = life[x] /\ first'[x] = first[x] /\ last'[x] = last[x]
  BY <1>2
<1> QED BY <1>2, <1>3, <1>7, <1>8, <1>9, <1>10, LeavesTreeKeeps

LEMMA DestroyedKeeps ==
    ASSUME QueueInv, TypeOK', Destroyed
    PROVE  QueueInv'
<1>1. TypeOK /\ Running("destroyed")
  BY DEF QueueInv, Settled, Destroyed
<1>2. PICK s \in Head(stack).todo :
         /\ Unlinked(s)
         /\ parent' = [c \in Surfaces |-> IF c = s \/ parent[c] = s THEN None ELSE parent[c]]
         /\ life' = [life EXCEPT ![s] = "dead"]
         /\ first' = [first EXCEPT ![s] = None]
         /\ last' = [last EXCEPT ![s] = None]
         /\ VisitVia(s, <<>>)
  BY DEF Destroyed
<1>3. UNCHANGED clientGone
  BY DEF Destroyed
<1>4. /\ stack # <<>> /\ Head(stack).op = "destroyed"
      /\ Head(stack).todo \subseteq Surfaces
      /\ Head(stack).op \in SurfaceCalls
      /\ OuterOps(stack, 1) \subseteq CallersOf("destroyed")
  <2>1. "destroyed" \in SurfaceCalls
    BY DEF SurfaceCalls
  <2> QED BY <1>1, <2>1, LoopFacts
<1>5. s \in Surfaces
  BY <1>2, <1>4
<1>6. LeavesTree(s)
  BY <1>1, <1>2, <1>5, UnlinkedFacts
<1>7. PICK rest \in CallType : /\ rest.op = Head(stack).op
                               /\ rest.todo = Head(stack).todo \ {s}
                               /\ Replaced(stack, <<>> \o <<rest>>, stack')
  <2>1. <<>> \in Seq(CallType)
    BY EmptySeq
  <2> QED BY <1>1, <1>2, <1>4, <2>1, VisitReplaces
<1>8. <<>> \o <<rest>> = <<rest>>
  OBVIOUS
<1>9. PICK cs : cs = <<rest>>
  OBVIOUS
<1>10. Replaced(stack, cs, stack')
  BY <1>7, <1>8, <1>9
<1>11. \A k \in DOMAIN cs :
          /\ cs[k].op \notin {"addChild", "tryApply"} \cup ApplyCalls \cup BuildOps
          /\ OuterOps(cs, k) \cup OuterOps(stack, 1) \subseteq CallersOf(cs[k].op)
  <2>1. DOMAIN cs = {1} /\ cs[1] = rest /\ OuterOps(cs, 1) = {}
    BY <1>9, OneFrame
  <2>2. rest.op = "destroyed"
    BY <1>4, <1>7
  <2> QED BY <1>4, <2>1, <2>2 DEF ApplyCalls, BuildOps
<1>12. life'[s] = "dead"
  BY <1>1, <1>2, <1>5 DEF TypeOK
<1>13. \A x \in Surfaces :
          \/ parent'[x] = parent[x]
          \/ parent'[x] = None /\ (x = s \/ parent[x] = s)
  BY <1>2
<1>14. \A x \in Surfaces :
          \/ life'[x] = "dead" /\ first'[x] = None /\ last'[x] = None
          \/ life'[x] = life[x] /\ first'[x] = first[x] /\ last'[x] = last[x]
  BY <1>1, <1>2, <1>5 DEF TypeOK
<1> HIDE DEF Replaced
<1> QED BY <1>3, <1>4, <1>5, <1>6, <1>10, <1>11, <1>12, <1>13, <1>14, LeavesTreeKeeps

------------------------------------------------------------------------------
(* The invariant of the specification                                       *)

LEMMA InitKeeps == Init => QueueInv
<1> SUFFICES ASSUME Init PROVE QueueInv
  OBVIOUS
<1> USE ConstantsAssumption
<1>1. TypeOK
  BY InitTyped
<1>2. DOMAIN stack = {} /\ Calls = {} /\ Outer(stack, 0) = {}
  <2>1. stack = <<>>
    BY DEF Init
  <2>2. DOMAIN stack = {}
    BY <2>1
  <2> QED BY <2>2 DEF Calls, Outer
<1>3. \A t \in Transactions : /\ status[t] = "free" /\ entries[t] = <<>>
                              /\ DOMAIN entries[t] = {} /\ ~Committed(t)
  <2>1. \A t \in Transactions : status[t] = "free" /\ entries[t] = <<>>
    BY DEF Init
  <2> QED BY <2>1 DEF Committed
<1>4. \A s \in Surfaces : /\ first[s] = None /\ last[s] = None /\ cached[s] = None
                          /\ life[s] = "live"
  BY DEF Init
<1>5. Ends /\ AtEnds /\ Outside /\ Sorted /\ OneEntryEach /\ Counted
  BY <1>3, <1>4 DEF Ends, AtEnds, Outside, Sorted, OneEntryEach, Counted
<1>6. Neighbours
  BY <1>3 DEF Neighbours
<1>7. Subtrees /\ Building
  BY <1>2, <1>3, <1>4 DEF Subtrees, Building
<1>8. Children
  <2> DEFINE kids == [p \in Surfaces |-> {c \in Surfaces : InitialParent[c] = p}]
  <2>1. /\ children = kids
        /\ parent = InitialParent
        /\ sub = [s \in Surfaces |-> InitialParent[s] # None]
        /\ current = [s \in Surfaces |->
              [content |-> 0, buffer |-> "detach", barrier |-> FALSE,
               wait |-> FALSE, generation |-> 0, children |-> kids[s]]]
    BY DEF Init
  <2>2. ASSUME NEW s \in Surfaces
        PROVE  /\ children[s] = {c \in Surfaces : InitialParent[c] = s}
               /\ current[s].children = {c \in Surfaces : InitialParent[c] = s}
    BY <2>1
  <2>3. \A s \in Surfaces : \A c \in children[s] \cup current[s].children :
           /\ c \in Surfaces /\ InitialParent[c] = s
    BY <2>2
  <2>4. \A s \in Surfaces : parent[s] = InitialParent[s]
    BY <2>1
  <2>5. \A s \in Surfaces : \A c \in current[s].children : sub[c] /\ parent[c] = s
    <3> SUFFICES ASSUME NEW s \in Surfaces, NEW c \in current[s].children
                 PROVE  sub[c] /\ parent[c] = s
      OBVIOUS
    <3>1. c \in Surfaces /\ InitialParent[c] = s /\ s # None
      BY <2>3
    <3> QED BY <2>1, <3>1
  <2>6. \A c \in Surfaces : InitialParent[c] # None => sub[c]
    BY <2>1
  <2> QED BY <1>2, <1>3, <2>3, <2>4, <2>5, <2>6 DEF Children
<1>9. Nesting /\ Inside
  BY <1>2, <1>3 DEF Nesting, Inside
<1> QED BY <1>1, <1>5, <1>6, <1>7, <1>8, <1>9 DEF QueueInv, Settled

LEMMA StutterKeeps ==
    ASSUME QueueInv, UNCHANGED vars
    PROVE  QueueInv'
<1>1. UNCHANGED <<life, clientGone, sub, parent, mode, role, generation, children,
                  cached, first, last, current, mapped, status, entries, commits,
                  latched, stack>>
  BY DEF vars, tree, queue, shown, history
<1>2. /\ Calls' = Calls
      /\ \A t : Left(t)' = Left(t)
      /\ \A t : SurfacesOf(t)' = SurfacesOf(t)
  BY <1>1 DEF Calls, Left, SurfacesOf
<1>3. \A t, s : /\ Committed(t)' <=> Committed(t)
                /\ OnQueue(t, s)' <=> OnQueue(t, s)
                /\ Rooted(t, s)' <=> Rooted(t, s)
                /\ Gathered(t, s)' <=> Gathered(t, s)
                /\ Adding(t, s)' <=> Adding(t, s)
                /\ Open(t, s)' <=> Open(t, s)
                /\ SelfWaiting(t)' <=> SelfWaiting(t)
  BY <1>1, <1>2 DEF Committed, OnQueue, Rooted, Gathered, Adding, Open, SelfWaiting
<1>4. /\ \A t, u, s : Behind(t, u, s)' <=> Behind(t, u, s)
      /\ \A t, u : Prevs(t, u)' = Prevs(t, u) /\ Nexts(t, u)' = Nexts(t, u)
  BY <1>1, <1>2, <1>3 DEF Behind, Prevs, Nexts
<1>5. TypeOK'
  BY <1>1, NextTyped DEF QueueInv, Settled
<1>6. Ends' /\ AtEnds'
  BY <1>1, <1>2, <1>3, <1>4 DEF QueueInv, Settled, Ends, AtEnds
<1>7. Outside' /\ Neighbours'
  BY <1>1, <1>2, <1>3, <1>4 DEF QueueInv, Settled, Outside, Neighbours
<1>8. Counted' /\ OneEntryEach'
  BY <1>1, <1>2, <1>3, <1>4 DEF QueueInv, Settled, Counted, OneEntryEach
<1>9. Children' /\ Sorted'
  BY <1>1, <1>2 DEF QueueInv, Settled, Children, Sorted
<1>10. Subtrees'
  BY <1>1, <1>2, <1>3 DEF QueueInv, Settled, Subtrees
<1>11. Building'
  BY <1>1, <1>2, <1>3 DEF QueueInv, Settled, Building, BuiltBy
<1>12. Nesting'
  BY <1>1, <1>2 DEF QueueInv, Nesting, NestedIn
<1>13. Inside'
  BY <1>1, <1>2, <1>3 DEF QueueInv, Inside, InsideOf
<1> QED BY <1>5, <1>6, <1>7, <1>8, <1>9, <1>10, <1>11, <1>12, <1>13 DEF QueueInv, Settled

LEMMA RequestKeeps ==
    ASSUME Reparented = {}, QueueInv, TypeOK', Request
    PROVE  QueueInv'
<1>1. CASE \E s \in Surfaces, shape \in CommitShapes : SurfaceCommit(s, shape)
  BY <1>1, SurfaceCommitKeeps
<1>2. CASE \E s \in Surfaces : SetSync(s) \/ SetDesync(s)
  BY <1>2, ModeKeeps
<1>3. CASE \E s, p \in Surfaces : GetSubsurface(s, p)
  BY <1>3 DEF GetSubsurface
<1>4. CASE \E s \in Surfaces : DestroySubsurface(s)
  BY <1>4, DestroySubsurfaceKeeps
<1>5. CASE \E s \in Surfaces : DestroySurface(s)
  BY <1>5, DestroySurfaceKeeps
<1>6. CASE \E s \in Surfaces : ToggleRole(s)
  BY <1>6, ToggleRoleKeeps
<1>7. CASE Disconnect
  BY <1>7, DisconnectKeeps
<1> QED BY <1>1, <1>2, <1>3, <1>4, <1>5, <1>6, <1>7 DEF Request

LEMMA CallKeeps ==
    ASSUME QueueInv, TypeOK', Call
    PROVE  QueueInv'
<1>1. ~LinkSubsurface
  <2>1. ASSUME LinkSubsurface PROVE FALSE
    <3>1. TypeOK /\ Nesting /\ stack # <<>> /\ Head(stack).op = "addChild"
      BY <2>1, RunningCall DEF LinkSubsurface, QueueInv, Settled
    <3> QED BY <3>1, CallPlaces DEF Nesting, NestedIn
  <2> QED BY <2>1
<1> QED BY <1>1, LoopDoneKeeps, MergeChildKeeps, AddSurfaceKeeps, CommitKeeps,
           TryApplyKeeps, ApplyStateKeeps, UpdateMappedKeeps, ClearUnmappedKeeps,
           UnlinkKeeps, TryChildrenKeeps, TryFirstKeeps, ParentDesynchronizedKeeps,
           DesynchronizeChildrenKeeps, DestroyedKeeps
        DEF Call

LEMMA NextKeeps ==
    ASSUME Reparented = {}, QueueInv, [Next]_vars
    PROVE  QueueInv'
<1>1. TypeOK'
  BY NextTyped DEF QueueInv, Settled
<1>2. CASE Request
  BY <1>1, <1>2, RequestKeeps
<1>3. CASE Call
  BY <1>1, <1>3, CallKeeps
<1>4. CASE SomeFenceSignaled
  BY <1>1, <1>4, FenceSignaledKeeps DEF SomeFenceSignaled
<1>5. CASE SomeBarrierCleared
  BY <1>1, <1>5, ClearFifoBarrierKeeps DEF SomeBarrierCleared
<1>6. CASE UNCHANGED vars
  BY <1>6, StutterKeeps
<1> QED BY <1>2, <1>3, <1>4, <1>5, <1>6 DEF Next

LEMMA QueueInvHolds ==
    ASSUME Reparented = {} PROVE Spec => []QueueInv
<1>1. Init => QueueInv
  BY InitKeeps
<1>2. QueueInv /\ [Next]_vars => QueueInv'
  BY NextKeeps
<1> QED BY <1>1, <1>2, PTL DEF Spec

\* The calls of apply() on the stack apply different transactions.
LEMMA ImpliesAppliedOnce ==
    ASSUME TypeOK, Nesting PROVE AppliedOnce
<1> SUFFICES ASSUME NEW j \in DOMAIN stack, NEW k \in DOMAIN stack, j < k,
                    stack[j].op \in ApplyCalls, stack[k].op \in ApplyCalls,
                    stack[j].tx = stack[k].tx
             PROVE  FALSE
  <2>1. DOMAIN stack \subseteq Nat
    BY DEF TypeOK
  <2>2. \A j, k \in DOMAIN stack : j = k \/ j < k \/ k < j
    BY <2>1
  <2> QED BY <2>2 DEF AppliedOnce, ApplyCalls
<1>1. stack[k].tx \in Outer(stack, j)
  BY DEF Outer
<1>2. NestedIn(stack[j], Outer(stack, j), OuterOps(stack, j))
  BY DEF Nesting
<1> QED BY <1>1, <1>2 DEF NestedIn

\* "The transaction will be destroyed when it is applied": as long as no surface
\* is given a second parent, the successors and the children that apply() tries
\* never lead back into the apply() of the same transaction.
THEOREM AppliedOnceHolds ==
    ASSUME Reparented = {} PROVE Spec => []AppliedOnce
<1>1. QueueInv => AppliedOnce
  BY ImpliesAppliedOnce DEF QueueInv, Settled
<1> QED BY <1>1, QueueInvHolds, PTL

LEMMA ImpliesNoDangling ==
    ASSUME QueueInv PROVE NoDanglingTransaction
<1> USE ConstantsAssumption
<1>1. /\ TypeOK /\ Nesting /\ Ends /\ Outside /\ Neighbours /\ Subtrees /\ Building
      /\ AppliedOnce
  BY ImpliesAppliedOnce DEF QueueInv, Settled
<1>2. ASSUME NEW k \in DOMAIN stack
      PROVE  /\ stack[k].op = "commit" => status[stack[k].tx] = "pending"
             /\ stack[k].op = "tryApply" => status[stack[k].tx] = "queued"
             /\ stack[k].op \in ApplyCalls => status[stack[k].tx] = "applying"
  <2>1. BuiltBy(stack[k])
    BY <1>1 DEF Building, Calls
  <2>2. NestedIn(stack[k], Outer(stack, k), OuterOps(stack, k))
    BY <1>1 DEF Nesting
  <2> QED BY <2>1, <2>2 DEF BuiltBy, NestedIn
<1>3. ASSUME NEW u \in Transactions, status[u] = "queued"
      PROVE  Left(u) = DOMAIN entries[u]
  <2>1. \A c \in Calls : c.op = "unlink" => c.tx # u
    BY <1>2, <1>3 DEF Calls, ApplyCalls
  <2> QED BY <2>1 DEF Left
<1>4. ASSUME NEW k \in DOMAIN stack, stack[k].op = "unlink",
             NEW i \in DOMAIN entries[stack[k].tx], i >= stack[k].index
      PROVE  i \in Left(stack[k].tx)
  <2>1. ASSUME NEW m \in DOMAIN stack, stack[m].op = "unlink", stack[m].tx = stack[k].tx
        PROVE  m = k
    BY <1>1, <1>4, <2>1 DEF AppliedOnce
  <2>2. \A c \in Calls : c.op = "unlink" /\ c.tx = stack[k].tx => c = stack[k]
    BY <2>1 DEF Calls
  <2>3. stack[k].index \in Nat /\ i \in Nat
    <3>1. stack[k] \in CallType
      BY <1>1, ElementOfSeq DEF TypeOK
    <3>2. stack[k].index \in Nat \ {0} /\ stack[k].tx \in Transactions
      BY <1>4, <3>1, CallFields
    <3>3. entries[stack[k].tx] \in Seq(EntryType)
      BY <1>1, <3>2 DEF TypeOK
    <3> QED BY <3>2, <3>3
  <2>4. stack[k].index <= i
    BY <1>4, <2>3
  <2> QED BY <2>2, <2>4 DEF Left
<1> SUFFICES ASSUME NEW t \in Transactions, status[t] = "free"
             PROVE  /\ entries[t] = <<>>
                    /\ \A s \in Surfaces : cached[s] # t
                    /\ \A s \in Surfaces : life[s] # "dead" => first[s] # t /\ last[s] # t
                    /\ \A u \in Transactions : \A i \in DOMAIN entries[u] :
                         /\ entries[u][i].prev # t
                         /\ status[u] = "queued" => entries[u][i].next # t
                    /\ \A k \in DOMAIN stack :
                         stack[k].op \in {"commit", "tryApply", "applyStates", "unlink"}
                           => stack[k].tx # t
                    /\ \A k \in DOMAIN stack : stack[k].op = "unlink" =>
                         \A i \in DOMAIN entries[stack[k].tx] :
                            i >= stack[k].index => entries[stack[k].tx][i].next # t
  BY DEF NoDanglingTransaction
<1>5. t # None /\ ~Committed(t)
  BY DEF Committed
<1>6. entries[t] = <<>>
  BY <1>1 DEF Outside
<1>7. \A s \in Surfaces : cached[s] # t
  BY <1>1, <1>5 DEF Subtrees
<1>8. \A s \in Surfaces : first[s] # t /\ last[s] # t
  BY <1>1, <1>5 DEF Ends, OnQueue
<1>9. ASSUME NEW u \in Transactions, NEW i \in DOMAIN entries[u]
      PROVE  /\ entries[u][i].prev # t
             /\ Committed(u) /\ i \in Left(u) => entries[u][i].next # t
  BY <1>1, <1>5 DEF Neighbours
<1>10. \A u \in Transactions : \A i \in DOMAIN entries[u] :
          /\ entries[u][i].prev # t
          /\ status[u] = "queued" => entries[u][i].next # t
  BY <1>3, <1>9 DEF Committed
<1>11. \A k \in DOMAIN stack :
          stack[k].op \in {"commit", "tryApply", "applyStates", "unlink"}
            => stack[k].tx # t
  BY <1>2 DEF ApplyCalls
<1>12. ASSUME NEW k \in DOMAIN stack, stack[k].op = "unlink",
              NEW i \in DOMAIN entries[stack[k].tx], i >= stack[k].index
       PROVE  entries[stack[k].tx][i].next # t
  <2>1. stack[k].tx \in Transactions
    BY <1>1, <1>12, ElementOfSeq, CallFields DEF TypeOK
  <2>2. Committed(stack[k].tx)
    BY <1>2, <1>12 DEF ApplyCalls, Committed
  <2>3. i \in Left(stack[k].tx)
    BY <1>4, <1>12
  <2> QED BY <1>9, <2>1, <2>2, <2>3
<1> QED BY <1>6, <1>7, <1>8, <1>10, <1>11, <1>12

\* Whatever a handler is doing, a deleted Transaction is in nobody's reach: the
\* queues, the entries, the cached transactions and the calls on the stack refer
\* only to transactions that exist.
THEOREM NoDanglingHolds ==
    ASSUME Reparented = {} PROVE Spec => []NoDanglingTransaction
<1>1. QueueInv => NoDanglingTransaction
  BY ImpliesNoDangling
<1> QED BY <1>1, QueueInvHolds, PTL
==============================================================================
