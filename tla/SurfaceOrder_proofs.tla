------------------------- MODULE SurfaceOrder_proofs -------------------------
(***************************************************************************)
(* Proof that a surface never shows an older commit after a newer one: the *)
(* transactions of a queue, and behind them those that are still cached or *)
(* about to be committed, carry its commits in the order they were made.   *)
(*                                                                         *)
(* The tree of the surfaces is any, but none is given a second parent, and *)
(* a sub-surface whose client changes its mode keeps its parent.           *)
(*                                                                         *)
(* Two parts are about mapping: a surface that is not mapped has           *)
(* no fifo barrier, if sub-surfaces are nested one level deep (TwoLevels); *)
(* a surface is mapped when it has a buffer and its parent is mapped, at   *)
(* any depth, if only surfaces without sub-surfaces are destroyed.         *)
(*                                                                         *)
(* The last part shows that the queues are lists: LineInv says so while    *)
(* the calls run, QueueLinks when they have returned (TwoLevels again).    *)
(***************************************************************************)
EXTENDS SurfaceQueue_proofs

------------------------------------------------------------------------------
(* The commits of a surface, in the transactions that carry them            *)

\* The commits of s that t carries.
Contents(t, s) == {entries[t][i].state.content : i \in EntriesOf(t, s)}

\* No commit of A was made after one of B.
NoLater(A, B) == \A m \in A, n \in B : m <= n

\* The commits of s behind which the next transaction will come.
Newest(s) ==
    IF last[s] = None THEN {current[s].content} ELSE Contents(last[s], s)

\* t is cached, or about to be committed.
Prepared(t) ==
    \/ \E s \in Surfaces : cached[s] = t
    \/ \E d \in Calls : d.op = "commit" /\ d.tx = t

------------------------------------------------------------------------------
(* Synchronized sub-surfaces                                                *)

Under(a) == {a} \cup Below(a)

\* x was built below a surface that is synchronized, or is one.
Held(x) ==
    \E a \in Surfaces :
       x \in Under(a) /\ InitialParent[a] # None /\ mode[a] = "sync"

\* A call that is being made is to commit what is cached for x.
Freed(x) ==
    \E d \in Calls : \E y \in Surfaces :
       \/ d.op = "parentDesynchronized" /\ y \in d.todo /\ x \in Under(y)
       \/ d.op = "desynchronizeChildren" /\ y \in d.todo /\ x \in Below(y)

\* C has all the children of p.
Lists(p, C) ==
    \A c \in Surfaces :
       InitialParent[c] = p /\ life[c] # "dead" /\ life[p] # "dead" => c \in C

------------------------------------------------------------------------------
(* The inductive invariant                                                  *)

\* No commit is ahead of the number of commits made, the last one has that number.
Numbered ==
    \A s \in Surfaces : life[s] = "live" =>
        /\ current[s].content <= commits[s]
        /\ \A t \in Transactions : \A m \in Contents(t, s) : m <= commits[s]
        /\ \A d \in Calls : d.op = "add" /\ d.surface = s
                               => d.state.content = commits[s]

\* What a surface shows, then what its queue holds from the first to the last,
\* then what is to come.
QueuesInOrder ==
    \A s \in Surfaces : life[s] = "live" =>
        /\ first[s] # None =>
              NoLater({current[s].content}, Contents(first[s], s))
        /\ \A t, u \in Transactions : t # u /\ Behind(t, u, s) =>
              NoLater(Contents(u, s), Contents(t, s))
        /\ \A t \in Transactions : Prepared(t) =>
              NoLater(Newest(s), Contents(t, s))

\* What has been merged further up is older, and so is what is committed first.
PreparedInOrder ==
    \A s \in Surfaces : life[s] = "live" =>
        /\ \A x, y \in Surfaces :
              cached[x] # None /\ cached[y] # None /\ y \in Below(x) =>
                 NoLater(Contents(cached[x], s), Contents(cached[y], s))
        /\ \A d \in Calls : d.op = "commit" =>
              \A t \in Transactions : Prepared(t) /\ t # d.tx =>
                 NoLater(Contents(d.tx, s), Contents(t, s))

\* Only what is synchronized is cached, or what a call is about to commit; and
\* such a call goes down the tree, with nothing cached above it.
HeldBack ==
    /\ \A x \in Surfaces : cached[x] # None =>
          life[x] # "dead" /\ (Held(x) \/ Freed(x))
    /\ \A d \in Calls : d.op \in {"merge", "add"} /\ cached[d.surface] # d.tx =>
          ~Held(d.surface)
    /\ \A d \in Calls : d.op \in DesyncOps => \A y \in d.todo :
          /\ d.op = "parentDesynchronized" => InitialParent[y] # None
          /\ \A a \in Surfaces :
                y \in Below(a) \/ (d.op = "desynchronizeChildren" /\ y = a)
                   => cached[a] = None

\* No list of children misses one.
Listed ==
    \A p \in Surfaces :
        /\ Lists(p, children[p]) /\ Lists(p, current[p].children)
        /\ \A t \in Transactions : \A i \in EntriesOf(t, p) :
              Lists(p, entries[t][i].state.children)
        /\ \A d \in Calls : d.op = "add" /\ d.surface = p =>
              Lists(p, d.state.children)

\* Who may have lost its parent, its wl_subsurface or its mode.
Modes ==
    \A s \in Surfaces :
        /\ s \notin Desyncers => mode[s] = "sync"
        /\ sub[s] => InitialParent[s] # None /\ life[s] # "dead"
        /\ life[s] # "dead" /\ InitialParent[s] # None => sub[s]
        /\ parent[s] # None => life[parent[s]] # "dead"
        /\ life[s] # "live" => s \in Destroyable

InOrder ==
    /\ Numbered /\ QueuesInOrder /\ PreparedInOrder
    /\ HeldBack /\ Listed /\ Modes

\* As long as the client is there, only what it may destroy is being destroyed.
Going == \A d \in Calls : d.op = "destroyed" => d.todo \subseteq Destroyable

\* When the client is gone nothing is shown any more.
OrderInv == clientGone \/ (InOrder /\ Going)

------------------------------------------------------------------------------
(* Facts about the commits that are carried                                 *)

LEMMA ContentsFacts ==
    ASSUME TypeOK, NEW t \in Transactions
    PROVE  /\ \A s : Contents(t, s) \subseteq Nat
           /\ \A s, m : m \in Contents(t, s) <=>
                 \E i \in DOMAIN entries[t] : /\ entries[t][i].surface = s
                                              /\ entries[t][i].state.content = m
           /\ \A s : Contents(t, s) # {} <=> s \in SurfacesOf(t)
<1>1. \A i \in DOMAIN entries[t] : entries[t][i].state.content \in Nat
  BY EntryFields DEF StateType
<1> QED BY <1>1 DEF Contents, EntriesOf, SurfacesOf

\* A transaction whose entries are those of another, or fewer.
LEMMA FewerContents ==
    ASSUME NEW t, NEW u,
           \A i \in DOMAIN entries'[t] : \E k \in DOMAIN entries[u] :
              /\ entries'[t][i].surface = entries[u][k].surface
              /\ entries'[t][i].state.content = entries[u][k].state.content
    PROVE  \A s : Contents(t, s)' \subseteq Contents(u, s)
BY DEF Contents, EntriesOf

\* What the queues of a live surface refer to carries it.
LEMMA QueueEnds ==
    ASSUME Settled, NEW s \in Surfaces
    PROVE  /\ first[s] # None => first[s] \in Transactions /\ Committed(first[s])
           /\ last[s] # None => last[s] \in Transactions /\ Committed(last[s])
           /\ first[s] = None <=> last[s] = None
           /\ \A t, u \in Transactions : Behind(t, u, s) =>
                 Committed(u) /\ status[t] = "queued" /\ Committed(t)
           /\ \A t \in Transactions : Prepared(t) => status[t] = "pending"
<1>1. first[s] \in Transactions \cup {None} /\ last[s] \in Transactions \cup {None}
  BY DEF Settled, TypeOK
<1>2. \A t, u \in Transactions : Behind(t, u, s) =>
         Committed(u) /\ status[t] = "queued" /\ Committed(t)
  <2> SUFFICES ASSUME NEW t \in Transactions, NEW u \in Transactions, Behind(t, u, s)
               PROVE  Committed(u) /\ status[t] = "queued" /\ Committed(t)
    OBVIOUS
  <2>1. PICK j \in Left(u) : entries[u][j].next = t
    BY DEF Behind
  <2>2. Committed(u) /\ t # None
    BY ConstantsAssumption DEF Behind
  <2>3. status[t] = "queued"
    BY <2>1, <2>2 DEF Settled, Neighbours
  <2> QED BY <2>2, <2>3 DEF Committed
<1>3. \A t \in Transactions : Prepared(t) => status[t] = "pending"
  <2>1. \A x \in Surfaces : cached[x] # None => status[cached[x]] = "pending"
    BY DEF Settled, Subtrees
  <2>2. \A d \in Calls : d.op = "commit" => status[d.tx] = "pending"
    BY DEF Settled, Building, BuiltBy
  <2> QED BY <2>1, <2>2, ConstantsAssumption DEF Prepared
<1>4. \A x \in Surfaces :
         /\ first[x] = None <=> last[x] = None
         /\ first[x] # None => OnQueue(first[x], x)
         /\ last[x] # None => OnQueue(last[x], x)
  BY DEF Settled, Ends
<1> QED BY <1>1, <1>2, <1>3, <1>4 DEF OnQueue

------------------------------------------------------------------------------
(* Steps that leave the order alone                                         *)

LEMMA FewerInOrder ==
    ASSUME NEW A, NEW B, NoLater(A, B), NEW C, NEW D, C \subseteq A, D \subseteq B
    PROVE  NoLater(C, D)
BY DEF NoLater

\* No surface comes back to life, and no commit appears.
NoneCarried ==
    /\ \A s \in Surfaces : life'[s] = "live" => life[s] = "live"
    /\ \A t \in Transactions : \A s \in Surfaces : Contents(t, s)' \subseteq Contents(t, s)

NothingNew ==
    NoneCarried /\ \A s \in Surfaces : current'[s].content = current[s].content

LEMMA NumberedKept ==
    ASSUME Numbered, NothingNew, UNCHANGED commits,
           \A d \in Calls' : d.op = "add" => d \in Calls
    PROVE  Numbered'
BY DEF Numbered, NothingNew, NoneCarried

LEMMA QueuesInOrderKept ==
    ASSUME QueuesInOrder, NothingNew,
           \A s \in Surfaces : life'[s] = "live" => first'[s] = first[s] /\ last'[s] = last[s],
           \A s \in Surfaces : first[s] \in Transactions \cup {None}
                                 /\ last[s] \in Transactions \cup {None},
           \A t, u \in Transactions : \A s \in Surfaces : Behind(t, u, s)' => Behind(t, u, s),
           \A t \in Transactions : Prepared(t)' =>
              Prepared(t) \/ \A s \in Surfaces : Contents(t, s)' = {}
    PROVE  QueuesInOrder'
<1> SUFFICES ASSUME NEW s \in Surfaces, life'[s] = "live"
             PROVE  /\ first'[s] # None =>
                          NoLater({current'[s].content}, Contents(first[s], s)')
                    /\ \A t, u \in Transactions : t # u /\ Behind(t, u, s)' =>
                          NoLater(Contents(u, s)', Contents(t, s)')
                    /\ \A t \in Transactions : Prepared(t)' =>
                          NoLater(Newest(s)', Contents(t, s)')
  BY DEF QueuesInOrder
<1>1. life[s] = "live" /\ first'[s] = first[s] /\ last'[s] = last[s]
  BY DEF NothingNew, NoneCarried
<1>2. current'[s].content = current[s].content
  BY DEF NothingNew, NoneCarried
<1>3. \A t \in Transactions : Contents(t, s)' \subseteq Contents(t, s)
  BY DEF NothingNew, NoneCarried
<1>4. Newest(s)' \subseteq Newest(s)
  BY <1>1, <1>2, <1>3 DEF Newest
<1>5. first'[s] # None => NoLater({current'[s].content}, Contents(first[s], s)')
  BY <1>1, <1>2, <1>3, FewerInOrder DEF QueuesInOrder
<1>6. ASSUME NEW t \in Transactions, NEW u \in Transactions, t # u, Behind(t, u, s)'
      PROVE  NoLater(Contents(u, s)', Contents(t, s)')
  BY <1>1, <1>3, <1>6, FewerInOrder DEF QueuesInOrder
<1>7. ASSUME NEW t \in Transactions, Prepared(t)'
      PROVE  NoLater(Newest(s)', Contents(t, s)')
  <2>1. CASE Prepared(t)
    BY <1>1, <1>3, <1>4, <2>1, FewerInOrder DEF QueuesInOrder
  <2>2. CASE Contents(t, s)' = {}
    BY <2>2 DEF NoLater
  <2> QED BY <1>7, <2>1, <2>2
<1> QED BY <1>1, <1>5, <1>6, <1>7

LEMMA PreparedInOrderKept ==
    ASSUME TypeOK, TypeOK', PreparedInOrder, NoneCarried,
           \A s \in Surfaces : cached'[s] \in {cached[s], None},
           \A d \in Calls' : d.op = "commit" => d \in Calls
    PROVE  PreparedInOrder' /\ \A t \in Transactions : Prepared(t)' => Prepared(t)
<1>1. ASSUME NEW t \in Transactions, Prepared(t)'
      PROVE  Prepared(t)
  BY <1>1, ConstantsAssumption DEF Prepared
<1>2. ASSUME NEW s \in Surfaces, life'[s] = "live"
      PROVE  /\ \A x, y \in Surfaces :
                   cached'[x] # None /\ cached'[y] # None /\ y \in Below(x) =>
                      NoLater(Contents(cached[x], s)', Contents(cached[y], s)')
             /\ \A d \in Calls' : d.op = "commit" =>
                   \A t \in Transactions : Prepared(t)' /\ t # d.tx =>
                      NoLater(Contents(d.tx, s)', Contents(t, s)')
  <2>1. life[s] = "live"
    BY <1>2 DEF NoneCarried
  <2>2. \A t \in Transactions : Contents(t, s)' \subseteq Contents(t, s)
    BY DEF NoneCarried
  <2>3. ASSUME NEW x \in Surfaces, NEW y \in Surfaces,
               cached'[x] # None, cached'[y] # None, y \in Below(x)
        PROVE  NoLater(Contents(cached[x], s)', Contents(cached[y], s)')
    <3>1. /\ cached'[x] = cached[x] /\ cached'[y] = cached[y]
          /\ cached[x] \in Transactions /\ cached[y] \in Transactions
      BY <2>3 DEF TypeOK
    <3> QED BY <2>1, <2>2, <2>3, <3>1, FewerInOrder DEF PreparedInOrder
  <2>4. ASSUME NEW d \in Calls', d.op = "commit",
               NEW t \in Transactions, Prepared(t)', t # d.tx
        PROVE  NoLater(Contents(d.tx, s)', Contents(t, s)')
    <3>1. d \in Calls /\ d.tx \in Transactions
      BY <2>4, CallPlaces, CallFields
    <3> QED BY <1>1, <2>1, <2>2, <2>4, <3>1, FewerInOrder DEF PreparedInOrder
  <2> QED BY <2>3, <2>4
<1> QED BY <1>1, <1>2 DEF PreparedInOrder

\* Every list is one that there was, or a longer one, for the surfaces that are
\* not dead.
LEMMA ListedKept ==
    ASSUME Listed,
           \A s \in Surfaces : life'[s] # "dead" => life[s] # "dead",
           \A p \in Surfaces : Lists(p, children[p]) => Lists(p, children[p])',
           \A p \in Surfaces :
              Lists(p, current[p].children)
              /\ (\A t \in Transactions : \A i \in EntriesOf(t, p) :
                     Lists(p, entries[t][i].state.children))
                 => Lists(p, current[p].children)',
           \A t \in Transactions : \A i \in DOMAIN entries'[t] :
              \/ \E u \in Transactions : \E k \in DOMAIN entries[u] :
                    /\ entries'[t][i].surface = entries[u][k].surface
                    /\ entries'[t][i].state.children = entries[u][k].state.children
              \/ Lists(entries[t][i].surface, entries[t][i].state.children)',
           \A d \in Calls' : d.op = "add" =>
              d \in Calls \/ Lists(d.surface, d.state.children)'
    PROVE  Listed'
<1>1. \A p \in Surfaces : \A C : Lists(p, C) => Lists(p, C)'
  BY DEF Lists
<1> SUFFICES ASSUME NEW p \in Surfaces
             PROVE  /\ Lists(p, children[p])' /\ Lists(p, current[p].children)'
                    /\ \A t \in Transactions : \A i \in EntriesOf(t, p)' :
                          Lists(p, entries[t][i].state.children)'
                    /\ \A d \in Calls' : d.op = "add" /\ d.surface = p =>
                          Lists(p, d.state.children)'
  BY DEF Listed
<1>2. \A u \in Transactions : \A k \in DOMAIN entries[u] :
         entries[u][k].surface = p => Lists(p, entries[u][k].state.children)
  BY DEF Listed, EntriesOf
<1>3. Lists(p, children[p])' /\ Lists(p, current[p].children)'
  BY <1>2 DEF Listed, EntriesOf
<1>4. ASSUME NEW t \in Transactions, NEW i \in EntriesOf(t, p)'
      PROVE  Lists(p, entries[t][i].state.children)'
  <2>1. i \in DOMAIN entries'[t] /\ entries'[t][i].surface = p
    BY <1>4 DEF EntriesOf
  <2>2. CASE Lists(entries[t][i].surface, entries[t][i].state.children)'
    BY <2>1, <2>2
  <2>3. ASSUME NEW u \in Transactions, NEW k \in DOMAIN entries[u],
               entries'[t][i].surface = entries[u][k].surface,
               entries'[t][i].state.children = entries[u][k].state.children
        PROVE  Lists(p, entries[t][i].state.children)'
    <3>1. PICK C : C = entries[u][k].state.children
      OBVIOUS
    <3>2. Lists(p, C)'
      BY <1>1, <1>2, <2>1, <2>3, <3>1
    <3> QED BY <2>3, <3>1, <3>2
  <2> QED BY <2>1, <2>2, <2>3
<1>5. ASSUME NEW d \in Calls', d.op = "add", d.surface = p
      PROVE  Lists(p, d.state.children)'
  <2>1. CASE d \in Calls
    <3>1. PICK C : C = d.state.children
      OBVIOUS
    <3>2. Lists(p, C)
      BY <1>5, <2>1, <3>1 DEF Listed
    <3> QED BY <1>1, <3>1, <3>2
  <2> QED BY <1>5, <2>1
<1> QED BY <1>3, <1>4, <1>5

\* A step that keeps the entries, the surfaces and their lists of children.
LEMMA ListedSame ==
    ASSUME Listed, \A s \in Surfaces : life'[s] = "dead" <=> life[s] = "dead",
           \A s \in Surfaces : children'[s] = children[s],
           \A s \in Surfaces : current'[s].children = current[s].children,
           \A t \in Transactions : \A i \in DOMAIN entries'[t] :
              \E u \in Transactions : \E k \in DOMAIN entries[u] :
                 /\ entries'[t][i].surface = entries[u][k].surface
                 /\ entries'[t][i].state.children = entries[u][k].state.children,
           \A d \in Calls' : d.op = "add" => d \in Calls
    PROVE  Listed'
<1>1. \A p \in Surfaces : Lists(p, children[p]) => Lists(p, children[p])'
  BY DEF Lists
<1>2. \A p \in Surfaces :
         Lists(p, current[p].children) => Lists(p, current[p].children)'
  BY DEF Lists
<1> QED BY <1>1, <1>2, ListedKept

LEMMA ModesKept ==
    ASSUME TypeOK, Modes, UNCHANGED <<sub, parent>>,
           \A s \in Surfaces : life'[s] = "dead" <=> life[s] = "dead",
           \A s \in Surfaces : life'[s] # "live" => life[s] # "live" \/ s \in Destroyable,
           \A s \in Surfaces : mode'[s] = mode[s] \/ s \in Desyncers
    PROVE  Modes'
<1>1. \A s \in Surfaces : parent[s] # None => parent[s] \in Surfaces
  BY DEF TypeOK
<1> QED BY <1>1 DEF Modes

LEMMA HeldBackKept ==
    ASSUME TypeOK, HeldBack, UNCHANGED <<cached, mode>>,
           \A s \in Surfaces : life'[s] = "dead" => life[s] = "dead",
           \A d : d.op \in {"merge", "add"} /\ d \in Calls' => d \in Calls,
           \A d : d.op \in DesyncOps => (d \in Calls' <=> d \in Calls)
    PROVE  HeldBack'
<1>1. \A x : Held(x)' <=> Held(x)
  BY DEF Held
<1>2. \A x : Freed(x)' <=> Freed(x)
  BY DEF Freed, DesyncOps
<1>3. ASSUME NEW x \in Surfaces, cached'[x] # None
      PROVE  life'[x] # "dead" /\ (Held(x)' \/ Freed(x)')
  BY <1>1, <1>2, <1>3 DEF HeldBack
<1>4. ASSUME NEW d \in Calls', d.op \in {"merge", "add"}, cached'[d.surface] # d.tx
      PROVE  ~Held(d.surface)'
  BY <1>1, <1>4 DEF HeldBack
<1>5. ASSUME NEW d \in Calls', d.op \in DesyncOps, NEW y \in d.todo
      PROVE  /\ d.op = "parentDesynchronized" => InitialParent[y] # None
             /\ \A a \in Surfaces :
                   y \in Below(a) \/ (d.op = "desynchronizeChildren" /\ y = a)
                      => cached'[a] = None
  BY <1>5 DEF HeldBack
<1> QED BY <1>3, <1>4, <1>5 DEF HeldBack

\* The calls of functions that neither run nor are called stay what they are.
LEMMA OtherCallsKept ==
    ASSUME TypeOK, NEW cs, Replaced(stack, cs, stack'), NEW Ops,
           stack # <<>> => Head(stack).op \notin Ops,
           \A k \in DOMAIN cs : cs[k].op \notin Ops
    PROVE  \A d : d.op \in Ops => (d \in Calls' <=> d \in Calls)
<1>1. \A m \in DOMAIN stack : stack[m] \in Calls
  BY DEF Calls
<1>2. \A d \in Calls : stack # <<>>
  BY CallPlaces
<1> QED BY <1>1, <1>2, CallsAfter

LEMMA LeftKept ==
    ASSUME TypeOK, NEW cs, Replaced(stack, cs, stack'), QuietCalls(cs),
           NEW t \in Transactions, DOMAIN entries'[t] = DOMAIN entries[t]
    PROVE  Left(t)' = Left(t)
<1>1. \A i \in DOMAIN entries[t] : 1 <= i /\ i \in Nat
  BY EntryFields
<1>2. \A d \in Calls : d.op = "unlink" => d \in Calls'
  BY QuietCallsKept
<1>3. \A d \in Calls' : d.op = "unlink" => d \in Calls \/ d.index = 1
  BY QuietCallsKept
<1>4. \A i \in DOMAIN entries[t] : i \in Left(t)' <=> i \in Left(t)
  BY <1>1, <1>2, <1>3 DEF Left
<1>5. Left(t)' \subseteq DOMAIN entries[t] /\ Left(t) \subseteq DOMAIN entries[t]
  BY DEF Left
<1> QED BY <1>4, <1>5

LEMMA BehindKept ==
    ASSUME \A t \in Transactions :
              /\ Left(t)' \subseteq Left(t)
              /\ Committed(t)' => Committed(t)
              /\ \A i \in DOMAIN entries[t] :
                    /\ entries'[t][i].surface = entries[t][i].surface
                    /\ entries'[t][i].next = entries[t][i].next
    PROVE  \A t, u \in Transactions : \A s \in Surfaces :
              Behind(t, u, s)' => Behind(t, u, s)
<1>1. \A t : Left(t) \subseteq DOMAIN entries[t]
  BY DEF Left
<1> QED BY <1>1 DEF Behind

\* The entries say the same of the queues and the commits.
SameEntries ==
    \A t \in Transactions :
        /\ DOMAIN entries'[t] = DOMAIN entries[t]
        /\ \A i \in DOMAIN entries[t] :
              /\ entries'[t][i].surface = entries[t][i].surface
              /\ entries'[t][i].state = entries[t][i].state
              /\ entries'[t][i].next = entries[t][i].next

LEMMA SameContents ==
    ASSUME SameEntries, NEW t \in Transactions
    PROVE  \A s : Contents(t, s)' = Contents(t, s)
BY DEF SameEntries, Contents, EntriesOf

\* Steps of the queues and the loops that change nothing the order is about.
LEMMA QuietOrder ==
    ASSUME QueueInv, TypeOK', InOrder,
           NEW cs, Replaced(stack, cs, stack'), QuietCalls(cs), SameEntries,
           UNCHANGED <<commits, sub, parent, children, cached, first, last, status>>,
           \A s \in Surfaces : /\ life'[s] = "dead" <=> life[s] = "dead"
                               /\ life'[s] = "live" => life[s] = "live"
                               /\ life'[s] # "live" => life[s] # "live" \/ s \in Destroyable,
           \A s \in Surfaces : mode'[s] = mode[s] \/ s \in Desyncers,
           \A s \in Surfaces : /\ current'[s].content = current[s].content
                               /\ current'[s].children = current[s].children
    PROVE  /\ Numbered' /\ QueuesInOrder' /\ PreparedInOrder' /\ Listed' /\ Modes'
           /\ \A d : d.op \in BuildOps => (d \in Calls' <=> d \in Calls)
<1>1. TypeOK /\ Settled
  BY DEF QueueInv, Settled
<1>2. \A d : d.op \in BuildOps => (d \in Calls' <=> d \in Calls)
  BY <1>1, QuietCallsKept
<1>3. \A d : d.op \in {"add", "commit"} => (d \in Calls' <=> d \in Calls)
  BY <1>2 DEF BuildOps
<1>4. NothingNew
  BY SameContents DEF NothingNew, NoneCarried
<1>5. Numbered'
  BY <1>3, <1>4, NumberedKept DEF InOrder
<1>6. PreparedInOrder' /\ \A t \in Transactions : Prepared(t)' => Prepared(t)
  <2>1. \A d \in Calls' : d.op = "commit" => d \in Calls
    BY <1>3
  <2> QED BY <1>1, <1>4, <2>1, PreparedInOrderKept DEF InOrder, NothingNew
<1>7. \A t, u \in Transactions : \A s \in Surfaces : Behind(t, u, s)' => Behind(t, u, s)
  <2>1. \A t \in Transactions : Left(t)' = Left(t)
    BY <1>1, LeftKept DEF SameEntries
  <2>2. \A t \in Transactions : Committed(t)' => Committed(t)
    BY DEF Committed
  <2> QED BY <2>1, <2>2, BehindKept DEF SameEntries
<1>8. QueuesInOrder'
  <2>1. \A s \in Surfaces : first[s] \in Transactions \cup {None}
                              /\ last[s] \in Transactions \cup {None}
    BY <1>1 DEF TypeOK
  <2> QED BY <1>4, <1>6, <1>7, <2>1, QueuesInOrderKept DEF InOrder
<1>9. Listed'
  <2>1. \A t \in Transactions : \A i \in DOMAIN entries'[t] :
           \E u \in Transactions : \E k \in DOMAIN entries[u] :
              /\ entries'[t][i].surface = entries[u][k].surface
              /\ entries'[t][i].state.children = entries[u][k].state.children
    BY DEF SameEntries
  <2>2. \A d \in Calls' : d.op = "add" => d \in Calls
    BY <1>3
  <2> QED BY <2>1, <2>2, ListedSame DEF InOrder
<1>10. Modes'
  BY <1>1, ModesKept DEF InOrder
<1> QED BY <1>2, <1>5, <1>6, <1>8, <1>9, <1>10

\* The same when the step has nothing to do with desynchronizing either.
LEMMA QuietStep ==
    ASSUME QueueInv, TypeOK', InOrder,
           NEW cs, Replaced(stack, cs, stack'), QuietCalls(cs), SameEntries,
           UNCHANGED <<commits, sub, parent, mode, children, cached, first, last, status>>,
           \A s \in Surfaces : /\ life'[s] = "dead" <=> life[s] = "dead"
                               /\ life'[s] = "live" => life[s] = "live"
                               /\ life'[s] # "live" => life[s] # "live" \/ s \in Destroyable,
           \A s \in Surfaces : /\ current'[s].content = current[s].content
                               /\ current'[s].children = current[s].children,
           stack # <<>> => Head(stack).op \notin DesyncOps,
           \A k \in DOMAIN cs : cs[k].op \notin DesyncOps
    PROVE  InOrder'
<1>1. /\ Numbered' /\ QueuesInOrder' /\ PreparedInOrder' /\ Listed' /\ Modes'
      /\ \A d : d.op \in BuildOps => (d \in Calls' <=> d \in Calls)
  BY QuietOrder
<1>2. \A d : d.op \in DesyncOps => (d \in Calls' <=> d \in Calls)
  BY OtherCallsKept DEF QueueInv, Settled
<1>3. \A d : d.op \in {"merge", "add"} /\ d \in Calls' => d \in Calls
  BY <1>1 DEF BuildOps
<1>4. HeldBack'
  BY <1>2, <1>3, HeldBackKept DEF InOrder, QueueInv, Settled
<1> QED BY <1>1, <1>4 DEF InOrder

------------------------------------------------------------------------------
(* The steps that leave the order alone                                     *)

\* A loop other than those that desynchronize visits a surface.
LEMMA VisitCalls ==
    ASSUME QueueInv, NEW op \in SurfaceCalls, Running(op), op \notin DesyncOps, NEW s,
           \/ VisitVia(s, <<>>)
           \/ \E a \in CallType : /\ VisitVia(s, <<a>>)
                                  /\ a.op \notin BuildOps \cup ApplyCalls \cup DesyncOps
    PROVE  \E cs : /\ Replaced(stack, cs, stack') /\ QuietCalls(cs)
                   /\ \A k \in DOMAIN cs : cs[k].op \notin DesyncOps
<1>1. CASE VisitVia(s, <<>>)
  <2>1. PICK rest \in CallType : /\ rest.op = Head(stack).op
                                 /\ Replaced(stack, <<>> \o <<rest>>, stack')
    <3>1. <<>> \in Seq(CallType)
      BY EmptySeq
    <3> QED BY <1>1, <3>1, LoopFacts, VisitReplaces
  <2>2. <<>> \o <<rest>> = <<rest>>
    OBVIOUS
  <2>3. Replaced(stack, <<rest>>, stack')
    BY <2>1, <2>2
  <2>4. QuietCalls(<<rest>>) /\ \A k \in DOMAIN <<rest>> : <<rest>>[k].op \notin DesyncOps
    BY <2>1, LoopFacts, OneFrame DEF QuietCalls
  <2> QED BY <2>3, <2>4
<1>2. ASSUME NEW a \in CallType, VisitVia(s, <<a>>),
             a.op \notin BuildOps \cup ApplyCalls \cup DesyncOps
      PROVE  \E cs : /\ Replaced(stack, cs, stack') /\ QuietCalls(cs)
                     /\ \A k \in DOMAIN cs : cs[k].op \notin DesyncOps
  <2>1. PICK rest \in CallType : /\ rest.op = Head(stack).op
                                 /\ Replaced(stack, <<a>> \o <<rest>>, stack')
    <3>1. <<a>> \in Seq(CallType)
      OBVIOUS
    <3> QED BY <1>2, <3>1, LoopFacts, VisitReplaces
  <2>2. Replaced(stack, <<a, rest>>, stack')
    BY <2>1, OneThenOne
  <2>3. rest.op \notin BuildOps \cup {"unlink"} /\ a.op \notin BuildOps \cup {"unlink"}
    BY <1>2, <2>1, LoopFacts DEF ApplyCalls
  <2>4. QuietCalls(<<a, rest>>)
    BY <2>3, LoopFacts, TwoFrames DEF QuietCalls
  <2>5. \A k \in DOMAIN <<a, rest>> : <<a, rest>>[k].op \notin DesyncOps
    BY <1>2, <2>1, LoopFacts, TwoFrames
  <2> QED BY <2>2, <2>4, <2>5
<1> QED BY <1>1, <1>2

LEMMA VisitStep ==
    ASSUME QueueInv, TypeOK', InOrder, NEW op \in SurfaceCalls, Running(op),
           op \notin DesyncOps, NEW s,
           \/ VisitVia(s, <<>>)
           \/ \E a \in CallType : /\ VisitVia(s, <<a>>)
                                  /\ a.op \notin BuildOps \cup ApplyCalls \cup DesyncOps,
           UNCHANGED <<life, commits, sub, parent, mode, children, cached, queue>>,
           \A x \in Surfaces : /\ current'[x].content = current[x].content
                               /\ current'[x].children = current[x].children
    PROVE  InOrder'
<1>1. PICK cs : /\ Replaced(stack, cs, stack') /\ QuietCalls(cs)
                /\ \A k \in DOMAIN cs : cs[k].op \notin DesyncOps
  BY VisitCalls
<1>2. SameEntries
  BY DEF SameEntries, queue
<1>3. stack # <<>> => Head(stack).op \notin DesyncOps
  BY LoopFacts
<1>4. \A x \in Surfaces : /\ life'[x] = "dead" <=> life[x] = "dead"
                          /\ life'[x] = "live" => life[x] = "live"
                          /\ life'[x] # "live" => life[x] # "live" \/ x \in Destroyable
  OBVIOUS
<1> QED BY <1>1, <1>2, <1>3, <1>4, QuietStep DEF queue

LEMMA UpdateMappedInOrder ==
    ASSUME QueueInv, TypeOK', InOrder, UpdateMapped
    PROVE  InOrder'
<1>1. Running("updateMapped") /\ "updateMapped" \in SurfaceCalls \ DesyncOps
  BY DEF UpdateMapped, SurfaceCalls, DesyncOps
<1>2. PICK s \in Head(stack).todo :
         \/ VisitVia(s, <<>>)
         \/ VisitVia(s, <<OnSurfaces("updateMapped", current[s].children)>>)
  BY DEF UpdateMapped
<1>3. OnSurfaces("updateMapped", current[s].children) \in CallType
  <2>1. s \in Surfaces
    BY <1>1, <1>2, LoopFacts
  <2>2. current[s].children \in SUBSET Surfaces
    BY <2>1 DEF QueueInv, Settled, TypeOK, StateType
  <2> QED BY <1>1, <2>2, CallsTyped DEF OnSurfaces
<1>4. OnSurfaces("updateMapped", current[s].children).op
         \notin BuildOps \cup ApplyCalls \cup DesyncOps
  BY DEF OnSurfaces, BuildOps, ApplyCalls, DesyncOps
<1>5. UNCHANGED <<life, commits, sub, parent, mode, children, cached, queue, current>>
  BY DEF UpdateMapped, tree, queue, history
<1> QED BY <1>1, <1>2, <1>3, <1>4, <1>5, VisitStep

LEMMA ClearUnmappedInOrder ==
    ASSUME QueueInv, TypeOK', InOrder, ClearUnmapped
    PROVE  InOrder'
<1>1. Running("clearUnmapped") /\ "clearUnmapped" \in SurfaceCalls \ DesyncOps
  BY DEF ClearUnmapped, SurfaceCalls, DesyncOps
<1>2. PICK s \in Head(stack).todo :
         /\ current' = [c \in Surfaces |->
                IF ~mapped[s] /\ c \in {s} \cup current[s].children
                THEN [current[c] EXCEPT !.barrier = FALSE] ELSE current[c]]
         /\ VisitVia(s, <<>>)
  BY DEF ClearUnmapped
<1>3. \A c \in Surfaces : /\ current'[c].content = current[c].content
                          /\ current'[c].children = current[c].children
  <2> SUFFICES ASSUME NEW c \in Surfaces
               PROVE  /\ current'[c].content = current[c].content
                      /\ current'[c].children = current[c].children
    OBVIOUS
  <2>1. current[c] \in StateType
    BY DEF QueueInv, Settled, TypeOK
  <2>2. PICK f : f = [current[c] EXCEPT !.barrier = FALSE]
    OBVIOUS
  <2>3. f.children = current[c].children /\ f.content = current[c].content
    BY <2>1, <2>2 DEF StateType
  <2>4. current'[c] \in {current[c], f}
    BY <1>2, <2>2
  <2> QED BY <2>3, <2>4
<1>4. UNCHANGED <<life, commits, sub, parent, mode, children, cached, queue>>
  BY DEF ClearUnmapped, tree, history
<1> QED BY <1>1, <1>2, <1>3, <1>4, VisitStep

LEMMA TryLoopsInOrder ==
    ASSUME QueueInv, TypeOK', InOrder, TryChildren \/ TryFirst
    PROVE  InOrder'
<1>1. TypeOK /\ Settled
  BY DEF QueueInv, Settled
<1>2. UNCHANGED <<life, commits, sub, parent, mode, children, cached, queue, current>>
  BY DEF TryChildren, TryFirst, tree, queue, shown, history
<1>3. CASE TryChildren
  <2>1. Running("tryChildren") /\ "tryChildren" \in SurfaceCalls \ DesyncOps
    BY <1>3 DEF TryChildren, SurfaceCalls, DesyncOps
  <2>2. PICK s \in Head(stack).todo :
           VisitVia(s, IF life[s] # "dead" /\ ~mapped[s]
                       THEN <<OnSurfaces("tryFirst", current[s].children)>>
                       ELSE <<>>)
    BY <1>3 DEF TryChildren
  <2>3. PICK a : a = OnSurfaces("tryFirst", current[s].children)
    OBVIOUS
  <2>4. VisitVia(s, <<>>) \/ VisitVia(s, <<a>>)
    BY <2>2, <2>3
  <2>5. a \in CallType /\ a.op = "tryFirst"
    <3>1. s \in Surfaces
      BY <2>1, <2>2, LoopFacts
    <3>2. current[s].children \in SUBSET Surfaces
      BY <1>1, <3>1 DEF TypeOK, StateType
    <3> QED BY <2>3, <3>2, CallsTyped DEF OnSurfaces, SurfaceCalls
  <2>6. a.op \notin BuildOps \cup ApplyCalls \cup DesyncOps
    BY <2>5 DEF BuildOps, ApplyCalls, DesyncOps
  <2> QED BY <1>2, <2>1, <2>4, <2>5, <2>6, VisitStep
<1>4. CASE TryFirst
  <2>1. Running("tryFirst") /\ "tryFirst" \in SurfaceCalls \ DesyncOps
    BY <1>4 DEF TryFirst, SurfaceCalls, DesyncOps
  <2>2. PICK s \in Head(stack).todo : VisitVia(s, CallOnTx("tryApply", first[s]))
    BY <1>4 DEF TryFirst
  <2>3. PICK a : a = OnTx("tryApply", first[s])
    OBVIOUS
  <2>4. VisitVia(s, <<>>) \/ (VisitVia(s, <<a>>) /\ first[s] # None)
    BY <2>2, <2>3 DEF CallOnTx
  <2>5. first[s] # None => a \in CallType /\ a.op = "tryApply"
    <3>1. s \in Surfaces
      BY <2>1, <2>2, LoopFacts
    <3>2. first[s] # None => first[s] \in Transactions
      BY <1>1, <3>1 DEF TypeOK
    <3> QED BY <2>3, <3>2, CallsTyped DEF OnTx
  <2>6. first[s] # None => a.op \notin BuildOps \cup ApplyCalls \cup DesyncOps
    BY <2>5 DEF BuildOps, ApplyCalls, DesyncOps
  <2> QED BY <1>2, <2>1, <2>4, <2>5, <2>6, VisitStep
<1> QED BY <1>3, <1>4

\* A handler runs, and calls nothing that builds a transaction.
LEMMA HandlerCalls ==
    ASSUME QueueInv, Idle,
           \/ stack' = <<>>
           \/ \E a \in CallType : /\ stack' = <<a>>
                                  /\ a.op \notin BuildOps \cup ApplyCalls \cup DesyncOps
           \/ \E a, b \in CallType :
                 /\ stack' = <<a, b>> /\ a.op = "tryFirst" /\ b.op = "destroyed"
    PROVE  \E cs : /\ Replaced(stack, cs, stack') /\ QuietCalls(cs)
                   /\ \A k \in DOMAIN cs : cs[k].op \notin DesyncOps
<1>1. stack = <<>>
  BY DEF Idle
<1>2. CASE stack' = <<>>
  <2>1. PICK cs : cs = <<>>
    OBVIOUS
  <2>2. /\ QuietCalls(cs) /\ Replaced(stack, cs, stack')
        /\ \A k \in DOMAIN cs : cs[k].op \notin DesyncOps
    BY <1>1, <1>2, <2>1, IdleReplaces DEF QuietCalls
  <2> QED BY <2>2
<1>3. ASSUME NEW a \in CallType, stack' = <<a>>,
             a.op \notin BuildOps \cup ApplyCalls \cup DesyncOps
      PROVE  \E cs : /\ Replaced(stack, cs, stack') /\ QuietCalls(cs)
                     /\ \A k \in DOMAIN cs : cs[k].op \notin DesyncOps
  <2>1. Replaced(stack, <<a>>, stack')
    BY <1>3, IdleReplaces
  <2>2. QuietCalls(<<a>>) /\ \A k \in DOMAIN <<a>> : <<a>>[k].op \notin DesyncOps
    BY <1>1, <1>3, OneFrame DEF QuietCalls, ApplyCalls
  <2> QED BY <2>1, <2>2
<1>4. ASSUME NEW a \in CallType, NEW b \in CallType, stack' = <<a, b>>,
             a.op = "tryFirst", b.op = "destroyed"
      PROVE  \E cs : /\ Replaced(stack, cs, stack') /\ QuietCalls(cs)
                     /\ \A k \in DOMAIN cs : cs[k].op \notin DesyncOps
  <2>1. Replaced(stack, <<a, b>>, stack')
    BY <1>4, IdleReplaces
  <2>2. /\ QuietCalls(<<a, b>>)
        /\ \A k \in DOMAIN <<a, b>> : <<a, b>>[k].op \notin DesyncOps
    BY <1>1, <1>4, TwoFrames DEF QuietCalls, BuildOps, DesyncOps
  <2> QED BY <2>1, <2>2
<1> QED BY <1>2, <1>3, <1>4

\* Its data stay what the order is about.
LEMMA HandlerStep ==
    ASSUME QueueInv, TypeOK', InOrder, Idle, SameEntries,
           \/ stack' = <<>>
           \/ \E a \in CallType : /\ stack' = <<a>>
                                  /\ a.op \notin BuildOps \cup ApplyCalls \cup DesyncOps
           \/ \E a, b \in CallType :
                 /\ stack' = <<a, b>> /\ a.op = "tryFirst" /\ b.op = "destroyed",
           UNCHANGED <<commits, sub, parent, mode, children, cached, first, last, status>>,
           \A s \in Surfaces : /\ life'[s] = "dead" <=> life[s] = "dead"
                               /\ life'[s] = "live" => life[s] = "live"
                               /\ life'[s] # "live" => life[s] # "live" \/ s \in Destroyable,
           \A s \in Surfaces : /\ current'[s].content = current[s].content
                               /\ current'[s].children = current[s].children
    PROVE  InOrder'
<1>1. PICK cs : /\ Replaced(stack, cs, stack') /\ QuietCalls(cs)
                /\ \A k \in DOMAIN cs : cs[k].op \notin DesyncOps
  BY HandlerCalls
<1>2. stack # <<>> => Head(stack).op \notin DesyncOps
  BY DEF Idle
<1> QED BY <1>1, <1>2, QuietStep

LEMMA DestroySurfaceInOrder ==
    ASSUME QueueInv, TypeOK', InOrder, ~clientGone, NEW s \in Surfaces, DestroySurface(s)
    PROVE  InOrder'
<1>1. \A c \in Surfaces : /\ life'[c] = "dead" <=> life[c] = "dead"
                          /\ life'[c] = "live" => life[c] = "live"
                          /\ life'[c] # "live" => life[c] # "live" \/ c \in Destroyable
  BY DEF DestroySurface, QueueInv, Settled, TypeOK
<1>2. PICK a, b : a = OnSurfaces("tryFirst", {s}) /\ b = OnSurfaces("destroyed", {s})
  OBVIOUS
<1>3. a \in CallType /\ a.op = "tryFirst" /\ b \in CallType /\ b.op = "destroyed"
  BY <1>2, CallsTyped DEF OnSurfaces, SurfaceCalls
<1>4. stack' = <<a, b>> /\ Idle
  BY <1>2 DEF DestroySurface
<1>5. UNCHANGED <<commits, sub, parent, mode, children, cached, queue, current>>
  BY DEF DestroySurface, tree, shown, history
<1>6. SameEntries
  BY <1>5 DEF SameEntries, queue
<1> QED BY <1>1, <1>3, <1>4, <1>5, <1>6, HandlerStep DEF queue

LEMMA ToggleRoleInOrder ==
    ASSUME QueueInv, TypeOK', InOrder, NEW s \in Surfaces, ToggleRole(s)
    PROVE  InOrder'
<1>1. PICK a : a = OnSurfaces("tryFirst", {s})
  OBVIOUS
<1>2. a \in CallType /\ a.op = "tryFirst"
  BY <1>1, CallsTyped DEF OnSurfaces, SurfaceCalls
<1>3. stack' = <<a>> /\ Idle /\ a.op \notin BuildOps \cup ApplyCalls \cup DesyncOps
  BY <1>1, <1>2 DEF ToggleRole, BuildOps, ApplyCalls, DesyncOps
<1>4. UNCHANGED <<life, commits, sub, parent, mode, children, cached, queue, current>>
  BY DEF ToggleRole, shown, history
<1>5. SameEntries
  BY <1>4 DEF SameEntries, queue
<1>6. \A c \in Surfaces : /\ life'[c] = "dead" <=> life[c] = "dead"
                          /\ life'[c] = "live" => life[c] = "live"
                          /\ life'[c] # "live" => life[c] # "live" \/ c \in Destroyable
  BY <1>4
<1> QED BY <1>2, <1>3, <1>4, <1>5, <1>6, HandlerStep DEF queue

LEMMA FenceSignaledInOrder ==
    ASSUME QueueInv, TypeOK', InOrder, NEW t \in Transactions, NEW i \in DOMAIN entries[t],
           FenceSignaled(t, i)
    PROVE  InOrder'
<1>1. entries' = [entries EXCEPT ![t][i].fence = FALSE]
  BY DEF FenceSignaled
<1>2. \A u \in Transactions : DOMAIN entries'[u] = DOMAIN entries[u]
  BY <1>1 DEF QueueInv, Settled, TypeOK
<1>3. ASSUME NEW u \in Transactions, NEW k \in DOMAIN entries[u]
      PROVE  /\ entries'[u][k].surface = entries[u][k].surface
             /\ entries'[u][k].state = entries[u][k].state
             /\ entries'[u][k].next = entries[u][k].next
  <2>1. entries[u][k] \in EntryType
    BY EntryFields DEF QueueInv, Settled
  <2>2. CASE u = t /\ k = i
    <3>1. entries'[u][k] = [entries[u][k] EXCEPT !.fence = FALSE]
      BY <1>1, <2>2 DEF QueueInv, Settled, TypeOK
    <3> QED BY <2>1, <3>1 DEF EntryType
  <2>3. CASE ~(u = t /\ k = i)
    <3>1. entries'[u][k] = entries[u][k]
      BY <1>1, <2>3 DEF QueueInv, Settled, TypeOK
    <3> QED BY <3>1
  <2> QED BY <2>2, <2>3
<1>4. SameEntries
  BY <1>2, <1>3 DEF SameEntries
<1>5. PICK a : a = OnTx("tryApply", t)
  OBVIOUS
<1>6. a \in CallType /\ a.op = "tryApply"
  BY <1>5, CallsTyped DEF OnTx
<1>7. stack' = <<a>> /\ Idle /\ a.op \notin BuildOps \cup ApplyCalls \cup DesyncOps
  BY <1>5, <1>6 DEF FenceSignaled, EventLoop, BuildOps, ApplyCalls, DesyncOps
<1>8. UNCHANGED <<life, commits, sub, parent, mode, children, cached, first, last,
                  status, current>>
  BY DEF FenceSignaled, tree, shown, history
<1>9. \A c \in Surfaces : /\ life'[c] = "dead" <=> life[c] = "dead"
                          /\ life'[c] = "live" => life[c] = "live"
                          /\ life'[c] # "live" => life[c] # "live" \/ c \in Destroyable
  BY <1>8
<1> QED BY <1>4, <1>6, <1>7, <1>8, <1>9, HandlerStep

LEMMA ClearFifoBarrierInOrder ==
    ASSUME QueueInv, TypeOK', InOrder, NEW s \in Surfaces, ClearFifoBarrier(s)
    PROVE  InOrder'
<1>1. ASSUME NEW c \in Surfaces
      PROVE  /\ current'[c].content = current[c].content
             /\ current'[c].children = current[c].children
  <2>1. current \in [Surfaces -> StateType] /\ current[c] \in StateType
    BY DEF QueueInv, Settled, TypeOK
  <2>2. PICK f : f = [current[s] EXCEPT !.barrier = FALSE]
    OBVIOUS
  <2>3. current[s] \in StateType
    BY DEF QueueInv, Settled, TypeOK
  <2>4. f.children = current[s].children /\ f.content = current[s].content
    BY <2>2, <2>3 DEF StateType
  <2>5. current' = [current EXCEPT ![s] = f]
    BY <2>2 DEF ClearFifoBarrier
  <2>6. current'[c] = IF c = s THEN f ELSE current[c]
    BY <2>1, <2>5
  <2> QED BY <2>4, <2>6
<1>2. PICK a : a = OnSurfaces("tryFirst", {s})
  OBVIOUS
<1>3. a \in CallType /\ a.op = "tryFirst"
  BY <1>2, CallsTyped DEF OnSurfaces, SurfaceCalls
<1>4. stack' = <<a>> /\ Idle /\ a.op \notin BuildOps \cup ApplyCalls \cup DesyncOps
  BY <1>2, <1>3 DEF ClearFifoBarrier, EventLoop, BuildOps, ApplyCalls, DesyncOps
<1>5. UNCHANGED <<life, commits, sub, parent, mode, children, cached, queue>>
  BY DEF ClearFifoBarrier, tree, history
<1>6. SameEntries
  BY <1>5 DEF SameEntries, queue
<1>7. \A c \in Surfaces : /\ life'[c] = "dead" <=> life[c] = "dead"
                          /\ life'[c] = "live" => life[c] = "live"
                          /\ life'[c] # "live" => life[c] # "live" \/ c \in Destroyable
  BY <1>5
<1> QED BY <1>1, <1>3, <1>4, <1>5, <1>6, <1>7, HandlerStep DEF queue

LEMMA LoopDoneInOrder ==
    ASSUME QueueInv, TypeOK', InOrder, LoopDone
    PROVE  InOrder'
<1>1. PICK op \in SurfaceCalls : Running(op)
  BY DEF LoopDone, Running
<1>2. PICK cs : cs = <<>>
  OBVIOUS
<1>3. Replaced(stack, cs, stack')
  <2>1. cs \in Seq(CallType)
    BY <1>2, EmptySeq
  <2> QED BY <1>1, <1>2, <2>1, LoopFacts, ReturnReplaces DEF LoopDone
<1>4. QuietCalls(cs)
  BY <1>1, <1>2, LoopFacts DEF QuietCalls
<1>5. UNCHANGED <<life, commits, sub, parent, mode, children, cached, queue, current>>
  BY DEF LoopDone, tree, shown, history
<1>6. SameEntries
  BY <1>5 DEF SameEntries, queue
<1>7. /\ Numbered' /\ QueuesInOrder' /\ PreparedInOrder' /\ Listed' /\ Modes'
      /\ \A d : d.op \in BuildOps => (d \in Calls' <=> d \in Calls)
  BY <1>3, <1>4, <1>5, <1>6, QuietOrder DEF queue
<1>8. TypeOK
  BY DEF QueueInv, Settled
<1>9. \A d \in Calls' : d \in Calls
  BY <1>2, <1>3, <1>8, CallsAfter DEF Calls
<1>10. \A d \in Calls : d \in Calls' \/ (d = Head(stack) /\ d.todo = {})
  BY <1>3, <1>8, CallsAfter DEF LoopDone
<1>11. HeldBack'
  <2>1. \A x : Held(x)' <=> Held(x)
    BY <1>5 DEF Held
  <2>2. \A x : Freed(x) => Freed(x)'
    BY <1>10 DEF Freed
  <2>3. HeldBack
    BY DEF InOrder
  <2> QED BY <1>5, <1>9, <2>1, <2>2, <2>3 DEF HeldBack
<1> QED BY <1>7, <1>11 DEF InOrder

------------------------------------------------------------------------------
(* apply()                                                                  *)

\* The transaction whose states are being applied is the first in the queues
\* of its live surfaces, with one entry for each.
LEMMA ApplyFacts ==
    ASSUME QueueInv, Running("applyStates"), NEW t, t = Head(stack).tx
    PROVE  /\ t \in Transactions /\ stack # <<>> /\ Head(stack) \in CallType
           /\ Head(stack).op = "applyStates"
           /\ \A s \in SurfacesOf(t) : life[s] # "dead" => first[s] = t
           /\ \A i, j \in DOMAIN entries[t] :
                 /\ entries[t][i].surface = entries[t][j].surface
                 /\ life[entries[t][i].surface] # "dead"
                 => i = j
<1>1. /\ TypeOK /\ Settled /\ Nesting /\ stack # <<>>
      /\ Head(stack) \in CallType /\ Head(stack).op = "applyStates"
      /\ t \in Transactions
  BY RunningCall, CallFields DEF QueueInv, Settled
<1>2. status[t] = "applying" /\ t \notin Outer(stack, 1)
  BY <1>1, CallPlaces DEF Nesting, NestedIn, ApplyCalls
<1>3. \A i \in DOMAIN entries[t] : entries[t][i].prev = None
  BY <1>1, <1>2 DEF Settled, Neighbours
<1>4. Committed(t) /\ ~SelfWaiting(t)
  BY <1>1, <1>2, <1>3, ConstantsAssumption DEF Committed, SelfWaiting
<1>5. \A d \in Calls : d.op = "unlink" => d.tx # t
  BY <1>1, <1>2, CallPlaces, FurtherOut DEF ApplyCalls
<1>6. Left(t) = DOMAIN entries[t]
  BY <1>5 DEF Left
<1>7. ASSUME NEW s \in SurfacesOf(t), life[s] # "dead"
      PROVE  first[s] = t
  <2>1. s \in Surfaces /\ OnQueue(t, s)
    BY <1>1, <1>4, <1>6, <1>7, EntryFields DEF OnQueue, SurfacesOf
  <2> QED BY <1>1, <1>3, <1>4, <1>7, <2>1, InFront
<1> QED BY <1>1, <1>4, <1>7 DEF Settled, OneEntryEach

\* The calls of a step of the first loop.
LEMMA ApplyCallsMade ==
    ASSUME QueueInv, ApplyState
    PROVE  \E cs : /\ Replaced(stack, cs, stack') /\ QuietCalls(cs)
                   /\ \A k \in DOMAIN cs : cs[k].op \notin DesyncOps \cup {"destroyed"}
<1>1. PICK t : t = Head(stack).tx
  OBVIOUS
<1>2. /\ TypeOK /\ t \in Transactions /\ stack # <<>> /\ Head(stack) \in CallType
      /\ Head(stack).op = "applyStates" /\ Head(stack).index \in Nat \ {0}
  <2>1. Running("applyStates") /\ TypeOK
    BY DEF ApplyState, QueueInv, Settled
  <2>2. /\ t \in Transactions /\ stack # <<>> /\ Head(stack) \in CallType
        /\ Head(stack).op = "applyStates"
    BY <1>1, <2>1, ApplyFacts
  <2> QED BY <2>1, <2>2, CallFields, SMTT(60)
<1>3. PICK i \in Nat \ {0} : i = Head(stack).index
  BY <1>2
<1>4. ASSUME NEW cs \in Seq(CallType), ReturnVia(cs),
             \A k \in DOMAIN cs :
                /\ cs[k].op \in {"unlink", "applyStates", "updateMapped", "clearUnmapped"}
                /\ cs[k].op = "unlink" => cs[k].index = 1
      PROVE  \E ds : /\ Replaced(stack, ds, stack') /\ QuietCalls(ds)
                     /\ \A k \in DOMAIN ds : ds[k].op \notin DesyncOps \cup {"destroyed"}
  <2>1. Replaced(stack, cs, stack')
    BY <1>2, <1>4, ReturnReplaces
  <2>2. /\ QuietCalls(cs)
        /\ \A k \in DOMAIN cs : cs[k].op \notin DesyncOps \cup {"destroyed"}
    BY <1>2, <1>4 DEF QuietCalls, BuildOps, DesyncOps
  <2> QED BY <2>1, <2>2
<1>5. CASE i > Len(entries[t])
  <2>1. PICK a : a = OnEntry("unlink", t, 1)
    OBVIOUS
  <2>2. a \in CallType /\ a.op = "unlink" /\ a.index = 1
    BY <1>2, <2>1, CallsTyped DEF OnEntry
  <2>3. ReturnVia(<<a>>)
    BY <1>1, <1>3, <1>5, <2>1, Zenon DEF ApplyState
  <2>4. PICK cs : cs = <<a>>
    OBVIOUS
  <2>5. cs \in Seq(CallType) /\ DOMAIN cs = {1} /\ cs[1] = a
    BY <2>2, <2>4, OneFrame
  <2>6. \A k \in DOMAIN cs :
           /\ cs[k].op \in {"unlink", "applyStates", "updateMapped", "clearUnmapped"}
           /\ cs[k].op = "unlink" => cs[k].index = 1
    BY <2>2, <2>5
  <2>7. ReturnVia(cs)
    BY <2>3, <2>4
  <2> QED BY <1>4, <2>5, <2>6, <2>7
<1>6. CASE ~(i > Len(entries[t]))
  <2>0. i \in DOMAIN entries[t]
    BY <1>2, <1>6, LenProperties DEF TypeOK
  <2>11. PICK e : e = entries[t][i]
    OBVIOUS
  <2>1. PICK s : s = e.surface
    OBVIOUS
  <2>12. PICK applied : applied = MergeInto(e.state, current[s])
    OBVIOUS
  <2>2. s \in Surfaces
    BY <1>2, <2>0, <2>11, <2>1, EntryFields
  <2>3. PICK a, b, c : /\ a = OnSurfaces("updateMapped", {s})
                       /\ b = OnSurfaces("clearUnmapped", {s})
                       /\ c = OnEntry("applyStates", t, i + 1)
    OBVIOUS
  <2>4. /\ a \in CallType /\ b \in CallType /\ a.op = "updateMapped"
        /\ b.op = "clearUnmapped"
    BY <2>2, <2>3, CallsTyped DEF OnSurfaces, SurfaceCalls
  <2>5. c \in CallType /\ c.op = "applyStates"
    <3>1. i + 1 \in Nat \ {0}
      BY <1>3
    <3> QED BY <1>2, <2>3, <3>1, CallsTyped DEF OnEntry
  <2>6. ReturnVia(<<c>>) \/ ReturnVia(<<b, c>>) \/ ReturnVia(<<a, b, c>>)
    <3>1. IF Discarded(e) THEN ReturnVia(<<c>>) /\ UNCHANGED current
          ELSE /\ current' = [current EXCEPT ![s] = applied]
               /\ ReturnVia((IF HasBuffer(applied) # HasBuffer(current[s])
                             THEN <<a>> ELSE <<>>) \o <<b>> \o <<c>>)
      <4>1. t = Head(stack).tx /\ i = Head(stack).index
        BY <1>1, <1>3
      <4> QED BY <1>6, <2>11, <2>1, <2>12, <2>3, <4>1, Zenon DEF ApplyState
    <3>2. <<>> \o <<b>> = <<b>>
      OBVIOUS
    <3>3. ReturnVia(<<c>>) \/ ReturnVia(<<b>> \o <<c>>) \/ ReturnVia(<<a>> \o <<b>> \o <<c>>)
      BY <3>1, <3>2
    <3>4. PICK u, v, w, x : /\ u = <<b>> \o <<c>> /\ v = <<b, c>>
                            /\ w = <<a>> \o <<b>> \o <<c>> /\ x = <<a, b, c>>
      OBVIOUS
    <3>5. u = v
      BY <3>4, OneThenOne
    <3>6. w = x
      BY <3>4, TwoThenOne
    <3>7. ReturnVia(<<c>>) \/ ReturnVia(v) \/ ReturnVia(x)
      BY <3>3, <3>4, <3>5, <3>6, Zenon
    <3> QED BY <3>4, <3>7, Zenon
  <2>7. /\ <<c>> \in Seq(CallType) /\ <<b, c>> \in Seq(CallType)
        /\ <<a, b, c>> \in Seq(CallType)
    BY <2>4, <2>5
  <2>8. CASE ReturnVia(<<c>>)
    BY <1>4, <2>5, <2>7, <2>8, OneFrame
  <2>9. CASE ReturnVia(<<b, c>>)
    <3>1. PICK cs : cs = <<b, c>>
      OBVIOUS
    <3>2. DOMAIN cs = {1, 2} /\ cs[1] = b /\ cs[2] = c
      BY <3>1
    <3> QED BY <1>4, <2>4, <2>5, <2>7, <2>9, <3>1, <3>2
  <2>10. CASE ReturnVia(<<a, b, c>>)
    <3>1. PICK cs : cs = <<a, b, c>>
      OBVIOUS
    <3>2. DOMAIN cs = {1, 2, 3} /\ cs[1] = a /\ cs[2] = b /\ cs[3] = c
      BY <3>1
    <3> QED BY <1>4, <2>4, <2>5, <2>7, <2>10, <3>1, <3>2
  <2> QED BY <2>6, <2>8, <2>9, <2>10
<1> QED BY <1>5, <1>6

\* An entry of the transaction that is being applied shows its commit.
LEMMA ApplyCases ==
    ASSUME QueueInv, ApplyState
    PROVE  \/ UNCHANGED current
           \/ \E t \in Transactions : \E i \in DOMAIN entries[t] : \E x \in StateType :
                 /\ t = Head(stack).tx
                 /\ life[entries[t][i].surface] = "live"
                 /\ x.content = entries[t][i].state.content
                 /\ x.children = entries[t][i].state.children
                 /\ current' = [current EXCEPT ![entries[t][i].surface] = x]
<1>1. PICK t : t = Head(stack).tx
  OBVIOUS
<1>2. TypeOK /\ t \in Transactions /\ Head(stack).index \in Nat \ {0}
  <2>1. Running("applyStates") /\ TypeOK
    BY DEF ApplyState, QueueInv, Settled
  <2>2. t \in Transactions /\ Head(stack) \in CallType /\ Head(stack).op = "applyStates"
    BY <1>1, <2>1, ApplyFacts
  <2> QED BY <2>1, <2>2, CallFields
<1>3. PICK i \in Nat \ {0} : i = Head(stack).index
  BY <1>2
<1>4. CASE i > Len(entries[t])
  BY <1>1, <1>3, <1>4, Zenon DEF ApplyState
<1>5. CASE ~(i > Len(entries[t]))
  <2>1. i \in DOMAIN entries[t]
    BY <1>2, <1>5, LenProperties DEF TypeOK
  <2>2. PICK e : e = entries[t][i]
    OBVIOUS
  <2>3. PICK s : s = e.surface
    OBVIOUS
  <2>4. PICK x : x = MergeInto(e.state, current[s])
    OBVIOUS
  <2>5. PICK a, b, c : /\ a = OnSurfaces("updateMapped", {s})
                       /\ b = OnSurfaces("clearUnmapped", {s})
                       /\ c = OnEntry("applyStates", t, i + 1)
    OBVIOUS
  <2>6. IF Discarded(e) THEN ReturnVia(<<c>>) /\ UNCHANGED current
        ELSE /\ current' = [current EXCEPT ![s] = x]
             /\ ReturnVia((IF HasBuffer(x) # HasBuffer(current[s])
                           THEN <<a>> ELSE <<>>) \o <<b>> \o <<c>>)
    BY <1>1, <1>3, <1>5, <2>2, <2>3, <2>4, <2>5, Zenon DEF ApplyState
  <2>7. s \in Surfaces /\ e.state \in StateType /\ current[s] \in StateType
    BY <1>2, <2>1, <2>2, <2>3, EntryFields DEF TypeOK
  <2>8. x \in StateType /\ x.content = e.state.content /\ x.children = e.state.children
    BY <2>4, <2>7 DEF MergeInto, StateType
  <2>9. CASE Discarded(e)
    BY <2>6, <2>9
  <2>10. CASE ~Discarded(e)
    <3>1. life[s] = "live"
      BY <2>3, <2>10 DEF Discarded
    <3>2. current' = [current EXCEPT ![s] = x]
      BY <2>6, <2>10, Zenon
    <3>3. /\ t = Head(stack).tx /\ s = entries[t][i].surface
          /\ x.content = entries[t][i].state.content
          /\ x.children = entries[t][i].state.children
      BY <1>1, <2>2, <2>3, <2>8
    <3> QED BY <1>2, <2>1, <2>8, <3>1, <3>2, <3>3
  <2> QED BY <2>9, <2>10
<1> QED BY <1>4, <1>5

LEMMA ApplyStateInOrder ==
    ASSUME QueueInv, TypeOK', InOrder, ApplyState
    PROVE  InOrder' /\ \A s \in Surfaces : current'[s].content >= current[s].content
<1>1. PICK cs : /\ Replaced(stack, cs, stack') /\ QuietCalls(cs)
                /\ \A k \in DOMAIN cs : cs[k].op \notin DesyncOps
  BY ApplyCallsMade
<1>2. /\ TypeOK /\ Settled /\ stack # <<>> /\ Head(stack).op = "applyStates"
  <2>1. Running("applyStates")
    BY SMTT(60) DEF ApplyState
  <2> QED BY <2>1, ApplyFacts, SMTT(60) DEF QueueInv, Settled
<1>3. UNCHANGED <<life, commits, sub, parent, mode, children, cached, first, last,
                  status, entries>>
  BY DEF ApplyState, tree, queue, history
<1>4. SameEntries /\ \A t \in Transactions : \A s : Contents(t, s)' = Contents(t, s)
  BY <1>3, SameContents DEF SameEntries
<1>5. \A c \in Surfaces : /\ life'[c] = "dead" <=> life[c] = "dead"
                          /\ life'[c] = "live" => life[c] = "live"
                          /\ life'[c] # "live" => life[c] # "live" \/ c \in Destroyable
  BY <1>3
<1>6. \A s \in Surfaces : current[s].content \in Nat
  BY <1>2 DEF TypeOK, StateType
<1>7. CASE UNCHANGED current
  <2>1. InOrder'
    BY <1>1, <1>2, <1>3, <1>4, <1>5, <1>7, QuietStep DEF DesyncOps
  <2> QED BY <1>6, <1>7, <2>1
<1>8. ASSUME NEW t \in Transactions, NEW i \in DOMAIN entries[t], NEW x \in StateType,
             t = Head(stack).tx, NEW s \in Surfaces, s = entries[t][i].surface,
             life[s] = "live", x.content = entries[t][i].state.content,
             x.children = entries[t][i].state.children,
             current' = [current EXCEPT ![s] = x]
      PROVE  InOrder' /\ \A c \in Surfaces : current'[c].content >= current[c].content
  <2>1. \A c \in Surfaces : current'[c] = IF c = s THEN x ELSE current[c]
    BY <1>2, <1>8 DEF TypeOK
  <2>2. first[s] = t
    <3>1. Running("applyStates")
      BY DEF ApplyState
    <3>2. s \in SurfacesOf(t)
      BY <1>8, ZenonT(60) DEF SurfacesOf
    <3> QED BY <1>8, <3>1, <3>2, ApplyFacts, SMTT(60)
  <2>3. \A m \in Contents(t, s) : m = x.content
    <3>1. Running("applyStates")
      BY DEF ApplyState
    <3>2. \A j \in DOMAIN entries[t] : entries[t][j].surface = s => j = i
      BY <1>8, <3>1, ApplyFacts
    <3> QED BY <1>8, <3>2 DEF Contents, EntriesOf
  <2>4. x.content \in Contents(t, s) /\ x.content \in Nat
    <3>1. x.content \in Nat
      BY <1>8 DEF StateType
    <3>2. i \in EntriesOf(t, s)
      BY <1>8, Zenon DEF EntriesOf
    <3>3. entries[t][i].state.content \in Contents(t, s)
      BY <3>2, Zenon DEF Contents
    <3> QED BY <1>8, <3>1, <3>3
  <2>5. current[s].content <= x.content
    <3>1. NoLater({current[s].content}, Contents(t, s))
      BY <1>8, <2>2, ConstantsAssumption DEF InOrder, QueuesInOrder
    <3> QED BY <2>4, <3>1, SMTT(60) DEF NoLater
  <2>6. Numbered'
    <3>1. \A d : d.op = "add" => (d \in Calls' <=> d \in Calls)
      BY <1>1, <1>2, QuietCallsKept DEF BuildOps
    <3>2. x.content <= commits[s]
      BY <1>8, <2>4 DEF InOrder, Numbered
    <3> QED BY <1>3, <1>4, <2>1, <3>1, <3>2 DEF InOrder, Numbered
  <2>7. PreparedInOrder' /\ \A u \in Transactions : Prepared(u)' => Prepared(u)
    <3>1. \A d \in Calls' : d.op = "commit" => d \in Calls
      BY <1>1, <1>2, QuietCallsKept DEF BuildOps
    <3>2. NoneCarried
      BY <1>3, <1>4 DEF NoneCarried
    <3> QED BY <1>2, <1>3, <3>1, <3>2, PreparedInOrderKept DEF InOrder
  <2>8. QueuesInOrder'
    <3>1. \A u, v \in Transactions : \A c \in Surfaces : Behind(u, v, c)' => Behind(u, v, c)
      <4>1. \A u \in Transactions : Left(u)' = Left(u)
        BY <1>1, <1>2, <1>3, LeftKept
      <4> QED BY <1>3, <4>1 DEF Behind, Committed
    <3>2. \A c \in Surfaces : life[c] = "live" => Newest(c)' = Newest(c)
      <4>1. last[s] # None
        BY <1>2, <1>8, <2>2, QueueEnds, ConstantsAssumption
      <4>2. \A c \in Surfaces : last[c] # None => last[c] \in Transactions
        BY <1>2 DEF TypeOK
      <4> QED BY <1>3, <1>4, <2>1, <4>1, <4>2 DEF Newest
    <3>3. ASSUME NEW c \in Surfaces, life[c] = "live", first[c] # None
          PROVE  NoLater({current'[c].content}, Contents(first[c], c)')
      <4>1. first[c] \in Transactions
        BY <1>2, <3>3 DEF TypeOK
      <4>2. PICK m, D : m = current'[c].content /\ D = Contents(first[c], c)'
        OBVIOUS
      <4>3. D = Contents(first[c], c)
        <5>1. PICK u : u = first[c]
          OBVIOUS
        <5>2. D = Contents(u, c)'
          BY <1>3, <4>2, <5>1 DEF Contents, EntriesOf
        <5>3. D = Contents(u, c)
          BY <1>4, <4>1, <5>1, <5>2
        <5> QED BY <5>1, <5>3
      <4>4. CASE c = s
        <5>1. m = x.content /\ D = Contents(t, s)
          BY <2>1, <2>2, <4>2, <4>3, <4>4
        <5>2. NoLater({m}, D)
          BY <2>3, <2>4, <5>1 DEF NoLater
        <5> QED BY <4>2, <5>2, Zenon
      <4>5. CASE c # s
        <5>1. m = current[c].content
          BY <2>1, <4>2, <4>5
        <5>2. NoLater({m}, D)
          BY <3>3, <4>3, <5>1 DEF InOrder, QueuesInOrder
        <5> QED BY <4>2, <5>2, Zenon
      <4> QED BY <4>4, <4>5
    <3>4. ASSUME NEW c \in Surfaces, life[c] = "live",
                 NEW u \in Transactions, NEW v \in Transactions, u # v, Behind(u, v, c)'
          PROVE  NoLater(Contents(v, c)', Contents(u, c)')
      BY <1>4, <3>1, <3>4 DEF InOrder, QueuesInOrder
    <3>5. ASSUME NEW c \in Surfaces, life[c] = "live", NEW u \in Transactions, Prepared(u)'
          PROVE  NoLater(Newest(c)', Contents(u, c)')
      BY <1>4, <2>7, <3>2, <3>5 DEF InOrder, QueuesInOrder
    <3> QED BY <1>3, <3>3, <3>4, <3>5 DEF QueuesInOrder
  <2>9. Listed'
    <3>1. \A p \in Surfaces : \A C : Lists(p, C) => Lists(p, C)'
      BY <1>3 DEF Lists
    <3>2. Lists(s, x.children)
      BY <1>8 DEF InOrder, Listed, EntriesOf
    <3>3. \A p \in Surfaces : Lists(p, current[p].children) => Lists(p, current[p].children)'
      <4>1. ASSUME NEW p \in Surfaces, Lists(p, current[p].children)
            PROVE  Lists(p, current[p].children)'
        <5>1. PICK C : C = current'[p].children
          OBVIOUS
        <5>2. Lists(p, C)
          BY <2>1, <3>2, <4>1, <5>1
        <5> QED BY <3>1, <5>1, <5>2
      <4> QED BY <4>1
    <3>4. \A d \in Calls' : d.op = "add" => d \in Calls
      BY <1>1, <1>2, QuietCallsKept DEF BuildOps
    <3>5. \A p \in Surfaces : Lists(p, children[p]) => Lists(p, children[p])'
      BY <1>3 DEF Lists
    <3>6. Listed
      BY DEF InOrder
    <3> QED BY <1>3, <3>3, <3>4, <3>5, <3>6, ListedKept
  <2>10. Modes'
    BY <1>2, <1>3, <1>5, ModesKept DEF InOrder
  <2>11. HeldBack'
    <3>1. \A d : d.op \in DesyncOps => (d \in Calls' <=> d \in Calls)
      BY <1>1, <1>2, OtherCallsKept DEF DesyncOps
    <3>2. \A d : d.op \in {"merge", "add"} /\ d \in Calls' => d \in Calls
      BY <1>1, <1>2, QuietCallsKept DEF BuildOps
    <3> QED BY <1>2, <1>3, <3>1, <3>2, HeldBackKept DEF InOrder
  <2>12. \A c \in Surfaces : current'[c].content >= current[c].content
    BY <1>6, <2>1, <2>4, <2>5
  <2> QED BY <2>6, <2>7, <2>8, <2>9, <2>10, <2>11, <2>12, SMTT(60) DEF InOrder
<1>9. ASSUME NEW t \in Transactions, NEW i \in DOMAIN entries[t]
      PROVE  entries[t][i].surface \in Surfaces
  BY <1>2, EntryFields
<1> QED BY <1>7, <1>8, <1>9, ApplyCases

------------------------------------------------------------------------------
(* The steps of the queues                                                  *)

\* A step that changes the queues, and nothing else the order is about.
LEMMA KeptStep ==
    ASSUME QueueInv, TypeOK', InOrder, QueuesInOrder',
           UNCHANGED <<life, commits, sub, parent, mode, children, cached, current>>,
           \A d : d.op \in BuildOps /\ d \in Calls' => d \in Calls,
           \A d : d.op \in DesyncOps => (d \in Calls' <=> d \in Calls),
           \A t \in Transactions : \A i \in DOMAIN entries'[t] :
              \E k \in DOMAIN entries[t] :
                 /\ entries'[t][i].surface = entries[t][k].surface
                 /\ entries'[t][i].state = entries[t][k].state
    PROVE  InOrder'
<1>1. TypeOK
  BY DEF QueueInv, Settled
<1>2. \A t \in Transactions : \A s : Contents(t, s)' \subseteq Contents(t, s)
  BY FewerContents
<1>3. NothingNew
  BY <1>2 DEF NothingNew, NoneCarried
<1>4. \A d \in Calls' : d.op \in {"add", "commit", "merge"} => d \in Calls
  BY DEF BuildOps
<1>5. Numbered'
  BY <1>3, <1>4, NumberedKept DEF InOrder
<1>6. PreparedInOrder'
  BY <1>1, <1>3, <1>4, PreparedInOrderKept DEF InOrder, NothingNew
<1>7. HeldBack'
  BY <1>1, <1>4, HeldBackKept DEF InOrder
<1>8. Listed'
  <2>1. \A t \in Transactions : \A i \in DOMAIN entries'[t] :
           \E u \in Transactions : \E k \in DOMAIN entries[u] :
              /\ entries'[t][i].surface = entries[u][k].surface
              /\ entries'[t][i].state.children = entries[u][k].state.children
    OBVIOUS
  <2> QED BY <1>4, <2>1, ListedSame DEF InOrder
<1>9. Modes'
  BY <1>1, ModesKept DEF InOrder
<1> QED BY <1>5, <1>6, <1>7, <1>8, <1>9 DEF InOrder

\* What is prepared stays so, if nothing new is committed or cached.
LEMMA PreparedKept ==
    ASSUME UNCHANGED cached,
           \A d : d.op \in BuildOps /\ d \in Calls' => d \in Calls
    PROVE  \A t \in Transactions : Prepared(t)' => Prepared(t)
BY DEF Prepared, BuildOps

LEMMA TryApplyInOrder ==
    ASSUME QueueInv, TypeOK', InOrder, TryApply
    PROVE  InOrder'
<1>1. Running("tryApply") /\ TypeOK /\ Settled
  BY DEF TryApply, QueueInv, Settled
<1>2. /\ stack # <<>> /\ Head(stack).op = "tryApply" /\ Head(stack).tx \in Transactions
  BY <1>1, RunningCall, CallFields
<1>3. PICK t \in Transactions : t = Head(stack).tx
  BY <1>2
<1>4. UNCHANGED <<life, commits, sub, parent, mode, children, cached, current, first, last>>
  BY DEF TryApply, tree, shown, history
<1>5. CASE ~IsReady(t)
  <2>1. PICK cs : cs = <<>>
    OBVIOUS
  <2>2. ReturnVia(cs) /\ UNCHANGED <<entries, status>>
    BY <1>3, <1>5, <2>1 DEF TryApply
  <2>3. Replaced(stack, cs, stack')
    BY <1>1, <1>2, <2>1, <2>2, EmptySeq, ReturnReplaces
  <2>4. QuietCalls(cs) /\ \A k \in DOMAIN cs : cs[k].op \notin DesyncOps
    BY <1>2, <2>1 DEF QuietCalls, BuildOps
  <2>5. SameEntries
    BY <2>2 DEF SameEntries
  <2>6. Head(stack).op \notin DesyncOps
    BY <1>2 DEF DesyncOps
  <2>7. \A c \in Surfaces : /\ life'[c] = "dead" <=> life[c] = "dead"
                            /\ life'[c] = "live" => life[c] = "live"
                            /\ life'[c] # "live" => life[c] # "live" \/ c \in Destroyable
    BY <1>4
  <2>8. \A c \in Surfaces : /\ current'[c].content = current[c].content
                            /\ current'[c].children = current[c].children
    BY <1>4
  <2> QED BY <1>4, <2>2, <2>3, <2>4, <2>5, <2>6, <2>7, <2>8, QuietStep
<1>6. CASE IsReady(t)
  <2>1. PICK a, p :
           /\ a \in CallType /\ a.op = "applyStates" /\ a.tx = t /\ a.index = 1
           /\ Replaced(stack, <<a>>, stack')
           /\ DescendantsFirst([i \in DOMAIN entries[t] |-> entries[t][p[i]]])
           /\ Begins(t, p)
    BY <1>3, <1>6, TryApplyBegins
  <2>2. /\ \A d : d.op \in BuildOps => (d \in Calls' <=> d \in Calls)
        /\ \A d : d.op \in DesyncOps => (d \in Calls' <=> d \in Calls)
    <3>1. \A k \in DOMAIN <<a>> : <<a>>[k].op \notin BuildOps \cup DesyncOps
      BY <2>1, OneFrame DEF BuildOps, DesyncOps
    <3>2. Head(stack).op \notin BuildOps \cup DesyncOps
      BY <1>2 DEF BuildOps, DesyncOps
    <3>3. \A d : d.op \in BuildOps \cup DesyncOps => (d \in Calls' <=> d \in Calls)
      BY <1>1, <2>1, <3>1, <3>2, OtherCallsKept
    <3> QED BY <3>3
  <2>3. /\ DOMAIN entries'[t] = DOMAIN entries[t]
        /\ \A i \in DOMAIN entries[t] : p[i] \in DOMAIN entries[t]
        /\ \A i \in DOMAIN entries[t] : entries'[t][i] = entries[t][p[i]]
        /\ \A u \in Transactions : u # t => entries'[u] = entries[u]
        /\ \A u \in Transactions : Committed(u)' = Committed(u)
    BY <1>1, <2>1, BeginsFacts
  <2>4. \A u \in Transactions : \A i \in DOMAIN entries'[u] :
           \E k \in DOMAIN entries[u] :
              /\ entries'[u][i].surface = entries[u][k].surface
              /\ entries'[u][i].state = entries[u][k].state
    <3> SUFFICES ASSUME NEW u \in Transactions, NEW i \in DOMAIN entries'[u]
                 PROVE  \E k \in DOMAIN entries[u] : entries'[u][i] = entries[u][k]
      OBVIOUS
    <3> QED BY <2>3
  <2>5. ASSUME NEW v \in Transactions, NEW u \in Transactions, NEW s \in Surfaces,
               Behind(v, u, s)'
        PROVE  Behind(v, u, s)
    <3>1. PICK j \in Left(u)' : entries'[u][j].surface = s /\ entries'[u][j].next = v
      BY <2>5 DEF Behind
    <3>2. Left(u)' = Left(u) /\ Left(t) = DOMAIN entries[t] /\ Left(u) \subseteq DOMAIN entries[u]
      BY <2>1 DEF Begins, Left
    <3>3. Committed(u)
      BY <2>3, <2>5 DEF Behind
    <3>4. CASE u = t
      BY <2>3, <3>1, <3>2, <3>3, <3>4 DEF Behind
    <3>5. CASE u # t
      BY <2>3, <3>1, <3>2, <3>3, <3>5 DEF Behind
    <3> QED BY <3>4, <3>5
  <2>6. NothingNew
    <3>1. \A u \in Transactions : \A s : Contents(u, s)' \subseteq Contents(u, s)
      BY <2>4, FewerContents
    <3> QED BY <1>4, <3>1 DEF NothingNew, NoneCarried
  <2>7. QueuesInOrder'
    <3>1. \A u \in Transactions : Prepared(u)' => Prepared(u)
      BY <1>4, <2>2, PreparedKept
    <3>2. \A s \in Surfaces : first[s] \in Transactions \cup {None}
                                /\ last[s] \in Transactions \cup {None}
      BY <1>1 DEF TypeOK
    <3> QED BY <1>4, <2>5, <2>6, <3>1, <3>2, QueuesInOrderKept DEF InOrder
  <2> QED BY <1>4, <2>2, <2>4, <2>7, KeptStep
<1> QED BY <1>5, <1>6

LEMMA Between ==
    ASSUME NEW A, NEW B, NEW C, B # {}, NoLater(A, B), NoLater(B, C),
           A \subseteq Nat, B \subseteq Nat, C \subseteq Nat
    PROVE  NoLater(A, C)
<1> SUFFICES ASSUME NEW a \in A, NEW c \in C PROVE a <= c
  BY DEF NoLater
<1>1. PICK b \in B : TRUE
  OBVIOUS
<1>2. a <= b /\ b <= c
  BY <1>1 DEF NoLater
<1> QED BY <1>1, <1>2

LEMMA UnlinkEndInOrder ==
    ASSUME QueueInv, TypeOK', InOrder, Unlink, Head(stack).index > Len(entries[Head(stack).tx])
    PROVE  InOrder'
<1>1. Running("unlink") /\ TypeOK /\ Settled
  <2>1. Running("unlink")
    BY Zenon DEF Unlink
  <2> QED BY <2>1 DEF QueueInv, Settled
<1>0. UNCHANGED <<life, clientGone, tree, cached, shown, history>>
  BY Zenon DEF Unlink
<1>2. PICK h, t, i : h = Head(stack) /\ t = h.tx /\ i = h.index
  OBVIOUS
<1>3. stack # <<>> /\ h \in CallType /\ h.op = "unlink" /\ t \in Transactions
  BY <1>1, <1>2, UnlinkFacts
<1>4. PICK cs : cs = <<>>
  OBVIOUS
<1>5. /\ entries' = [entries EXCEPT ![t] = <<>>]
      /\ status' = [status EXCEPT ![t] = "free"]
      /\ ReturnVia(cs)
      /\ UNCHANGED <<life, commits, sub, parent, mode, children, cached, current,
                     first, last>>
  <2>1. /\ entries' = [entries EXCEPT ![t] = <<>>]
        /\ status' = [status EXCEPT ![t] = "free"]
        /\ ReturnVia(cs)
        /\ UNCHANGED <<first, last>>
    BY <1>2, <1>4, ZenonT(60) DEF Unlink
  <2> QED BY <1>0, <2>1 DEF tree, shown, history
<1>6. Replaced(stack, cs, stack') /\ DOMAIN cs = {}
  <2>1. cs \in Seq(CallType) /\ DOMAIN cs = {}
    BY <1>4, EmptySeq
  <2> QED BY <1>1, <1>3, <1>5, <2>1, ReturnReplaces
<1>7. /\ entries'[t] = <<>> /\ status'[t] = "free"
      /\ \A u \in Transactions \ {t} : entries'[u] = entries[u] /\ status'[u] = status[u]
  BY <1>1, <1>3, <1>5 DEF TypeOK
<1>8. \A u \in Transactions \ {t} : Left(u)' = Left(u)
  BY <1>1, <1>2, <1>3, <1>6, <1>7, LeftElsewhere
<1>9. /\ \A d : d.op \in BuildOps => (d \in Calls' <=> d \in Calls)
      /\ \A d : d.op \in DesyncOps => (d \in Calls' <=> d \in Calls)
  <2>1. Head(stack).op \notin BuildOps \cup DesyncOps
    BY <1>2, <1>3 DEF BuildOps, DesyncOps
  <2>2. \A d : d.op \in BuildOps \cup DesyncOps => (d \in Calls' <=> d \in Calls)
    BY <1>1, <1>6, <2>1, OtherCallsKept
  <2> QED BY <2>2
<1>10. \A u \in Transactions : \A k \in DOMAIN entries'[u] :
          \E l \in DOMAIN entries[u] :
             /\ entries'[u][k].surface = entries[u][l].surface
             /\ entries'[u][k].state = entries[u][l].state
  BY <1>7
<1>11. NothingNew
  <2>1. \A u \in Transactions : \A s : Contents(u, s)' \subseteq Contents(u, s)
    BY <1>10, FewerContents
  <2> QED BY <1>5, <2>1 DEF NothingNew, NoneCarried
<1>12. QueuesInOrder'
  <2>1. \A u \in Transactions : Prepared(u)' => Prepared(u)
    BY <1>5, <1>9, PreparedKept
  <2>2. \A s \in Surfaces : first[s] \in Transactions \cup {None}
                              /\ last[s] \in Transactions \cup {None}
    BY <1>1 DEF TypeOK
  <2>3. \A v, u \in Transactions : \A s \in Surfaces : Behind(v, u, s)' => Behind(v, u, s)
    <3> SUFFICES ASSUME NEW v \in Transactions, NEW u \in Transactions,
                        NEW s \in Surfaces, Behind(v, u, s)'
                 PROVE  Behind(v, u, s)
      OBVIOUS
    <3>1. u # t
      BY <1>7 DEF Behind, Committed
    <3> QED BY <1>7, <1>8, <3>1 DEF Behind, Committed
  <2> QED BY <1>5, <1>11, <2>1, <2>2, <2>3, QueuesInOrderKept DEF InOrder
<1> QED BY <1>5, <1>9, <1>10, <1>12, KeptStep

LEMMA UnlinkEntryInOrder ==
    ASSUME QueueInv, TypeOK', InOrder, Unlink,
           ~(Head(stack).index > Len(entries[Head(stack).tx]))
    PROVE  InOrder'
<1>1. Running("unlink") /\ TypeOK /\ Settled
  <2>1. Running("unlink")
    BY Zenon DEF Unlink
  <2> QED BY <2>1 DEF QueueInv, Settled
<1>0. UNCHANGED <<life, clientGone, tree, cached, shown, history>>
  BY Zenon DEF Unlink
<1>2. PICK t, i, s, n, a, b, c, cs :
          /\ t = Head(stack).tx /\ i = Head(stack).index
          /\ s = entries[t][i].surface /\ n = entries[t][i].next
          /\ Leaves(t, i, s, n)
          /\ a = OnTx("tryApply", n) /\ b = OnSurfaces("tryChildren", {s})
          /\ c = OnEntry("unlink", t, i + 1)
          /\ Replaced(stack, cs, stack')
          /\ cs = IF n = None THEN <<b, c>> ELSE <<a, b, c>>
  BY UnlinkLeaves, Zenon
<1>3. Leaves(t, i, s, n) /\ Replaced(stack, cs, stack')
  BY <1>2, Zenon
<1>4. stack # <<>> /\ Head(stack).op = "unlink" /\ t \in Transactions
  <2>1. t = Head(stack).tx
    BY <1>2, Zenon
  <2> QED BY <1>1, <2>1, UnlinkFacts
<1>5. /\ Committed(t) /\ i \in DOMAIN entries[t] /\ s \in Surfaces
      /\ n \in Transactions \cup {None}
      /\ n # None => n # t
      /\ \A u \in Transactions : DOMAIN entries'[u] = DOMAIN entries[u]
      /\ \A u \in Transactions : \A k \in DOMAIN entries[u] :
            /\ entries'[u][k].surface = entries[u][k].surface
            /\ entries'[u][k].state = entries[u][k].state
            /\ entries'[u][k].next = entries[u][k].next
  BY <1>1, <1>3, <1>4, LeavesFacts
<1>6. /\ \A d : d.op \in BuildOps => (d \in Calls' <=> d \in Calls)
      /\ \A d : d.op \in DesyncOps => (d \in Calls' <=> d \in Calls)
  <2>1. Head(stack).op \notin BuildOps \cup DesyncOps
    BY <1>4 DEF BuildOps, DesyncOps
  <2>2. \A k \in DOMAIN cs : cs[k] \in {a, b, c}
    <3>1. cs = <<b, c>> \/ cs = <<a, b, c>>
      BY <1>2, Zenon
    <3> QED BY <3>1, TwoFrames, ThreeFrames
  <2>3. a.op = "tryApply" /\ b.op = "tryChildren" /\ c.op = "unlink"
    <3>1. /\ a = OnTx("tryApply", n) /\ b = OnSurfaces("tryChildren", {s})
          /\ c = OnEntry("unlink", t, i + 1)
      BY <1>2, Zenon
    <3> QED BY <3>1 DEF OnTx, OnSurfaces, OnEntry
  <2>4. \A k \in DOMAIN cs : cs[k].op \notin BuildOps \cup DesyncOps
    BY <2>2, <2>3 DEF BuildOps, DesyncOps
  <2>5. \A d : d.op \in BuildOps \cup DesyncOps => (d \in Calls' <=> d \in Calls)
    BY <1>1, <1>3, <2>1, <2>4, OtherCallsKept, SMTT(60)
  <2> QED BY <2>5
<1>7. /\ UNCHANGED <<life, commits, sub, parent, mode, children, cached, current, status>>
      /\ LeaveQueue(t, s, n)
  BY <1>0, <1>3 DEF Leaves, tree, shown, history
<1>8. \A u \in Transactions : \A x : Contents(u, x)' = Contents(u, x)
  BY <1>5 DEF Contents, EntriesOf
<1>9. \A u \in Transactions : Prepared(u)' => Prepared(u)
  BY <1>6, <1>7, PreparedKept
<1>10. \A v, u \in Transactions : \A x \in Surfaces : Behind(v, u, x)' => Behind(v, u, x)
  <2>1. \A u \in Transactions : Left(u)' \subseteq Left(u)
    BY <1>3 DEF Leaves
  <2>2. \A u \in Transactions : Committed(u)' => Committed(u)
    BY <1>7 DEF Committed
  <2> QED BY <1>5, <2>1, <2>2, BehindKept, SMTT(60)
<1>11. \A x \in Surfaces : first[x] \in Transactions \cup {None}
                             /\ last[x] \in Transactions \cup {None}
  BY <1>1 DEF TypeOK
<1>12. CASE life[s] = "dead"
  <2>1. UNCHANGED <<first, last>>
    BY <1>7, <1>12 DEF LeaveQueue
  <2>2. NothingNew
    BY <1>7, <1>8 DEF NothingNew, NoneCarried
  <2>3. QueuesInOrder'
    BY <1>9, <1>10, <1>11, <2>1, <2>2, QueuesInOrderKept DEF InOrder
  <2> QED BY <1>5, <1>6, <1>7, <2>3, KeptStep
<1>13. CASE life[s] # "dead"
  <2>1. first[s] = t /\ s \in SurfacesOf(t)
    <3>1. i \in Left(t) /\ s = entries[t][i].surface
          /\ \A k \in DOMAIN entries[t] : entries[t][k].prev = None
      BY <1>3 DEF Leaves
    <3>2. OnQueue(t, s) /\ s \in SurfacesOf(t)
      BY <1>5, <3>1 DEF OnQueue, SurfacesOf
    <3> QED BY <1>1, <1>4, <1>5, <1>13, <3>1, <3>2, InFront
  <2>2. n = None => last[s] = t
    <3>1. i \in Left(t) /\ s = entries[t][i].surface /\ n = entries[t][i].next
      BY <1>3 DEF Leaves
    <3> QED BY <1>1, <1>4, <1>5, <1>13, <3>1 DEF Settled, AtEnds
  <2>3. n # None => Behind(n, t, s)
    <3>1. i \in Left(t) /\ s = entries[t][i].surface /\ n = entries[t][i].next
      BY <1>3 DEF Leaves
    <3> QED BY <1>5, <3>1 DEF Behind
  <2>4. /\ \A x \in Surfaces : x # s => first'[x] = first[x] /\ last'[x] = last[x]
        /\ last[s] = t => first'[s] = None /\ last'[s] = None
        /\ last[s] # t => first'[s] = n /\ last'[s] = last[s]
    BY <1>1, <1>5, <1>7, <1>13 DEF LeaveQueue, TypeOK
  <2>5. Contents(t, s) # {} /\ Contents(t, s) \subseteq Nat /\ {current[s].content} \subseteq Nat
    <3>1. Contents(t, s) # {} /\ Contents(t, s) \subseteq Nat
      BY <1>1, <1>4, <2>1, ContentsFacts
    <3>2. current[s].content \in Nat
      BY <1>1, <1>5 DEF TypeOK, StateType
    <3> QED BY <3>1, <3>2
  <2>6. life[s] = "live" => NoLater({current[s].content}, Contents(t, s))
    BY <1>4, <1>5, <2>1, ConstantsAssumption DEF InOrder, QueuesInOrder
  <2>7. QueuesInOrder'
    <3>1. ASSUME NEW x \in Surfaces, life[x] = "live", first'[x] # None
          PROVE  NoLater({current'[x].content}, Contents(first[x], x)')
      <4>1. PICK u : u = first'[x]
        OBVIOUS
      <4>2. NoLater({current[x].content}, Contents(u, x))
        <5>1. CASE x # s
          BY <1>11, <2>4, <3>1, <4>1, <5>1 DEF InOrder, QueuesInOrder
        <5>2. CASE x = s
          <6>1. u = n /\ n # None /\ last[s] # t
            BY <2>2, <2>4, <3>1, <4>1, <5>2
          <6>2. n \in Transactions /\ n # t
            BY <1>5, <6>1
          <6>3. NoLater(Contents(t, s), Contents(n, s))
            BY <1>4, <1>5, <2>3, <3>1, <5>2, <6>1, <6>2 DEF InOrder, QueuesInOrder
          <6>4. Contents(n, s) \subseteq Nat
            BY <1>1, <6>2, ContentsFacts
          <6> QED BY <2>5, <2>6, <3>1, <5>2, <6>1, <6>3, <6>4, Between
        <5> QED BY <5>1, <5>2
      <4>3. u \in Transactions
        BY <1>5, <1>11, <2>4, <3>1, <4>1
      <4>4. NoLater({current'[x].content}, Contents(u, x)')
        <5>1. PICK m, D : m = current'[x].content /\ D = Contents(u, x)'
          OBVIOUS
        <5>2. m = current[x].content /\ D = Contents(u, x)
          BY <1>7, <1>8, <4>3, <5>1
        <5>3. NoLater({m}, D)
          BY <4>2, <5>2
        <5> QED BY <5>1, <5>3, Zenon
      <4> QED BY <4>1, <4>4 DEF Contents, EntriesOf
    <3>2. ASSUME NEW x \in Surfaces, life[x] = "live",
                 NEW v \in Transactions, NEW u \in Transactions, v # u, Behind(v, u, x)'
          PROVE  NoLater(Contents(u, x)', Contents(v, x)')
      BY <1>8, <1>10, <3>2 DEF InOrder, QueuesInOrder
    <3>3. ASSUME NEW x \in Surfaces, life[x] = "live", NEW u \in Transactions, Prepared(u)'
          PROVE  NoLater(Newest(x)', Contents(u, x)')
      <4>1. NoLater(Newest(x), Contents(u, x)) /\ Contents(u, x)' = Contents(u, x)
        BY <1>8, <1>9, <3>3 DEF InOrder, QueuesInOrder
      <4>2. CASE x # s \/ last[s] # t
        <5>1. last'[x] = last[x]
          BY <2>4, <4>2
        <5>2. Newest(x)' = Newest(x)
          BY <1>7, <1>8, <1>11, <5>1 DEF Newest
        <5> QED BY <4>1, <5>2
      <4>3. CASE x = s /\ last[s] = t
        <5>1. Newest(x) = Contents(t, s) /\ t # None
          BY <1>4, <4>3, ConstantsAssumption DEF Newest
        <5>2. Newest(x)' = {current[s].content}
          BY <1>7, <2>4, <4>3 DEF Newest
        <5>3. Contents(u, x) \subseteq Nat
          BY <1>1, <3>3, ContentsFacts
        <5>4. NoLater({current[s].content}, Contents(u, x))
          BY <2>5, <2>6, <3>3, <4>1, <4>3, <5>1, <5>3, Between
        <5> QED BY <4>1, <5>2, <5>4
      <4> QED BY <4>2, <4>3
    <3> QED BY <1>7, <3>1, <3>2, <3>3 DEF QueuesInOrder
  <2> QED BY <1>5, <1>6, <1>7, <2>7, KeptStep
<1> QED BY <1>12, <1>13

LEMMA CommitInOrder ==
    ASSUME QueueInv, TypeOK', InOrder, Commit
    PROVE  InOrder'
<1>1. PICK t \in Transactions :
         /\ Joins(t) /\ stack # <<>> /\ Head(stack) \in Calls
         /\ Head(stack).op = "commit" /\ Head(stack).tx = t
         /\ Replaced(stack, <<OnTx("tryApply", t)>>, stack')
  BY CommitJoins
<1>2. TypeOK /\ Settled /\ Nesting
  BY DEF QueueInv, Settled
<1>3. PICK a : a = OnTx("tryApply", t)
  OBVIOUS
<1>4. a.op = "tryApply" /\ Replaced(stack, <<a>>, stack')
  BY <1>1, <1>3 DEF OnTx
<1>5. UNCHANGED <<life, commits, sub, parent, mode, children, cached, current>>
  <2>1. UNCHANGED <<life, clientGone, tree, cached, shown, history>>
    BY Zenon DEF Commit
  <2> QED BY <2>1 DEF tree, shown, history
<1>6. \A d : d.op \in BuildOps => d \notin Calls'
  <2>1. \A m \in DOMAIN stack : m > 1 => stack[m].op \in DesyncOps
    BY <1>1, <1>2, FurtherOut, CallersFacts
  <2>2. \A d \in Calls' : d = a \/ d.op \in DesyncOps
    BY <1>2, <1>4, <2>1, CallsAfter, OneFrame
  <2> QED BY <1>4, <2>2 DEF BuildOps, DesyncOps
<1>7. \A d : d.op \in DesyncOps => (d \in Calls' <=> d \in Calls)
  <2>1. \A k \in DOMAIN <<a>> : <<a>>[k].op \notin DesyncOps
    BY <1>4, OneFrame DEF DesyncOps
  <2>2. Head(stack).op \notin DesyncOps
    BY <1>1 DEF DesyncOps
  <2> QED BY <1>2, <1>4, <2>1, <2>2, OtherCallsKept
<1>8. /\ \A u \in Transactions : DOMAIN entries'[u] = DOMAIN entries[u]
      /\ \A u \in Transactions : \A i \in DOMAIN entries[u] :
            /\ entries'[u][i].surface = entries[u][i].surface
            /\ entries'[u][i].state = entries[u][i].state
      /\ \A u \in Transactions : Left(u) = DOMAIN entries[u] /\ Left(u)' = DOMAIN entries[u]
  BY <1>1 DEF Joins
<1>9. /\ \A u \in Transactions \ {t} : \A i \in DOMAIN entries[u] :
            LET s == entries[u][i].surface
            IN  entries'[u][i].next = IF Touches(t, s) /\ last[s] = u THEN t
                                      ELSE entries[u][i].next
      /\ \A i \in DOMAIN entries[t] : entries'[t][i].next \in {t, None}
      /\ \A s \in Surfaces :
            /\ first'[s] = IF Touches(t, s) /\ first[s] = None THEN t ELSE first[s]
            /\ last'[s] = IF Touches(t, s) THEN t ELSE last[s]
      /\ \A u \in Transactions : Committed(u)' <=> (Committed(u) \/ u = t)
  <2>1. \A u \in Transactions : Committed(u)' <=> (Committed(u) \/ u = t)
    BY <1>1, <1>2, JoinsFacts
  <2>2. \A i \in DOMAIN entries[t] : entries'[t][i].next \in {t, None}
    BY <1>1 DEF Joins
  <2> QED BY <1>1, <2>1, <2>2 DEF Joins
<1>10. Prepared(t) /\ \A u \in Transactions : Prepared(u)' => Prepared(u) /\ u # t
  <2>1. \A x \in Surfaces : cached[x] # t
    BY <1>1, <1>2 DEF Settled, Building, BuiltBy
  <2> QED BY <1>1, <1>5, <1>6, <2>1 DEF Prepared, BuildOps
<1>11. \A u \in Transactions : \A x : Contents(u, x)' = Contents(u, x)
  BY <1>8 DEF Contents, EntriesOf
<1>12. t # None /\ \A x \in Surfaces : first[x] \in Transactions \cup {None}
                                         /\ last[x] \in Transactions \cup {None}
  BY <1>2, ConstantsAssumption DEF TypeOK
<1>13. QueuesInOrder'
  <2>1. ASSUME NEW x \in Surfaces, life[x] = "live", first'[x] # None
        PROVE  NoLater({current'[x].content}, Contents(first[x], x)')
    <3>1. PICK u : u = first'[x]
      OBVIOUS
    <3>2. u \in Transactions
      BY <1>9, <1>12, <2>1, <3>1
    <3>3. NoLater({current[x].content}, Contents(u, x))
      <4>1. CASE first[x] = None
        <5>1. u = t
          BY <1>9, <2>1, <3>1, <4>1
        <5>2. Newest(x) = {current[x].content}
          BY <1>2, <4>1, QueueEnds DEF Newest
        <5> QED BY <1>10, <2>1, <5>1, <5>2 DEF InOrder, QueuesInOrder
      <4>2. CASE first[x] # None
        BY <1>9, <2>1, <3>1, <4>2 DEF InOrder, QueuesInOrder
      <4> QED BY <4>1, <4>2
    <3>4. NoLater({current'[x].content}, Contents(u, x)')
      <4>1. PICK m, D : m = current'[x].content /\ D = Contents(u, x)'
        OBVIOUS
      <4>2. m = current[x].content /\ D = Contents(u, x)
        BY <1>5, <1>11, <3>2, <4>1
      <4>3. NoLater({m}, D)
        BY <3>3, <4>2
      <4> QED BY <4>1, <4>3, Zenon
    <3> QED BY <3>1, <3>4 DEF Contents, EntriesOf
  <2>2. ASSUME NEW x \in Surfaces, life[x] = "live",
               NEW v \in Transactions, NEW u \in Transactions, v # u, Behind(v, u, x)'
        PROVE  NoLater(Contents(u, x), Contents(v, x))
    <3>1. PICK j \in Left(u)' : entries'[u][j].surface = x /\ entries'[u][j].next = v
      BY <2>2 DEF Behind
    <3>2. j \in DOMAIN entries[u] /\ j \in Left(u) /\ entries[u][j].surface = x
      BY <1>8, <3>1
    <3>3. u # t
      BY <1>9, <1>12, <2>2, <3>1, <3>2, ConstantsAssumption
    <3>4. Committed(u)
      BY <1>9, <2>2, <3>3 DEF Behind
    <3>5. v = entries[u][j].next \/ (v = t /\ last[x] = u)
      BY <1>9, <3>1, <3>2, <3>3
    <3>6. CASE v = entries[u][j].next
      <4>1. Behind(v, u, x)
        BY <3>2, <3>4, <3>6 DEF Behind
      <4> QED BY <2>2, <4>1 DEF InOrder, QueuesInOrder
    <3>7. CASE v = t /\ last[x] = u
      <4>1. Newest(x) = Contents(u, x)
        BY <3>7, ConstantsAssumption DEF Newest
      <4> QED BY <1>10, <2>2, <3>7, <4>1 DEF InOrder, QueuesInOrder
    <3> QED BY <3>5, <3>6, <3>7
  <2>3. ASSUME NEW x \in Surfaces, life[x] = "live", NEW u \in Transactions, Prepared(u)'
        PROVE  NoLater(Newest(x)', Contents(u, x)')
    <3>1. Prepared(u) /\ u # t /\ Contents(u, x)' = Contents(u, x)
      BY <1>10, <1>11, <2>3
    <3>2. CASE Touches(t, x)
      <4>1. last'[x] = t
        BY <1>9, <3>2
      <4>2. Newest(x)' = Contents(t, x)
        BY <1>11, <1>12, <4>1 DEF Newest
      <4>3. NoLater(Contents(t, x), Contents(u, x))
        BY <1>1, <2>3, <3>1 DEF InOrder, PreparedInOrder
      <4> QED BY <3>1, <4>2, <4>3
    <3>3. CASE ~Touches(t, x)
      <4>1. last'[x] = last[x]
        BY <1>9, <3>3
      <4>2. Newest(x)' = Newest(x)
        BY <1>5, <1>11, <1>12, <4>1 DEF Newest
      <4> QED BY <2>3, <3>1, <4>2 DEF InOrder, QueuesInOrder
    <3> QED BY <3>2, <3>3
  <2> QED BY <1>5, <1>11, <2>1, <2>2, <2>3 DEF QueuesInOrder
<1> QED BY <1>5, <1>6, <1>7, <1>8, <1>13, KeptStep

------------------------------------------------------------------------------
(* The steps that build transactions                                        *)

\* Two surfaces with one below both are one above the other.
LEMMA Comparable ==
    ASSUME NEW a \in Surfaces, NEW b \in Surfaces, NEW x, x \in Under(a), x \in Under(b)
    PROVE  a = b \/ a \in Below(b) \/ b \in Below(a)
<1> SUFFICES ASSUME a # b, a \notin Below(b), b \notin Below(a) PROVE FALSE
  OBVIOUS
<1>1. x \in Below(a) /\ x \in Below(b)
  BY DEF Under
<1> DEFINE A == Below(a) \ Under(b)
<1>2. ClosedBelow(A, a)
  <2> SUFFICES ASSUME NEW z \in Surfaces, InitialParent[z] \in A \cup {a}
               PROVE  z \in A
    BY DEF ClosedBelow
  <2>1. z \in Below(a)
    BY BelowFacts
  <2>2. z # b
    BY <2>1
  <2>3. z \notin Below(b)
    <3> SUFFICES ASSUME z \in Below(b) PROVE FALSE
      OBVIOUS
    <3>1. InitialParent[z] \in Below(b) \cup {b}
      BY BelowFacts
    <3> QED BY <3>1 DEF Under
  <2> QED BY <2>1, <2>2, <2>3 DEF Under
<1>3. A \in SUBSET Surfaces
  BY BelowFacts
<1>4. x \in A
  BY <1>1, <1>2, <1>3 DEF Below
<1> QED BY <1>1, <1>4 DEF Under

\* What is cached for two surfaces shares a surface only when one is above the
\* other.
LEMMA CachedApart ==
    ASSUME Subtrees, NEW c \in Surfaces, NEW y \in Surfaces, NEW x,
           cached[c] # None, cached[y] # None,
           x \in SurfacesOf(cached[c]), x \in SurfacesOf(cached[y])
    PROVE  c = y \/ c \in Below(y) \/ y \in Below(c)
<1>1. Gathered(cached[c], c) /\ Gathered(cached[y], y)
  BY DEF Subtrees
<1>2. x \in Under(c) /\ x \in Under(y)
  BY <1>1 DEF Gathered, Under
<1> QED BY <1>2, Comparable

LEMMA HeldBelow ==
    ASSUME NEW y \in Surfaces, NEW s \in Surfaces, s \in Under(y), Held(y)
    PROVE  Held(s)
<1>1. PICK a \in Surfaces :
         y \in Under(a) /\ InitialParent[a] # None /\ mode[a] = "sync"
  BY DEF Held
<1>2. s \in Under(a)
  BY <1>1, BelowFacts DEF Under
<1> QED BY <1>1, <1>2 DEF Held

LEMMA TakesInOrder ==
    ASSUME QueueInv, TypeOK', InOrder, Running("merge"), NEW h, h = Head(stack),
           NEW t, t = h.tx, NEW s, s = h.surface, NEW v, v # None, NEW c,
           Takes(t, v, c), InitialParent[c] = s, stack' = stack,
           UNCHANGED <<mode, commits>>
    PROVE  InOrder'
<1> USE ConstantsAssumption
<1>1. TypeOK /\ Nesting /\ Settled /\ Subtrees
  BY DEF QueueInv, Settled
<1>2. /\ h \in Calls /\ h.op = "merge"
      /\ t \in Transactions /\ s \in Surfaces
      /\ status[t] = "pending"
      /\ \A x \in Surfaces : cached[x] = t => x = s
      /\ \A d \in Calls : d.op \in {"merge", "add"} => d.tx = t /\ d.surface = s
      /\ \A d \in Calls : d.op = "commit" => d.tx = t
      /\ \A d \in Calls : d.op \notin DesyncOps \cup {"unlink"}
  <2>1. /\ h \in Calls /\ h.op = "merge"
        /\ t \in Transactions /\ s \in Surfaces
        /\ status[t] = "pending"
        /\ \A x \in Surfaces : cached[x] = t => x = s
        /\ \A d \in Calls : d.op = "add" => d.tx = t /\ d.surface = s
        /\ \A d \in Calls : d.op = "merge" => d = h
        /\ \A d \in Calls : d.op = "commit" => d.tx = t
        /\ \A d \in Calls : d.op \in {"merge", "add", "commit"}
    BY <1>1, MergeCallFacts
  <2> QED BY <2>1 DEF DesyncOps
<1>3. /\ c \in Surfaces /\ cached[c] = v
      /\ entries' = [entries EXCEPT ![t] = @ \o entries[v], ![v] = <<>>]
      /\ status' = [status EXCEPT ![v] = "free"]
      /\ cached' = [cached EXCEPT ![c] = None]
      /\ UNCHANGED <<life, clientGone, sub, parent, children, current, first, last>>
  BY DEF Takes
<1>4. Calls' = Calls
  BY DEF Calls
<1>6. c \in Below(s) /\ c # s
  BY <1>2, <1>3, BelowFacts
<1>8. v \in Transactions /\ v # t /\ status[v] = "pending" /\ c \in SurfacesOf(v)
  <2>1. v \in Transactions
    <3>1. cached[c] \in Transactions \cup {None}
      BY <1>1, <1>3 DEF TypeOK
    <3> QED BY <1>3, <3>1
  <2>2. v # t
    BY <1>2, <1>3, <1>6
  <2>3. status[v] = "pending"
    BY <1>1, <1>3 DEF Subtrees
  <2>4. c \in SurfacesOf(v)
    BY <1>1, <1>2, <1>3, <2>2 DEF Subtrees, Adding
  <2> QED BY <2>1, <2>2, <2>3, <2>4
<1>11. PICK w : w = entries[t] \o entries[v]
  OBVIOUS
<1>12. /\ \A u \in Transactions \ {t, v} : entries'[u] = entries[u]
       /\ entries'[t] = w /\ entries'[v] = <<>>
  <2>1. PICK E : E = entries
    OBVIOUS
  <2>2. E \in [Transactions -> Seq(EntryType)]
    BY <1>1, <2>1 DEF TypeOK
  <2>3. entries' = [E EXCEPT ![t] = @ \o E[v], ![v] = <<>>]
    BY <1>3, <2>1
  <2>4. w = E[t] \o E[v]
    BY <1>11, <2>1
  <2>5. entries'[v] = <<>>
    BY <1>2, <1>8, <2>2, <2>3, SMTT(60)
  <2>6. entries'[t] = w
    BY <1>2, <1>8, <2>2, <2>3, <2>4
  <2>7. \A u \in Transactions \ {t, v} : entries'[u] = E[u]
    BY <1>2, <1>8, <2>2, <2>3
  <2> QED BY <2>1, <2>5, <2>6, <2>7
<1>13. Merged(entries[t], entries[v], w)
  <2>1. PICK es, fs : es = entries[t] /\ fs = entries[v]
    OBVIOUS
  <2>2. es \in Seq(EntryType) /\ fs \in Seq(EntryType)
    BY <1>1, <1>2, <1>8, <2>1 DEF TypeOK
  <2>3. w = es \o fs
    BY <1>11, <2>1
  <2>4. Merged(es, fs, w)
    BY <2>2, <2>3, MergedEntries
  <2> QED BY <2>1, <2>4
<1>14. /\ \A u \in Transactions \ {t, v} : \A x : Contents(u, x)' = Contents(u, x)
       /\ \A x : Contents(t, x)' \subseteq Contents(t, x) \cup Contents(v, x)
       /\ \A x : Contents(v, x)' = {}
  <2>1. \A u \in Transactions \ {t, v} : \A x : Contents(u, x)' = Contents(u, x)
    BY <1>12 DEF Contents, EntriesOf
  <2>2. \A x : Contents(v, x)' = {}
    BY <1>12 DEF Contents, EntriesOf
  <2>3. ASSUME NEW x, NEW i \in DOMAIN w, w[i].surface = x
        PROVE  w[i].state.content \in Contents(t, x) \cup Contents(v, x)
    <3>1. ASSUME NEW k \in DOMAIN entries[t], w[i] = entries[t][k]
          PROVE  w[i].state.content \in Contents(t, x)
      BY <2>3, <3>1 DEF Contents, EntriesOf
    <3>2. ASSUME NEW k \in DOMAIN entries[v], w[i] = entries[v][k]
          PROVE  w[i].state.content \in Contents(v, x)
      BY <2>3, <3>2 DEF Contents, EntriesOf
    <3>3. \/ \E k \in DOMAIN entries[t] : w[i] = entries[t][k]
          \/ \E k \in DOMAIN entries[v] : w[i] = entries[v][k]
      BY <1>13 DEF Merged
    <3> QED BY <3>1, <3>2, <3>3, SMTT(60)
  <2>4. ASSUME NEW x
        PROVE  Contents(t, x)' \subseteq Contents(t, x) \cup Contents(v, x)
    <3>1. Contents(t, x)' = {w[i].state.content : i \in {j \in DOMAIN w : w[j].surface = x}}
      BY <1>12 DEF Contents, EntriesOf
    <3> QED BY <2>3, <3>1
  <2> QED BY <2>1, <2>2, <2>4
<1>15. /\ \A u \in Transactions : Committed(u)' <=> Committed(u)
       /\ \A u \in Transactions : Committed(u) => u \notin {t, v}
  <2>1. PICK st : st = status
    OBVIOUS
  <2>2. st \in [Transactions -> {"free", "pending", "queued", "applying"}]
    BY <1>1, <2>1 DEF TypeOK
  <2>3. status' = [st EXCEPT ![v] = "free"]
    BY <1>3, <2>1
  <2>4. \A u \in Transactions : status'[u] = IF u = v THEN "free" ELSE st[u]
    BY <2>2, <2>3
  <2> QED BY <1>2, <1>8, <2>1, <2>4 DEF Committed
<1>16. \A x \in Surfaces : cached'[x] = IF x = c THEN None ELSE cached[x]
  <2>1. PICK ca : ca = cached
    OBVIOUS
  <2>2. ca \in [Surfaces -> Transactions \cup {None}]
    BY <1>1, <2>1 DEF TypeOK
  <2>3. cached' = [ca EXCEPT ![c] = None]
    BY <1>3, <2>1
  <2>4. \A x \in Surfaces : cached'[x] = IF x = c THEN None ELSE ca[x]
    BY <2>2, <2>3
  <2> QED BY <2>1, <2>4
<1>17. \A u \in Transactions : Prepared(u)' => Prepared(u) /\ u # v
  <2> SUFFICES ASSUME NEW u \in Transactions, Prepared(u)'
               PROVE  Prepared(u) /\ u # v
    OBVIOUS
  <2>1. CASE \E x \in Surfaces : cached'[x] = u
    <3>1. PICK x \in Surfaces : cached'[x] = u
      BY <2>1
    <3>2. x # c /\ cached[x] = u
      BY <1>16, <3>1
    <3>3. u # v
      BY <1>1, <1>3, <3>2 DEF Subtrees
    <3> QED BY <3>2, <3>3 DEF Prepared
  <2>2. CASE \E d \in Calls : d.op = "commit" /\ d.tx = u
    BY <1>2, <1>8, <2>2 DEF Prepared
  <2> QED BY <1>4, <2>1, <2>2 DEF Prepared
<1>18. Prepared(v)
  BY <1>3 DEF Prepared
<1>19. \A x : Contents(v, x) # {} => x \in SurfacesOf(v)
  BY <1>1, <1>8, ContentsFacts
<1>20. Numbered'
  <2>1. \A u \in Transactions : \A x \in Surfaces : life[x] = "live" =>
           \A m \in Contents(u, x)' : m <= commits[x]
    <3>1. Numbered
      BY DEF InOrder
    <3> QED BY <1>2, <1>8, <1>14, <3>1 DEF Numbered
  <2> QED BY <1>3, <1>4, <2>1 DEF InOrder, Numbered
<1>21. QueuesInOrder'
  <2>1. ASSUME NEW x \in Surfaces, life[x] = "live"
        PROVE  /\ first[x] # None => first[x] \in Transactions \ {t, v}
               /\ last[x] # None => last[x] \in Transactions \ {t, v}
    BY <1>1, <1>15, QueueEnds
  <2>2. ASSUME NEW x \in Surfaces, life[x] = "live", first[x] # None
        PROVE  NoLater({current'[x].content}, Contents(first[x], x)')
    <3>1. PICK u \in Transactions \ {t, v} : u = first[x]
      BY <2>1, <2>2
    <3>2. PICK m, D : m = current'[x].content /\ D = Contents(u, x)'
      OBVIOUS
    <3>3. m = current[x].content /\ D = Contents(u, x)
      BY <1>3, <1>14, <3>1, <3>2
    <3>4. NoLater({m}, D)
      BY <2>2, <3>1, <3>3 DEF InOrder, QueuesInOrder
    <3>5. first'[x] = u
      BY <1>3, <3>1
    <3>6. NoLater({current'[x].content}, Contents(u, x)')
      BY <3>2, <3>4, Zenon
    <3> QED BY <3>5, <3>6 DEF Contents, EntriesOf
  <2>3. ASSUME NEW x \in Surfaces, life[x] = "live",
               NEW a \in Transactions, NEW b \in Transactions, a # b, Behind(a, b, x)'
        PROVE  NoLater(Contents(b, x)', Contents(a, x)')
    <3>1. Committed(b) /\ b \notin {t, v}
      BY <1>15, <2>3 DEF Behind
    <3>2. entries'[b] = entries[b]
      BY <1>12, <3>1
    <3>3. Left(b)' = Left(b)
      BY <1>4, <3>2 DEF Left
    <3>4. Behind(a, b, x)
      BY <2>3, <3>1, <3>2, <3>3 DEF Behind
    <3>5. Committed(a)
      BY <1>1, <3>4, QueueEnds
    <3>6. a \notin {t, v}
      BY <1>15, <3>5
    <3>7. NoLater(Contents(b, x), Contents(a, x))
      BY <2>3, <3>4 DEF InOrder, QueuesInOrder
    <3>8. Contents(b, x)' = Contents(b, x) /\ Contents(a, x)' = Contents(a, x)
      BY <1>14, <3>1, <3>6
    <3> QED BY <3>7, <3>8
  <2>4. ASSUME NEW x \in Surfaces, life[x] = "live", NEW u \in Transactions, Prepared(u)'
        PROVE  NoLater(Newest(x)', Contents(u, x)')
    <3>1. Newest(x)' = Newest(x)
      <4>1. CASE last[x] = None
        BY <1>3, <4>1 DEF Newest
      <4>2. CASE last[x] # None
        <5>1. PICK l \in Transactions \ {t, v} : l = last[x]
          BY <2>1, <2>4, <4>2
        <5>2. Contents(l, x)' = Contents(l, x)
          BY <1>14, <5>1
        <5>3. last'[x] = l
          BY <1>3, <5>1
        <5>4. Newest(x)' = Contents(l, x)'
          BY <4>2, <5>1, <5>3 DEF Newest, Contents, EntriesOf
        <5>5. Newest(x) = Contents(l, x)
          BY <4>2, <5>1 DEF Newest, Contents, EntriesOf
        <5> QED BY <5>2, <5>4, <5>5
      <4> QED BY <4>1, <4>2
    <3>2. Prepared(u) /\ u # v
      BY <1>17, <2>4
    <3>3. NoLater(Newest(x), Contents(u, x)) /\ NoLater(Newest(x), Contents(v, x))
      BY <1>8, <1>18, <2>4, <3>2 DEF InOrder, QueuesInOrder
    <3>4. Contents(u, x)' \subseteq Contents(u, x) \cup Contents(v, x)
      BY <1>14, <3>2
    <3> QED BY <3>1, <3>3, <3>4 DEF NoLater
  <2>5. UNCHANGED <<life, first, last>>
    BY <1>3
  <2> QED BY <2>2, <2>3, <2>4, <2>5 DEF QueuesInOrder
<1>22. ASSUME NEW x \in Surfaces, life[x] = "live", NEW y \in Surfaces, NEW z \in Surfaces,
              cached'[y] # None, cached'[z] # None, z \in Below(y)
       PROVE  NoLater(Contents(cached[y], x)', Contents(cached[z], x)')
  <2>1. PICK a, b : a = cached[y] /\ b = cached[z]
    OBVIOUS
  <2>2. y # c /\ z # c /\ cached'[y] = a /\ cached'[z] = b /\ y # z
    BY <1>16, <1>22, <2>1, BelowFacts
  <2>3. a \in Transactions \ {v} /\ b \in Transactions \ {v} /\ a # b
    <3>1. a \in Transactions /\ b \in Transactions
      BY <1>1, <1>22, <2>1, <2>2 DEF TypeOK
    <3> QED BY <1>1, <1>3, <2>1, <2>2, <3>1 DEF Subtrees
  <2>4. NoLater(Contents(a, x), Contents(b, x))
    BY <1>22, <2>1, <2>2 DEF InOrder, PreparedInOrder
  <2>5. CASE a # t /\ b # t
    BY <1>14, <2>2, <2>3, <2>4, <2>5
  <2>6. CASE b = t
    <3>1. z = s /\ c \in Below(y)
      <4>1. z = s
        BY <1>2, <2>1, <2>6
      <4> QED BY <1>6, <1>22, <4>1, BelowFacts
    <3>2. NoLater(Contents(a, x), Contents(v, x))
      <4>1. PICK f : f = cached[c]
        OBVIOUS
      <4>2. NoLater(Contents(a, x), Contents(f, x))
        BY <1>3, <1>22, <2>1, <2>2, <3>1, <4>1 DEF InOrder, PreparedInOrder
      <4> QED BY <1>3, <4>1, <4>2
    <3>3. Contents(a, x)' = Contents(a, x)
      BY <1>14, <2>3, <2>6
    <3>4. Contents(b, x)' \subseteq Contents(b, x) \cup Contents(v, x)
      BY <1>14, <2>6
    <3> QED BY <2>2, <2>4, <3>2, <3>3, <3>4 DEF NoLater
  <2>7. CASE a = t
    <3>1. y = s /\ b # t
      BY <1>2, <2>1, <2>3, <2>7
    <3>2. NoLater(Contents(v, x), Contents(b, x))
      <4>1. CASE z \in Below(c)
        <5>1. PICK f : f = cached[c]
          OBVIOUS
        <5>2. NoLater(Contents(f, x), Contents(b, x))
          BY <1>3, <1>22, <2>1, <2>2, <4>1, <5>1 DEF InOrder, PreparedInOrder
        <5> QED BY <1>3, <5>1, <5>2
      <4>2. CASE z \notin Below(c)
        <5>1. c \notin Below(z)
          <6> SUFFICES ASSUME c \in Below(z) PROVE FALSE
            OBVIOUS
          <6>1. s \in Below(z) \cup {z}
            BY BelowFacts
          <6> QED BY <1>22, <3>1, <6>1, BelowFacts
        <5>2. x \notin SurfacesOf(v) \/ x \notin SurfacesOf(b)
          BY <1>1, <1>3, <2>1, <2>2, <4>2, <5>1, CachedApart, <1>22, <1>16
        <5>3. Contents(v, x) = {} \/ Contents(b, x) = {}
          BY <1>1, <1>8, <2>3, <5>2, ContentsFacts
        <5> QED BY <5>3 DEF NoLater
      <4> QED BY <4>1, <4>2
    <3>3. Contents(b, x)' = Contents(b, x)
      BY <1>14, <2>3, <3>1
    <3>4. Contents(a, x)' \subseteq Contents(a, x) \cup Contents(v, x)
      BY <1>14, <2>7
    <3> QED BY <2>2, <2>4, <3>2, <3>3, <3>4 DEF NoLater
  <2> QED BY <2>5, <2>6, <2>7
<1>23. ASSUME NEW x \in Surfaces, life[x] = "live", NEW d \in Calls, d.op = "commit",
              NEW u \in Transactions, Prepared(u)', u # d.tx
       PROVE  NoLater(Contents(d.tx, x)', Contents(u, x)')
  <2>1. d.tx = t /\ u # t /\ u # v /\ Prepared(u)
    BY <1>2, <1>17, <1>23
  <2>2. NoLater(Contents(t, x), Contents(u, x))
    BY <1>23, <2>1 DEF InOrder, PreparedInOrder
  <2>3. PICK y \in Surfaces : cached[y] = u
    BY <1>2, <2>1 DEF Prepared
  <2>4. y # c /\ u # None
    BY <1>3, <2>1, <2>3
  <2>5. ~Held(s) /\ \A z : ~Freed(z)
    <3>1. cached[s] # t
      BY <1>1, <1>2, <1>23, <2>1 DEF Settled, Building, BuiltBy
    <3>2. ~Held(s)
      BY <1>2, <3>1 DEF InOrder, HeldBack
    <3> QED BY <1>2, <3>2 DEF Freed, DesyncOps
  <2>6. c \notin Below(y)
    <3> SUFFICES ASSUME c \in Below(y) PROVE FALSE
      OBVIOUS
    <3>1. s \in Under(y)
      BY BelowFacts DEF Under
    <3>2. Held(y)
      BY <2>3, <2>4, <2>5 DEF InOrder, HeldBack
    <3> QED BY <1>2, <2>5, <3>1, <3>2, HeldBelow
  <2>7. NoLater(Contents(v, x), Contents(u, x))
    <3>1. CASE y \in Below(c)
      <4>1. PICK f : f = cached[c]
        OBVIOUS
      <4>2. NoLater(Contents(f, x), Contents(u, x))
        BY <1>3, <1>23, <2>3, <2>4, <3>1, <4>1 DEF InOrder, PreparedInOrder
      <4> QED BY <1>3, <4>1, <4>2
    <3>2. CASE y \notin Below(c)
      <4>1. x \notin SurfacesOf(v) \/ x \notin SurfacesOf(u)
        BY <1>1, <1>3, <2>3, <2>4, <2>6, <3>2, CachedApart
      <4>2. Contents(v, x) = {} \/ Contents(u, x) = {}
        BY <1>1, <1>8, <4>1, ContentsFacts
      <4> QED BY <4>2 DEF NoLater
    <3> QED BY <3>1, <3>2
  <2>8. Contents(u, x)' = Contents(u, x)
    BY <1>14, <2>1
  <2>9. Contents(t, x)' \subseteq Contents(t, x) \cup Contents(v, x)
    BY <1>14
  <2>10. NoLater(Contents(t, x)', Contents(u, x)')
    BY <2>2, <2>7, <2>8, <2>9 DEF NoLater
  <2> QED BY <2>1, <2>10
<1>24. PreparedInOrder'
  <2>1. \A x, y, z \in Surfaces :
           /\ life[x] = "live" /\ cached'[y] # None /\ cached'[z] # None /\ z \in Below(y)
           => NoLater(Contents(cached[y], x)', Contents(cached[z], x)')
    BY <1>22
  <2>2. life' = life
    BY <1>3
  <2> QED BY <1>4, <1>23, <2>1, <2>2 DEF PreparedInOrder
<1>25. HeldBack'
  <2>1. \A x : (Held(x)' <=> Held(x)) /\ (Freed(x)' <=> Freed(x))
    BY <1>4 DEF Held, Freed
  <2>2. cached'[s] = cached[s]
    BY <1>2, <1>6, <1>16
  <2>3. \A d \in Calls : d.op \in {"merge", "add"} => cached'[d.surface] = cached[d.surface]
    BY <1>2, <2>2
  <2> QED BY <1>2, <1>3, <1>4, <1>16, <2>1, <2>3 DEF InOrder, HeldBack
<1>26. Listed'
  <2>1. \A u \in Transactions : \A i \in DOMAIN entries'[u] :
           \E b \in Transactions : \E k \in DOMAIN entries[b] : entries'[u][i] = entries[b][k]
    <3> SUFFICES ASSUME NEW u \in Transactions, NEW i \in DOMAIN entries'[u]
                 PROVE  \E b \in Transactions : \E k \in DOMAIN entries[b] :
                           entries'[u][i] = entries[b][k]
      OBVIOUS
    <3>1. u # v
      BY <1>12
    <3>2. CASE u = t
      BY <1>2, <1>8, <1>12, <1>13, <3>2 DEF Merged
    <3>3. CASE u # t
      BY <1>12, <3>1, <3>3
    <3> QED BY <3>2, <3>3
  <2>2. \A u \in Transactions : \A i \in DOMAIN entries'[u] :
           \E b \in Transactions : \E k \in DOMAIN entries[b] :
              /\ entries'[u][i].surface = entries[b][k].surface
              /\ entries'[u][i].state.children = entries[b][k].state.children
    BY <2>1
  <2>3. \A d \in Calls' : d.op = "add" => d \in Calls
    BY <1>4
  <2>4. /\ \A x \in Surfaces : life'[x] = "dead" <=> life[x] = "dead"
        /\ \A x \in Surfaces : children'[x] = children[x]
        /\ \A x \in Surfaces : current'[x].children = current[x].children
    BY <1>3
  <2> QED BY <2>2, <2>3, <2>4, ListedSame DEF InOrder
<1>27. Modes'
  BY <1>3 DEF InOrder, Modes
<1> QED BY <1>20, <1>21, <1>24, <1>25, <1>26, <1>27 DEF InOrder

LEMMA MergeChildInOrder ==
    ASSUME QueueInv, TypeOK', InOrder, MergeChild
    PROVE  InOrder'
<1> DEFINE t == Head(stack).tx
           holders == {c \in children[Head(stack).surface] : cached[c] # None}
<1>1. TypeOK /\ Nesting /\ Settled /\ Running("merge")
  BY DEF QueueInv, Settled, MergeChild
<1>2. UNCHANGED <<life, clientGone, sub, parent, mode, children, current, commits,
                  first, last>>
  BY DEF MergeChild, tree, shown, history
<1>3. CASE holders = {}
  <2>1. ReturnVia(<<>>) /\ UNCHANGED <<cached, status, entries>>
    BY <1>3, Zenon DEF MergeChild
  <2>2. PICK cs : cs = <<>>
    OBVIOUS
  <2>3. stack # <<>> /\ Head(stack).op = "merge"
    BY <1>1, RunningCall
  <2>4. Replaced(stack, cs, stack') /\ DOMAIN cs = {}
    <3>1. cs \in Seq(CallType) /\ DOMAIN cs = {}
      BY <2>2, EmptySeq
    <3> QED BY <1>1, <2>1, <2>2, <2>3, <3>1, ReturnReplaces
  <2>5. \A d \in Calls' : d \in Calls
    <3>1. \A d \in Calls' : \E m \in DOMAIN stack : m > 1 /\ stack[m] = d
      BY <1>1, <2>4, CallsAfter
    <3> QED BY <3>1 DEF Calls
  <2>6. \A d : d.op \in DesyncOps => (d \in Calls' <=> d \in Calls)
    BY <1>1, <2>3, <2>4, OtherCallsKept DEF DesyncOps
  <2>7. \A u \in Transactions : \A i \in DOMAIN entries'[u] :
           \E k \in DOMAIN entries[u] :
              /\ entries'[u][i].surface = entries[u][k].surface
              /\ entries'[u][i].state = entries[u][k].state
    BY <2>1
  <2>8. QueuesInOrder'
    <3>1. NothingNew
      <4>1. SameEntries
        BY <2>1 DEF SameEntries
      <4> QED BY <1>2, <4>1, SameContents DEF NothingNew, NoneCarried
    <3>2. \A u \in Transactions : Prepared(u)' => Prepared(u)
      BY <2>1, <2>5, PreparedKept
    <3>3. \A x \in Surfaces : first[x] \in Transactions \cup {None}
                                /\ last[x] \in Transactions \cup {None}
      BY <1>1 DEF TypeOK
    <3>4. \A u : Left(u)' = Left(u)
      <4>1. \A d : d.op = "unlink" => (d \in Calls' <=> d \in Calls)
        <5>1. Head(stack).op \notin {"unlink"} /\ \A k \in DOMAIN cs : cs[k].op \notin {"unlink"}
          BY <2>3, <2>4
        <5>2. \A d : d.op \in {"unlink"} => (d \in Calls' <=> d \in Calls)
          BY <1>1, <2>4, <5>1, OtherCallsKept
        <5> QED BY <5>2
      <4> QED BY <2>1, <4>1 DEF Left
    <3>5. \A a, b \in Transactions : \A x \in Surfaces : Behind(a, b, x)' => Behind(a, b, x)
      BY <2>1, <3>4 DEF Behind, Committed
    <3> QED BY <1>2, <3>1, <3>2, <3>3, <3>5, QueuesInOrderKept DEF InOrder
  <2> QED BY <1>2, <2>1, <2>5, <2>6, <2>7, <2>8, KeptStep
<1>4. CASE holders # {}
  <2> DEFINE c == CHOOSE h \in holders : TRUE
  <2>1. /\ entries' = [entries EXCEPT ![t] = @ \o entries[cached[c]],
                                      ![cached[c]] = <<>>]
        /\ status' = [status EXCEPT ![cached[c]] = "free"]
        /\ cached' = [cached EXCEPT ![c] = None]
        /\ UNCHANGED stack
    BY <1>4, Zenon DEF MergeChild
  <2>2. Head(stack).surface \in Surfaces
    BY <1>1, RunningCall, CallFields
  <2>3. c \in children[Head(stack).surface] /\ cached[c] # None
    BY <1>4
  <2>4. c \in Surfaces
    BY <1>1, <2>2, <2>3 DEF TypeOK
  <2>5. InitialParent[c] = Head(stack).surface
    BY <1>1, <2>2, <2>3 DEF Settled, Children
  <2>6. PICK v, b, s, r : v = cached[c] /\ b = c /\ s = Head(stack).surface /\ r = t
    OBVIOUS
  <2>7. Takes(r, v, b)
    <3>1. /\ entries' = [entries EXCEPT ![r] = @ \o entries[v], ![v] = <<>>]
          /\ status' = [status EXCEPT ![v] = "free"]
          /\ cached' = [cached EXCEPT ![b] = None]
      BY <2>1, <2>6
    <3>2. b \in Surfaces /\ cached[b] = v
      BY <2>4, <2>6, SMTT(60)
    <3> QED BY <1>2, <3>1, <3>2 DEF Takes
  <2>8. InitialParent[b] = s /\ v # None /\ stack' = stack
    BY <2>1, <2>3, <2>5, <2>6
  <2>9. PICK h : h = Head(stack)
    OBVIOUS
  <2>10. s = h.surface /\ r = h.tx
    BY <2>6, <2>9
  <2> HIDE DEF c, t, holders
  <2> QED BY <1>1, <1>2, <2>7, <2>8, <2>9, <2>10, TakesInOrder
<1> QED BY <1>3, <1>4

LEMMA AddSurfaceInOrder ==
    ASSUME QueueInv, TypeOK', InOrder, AddSurface
    PROVE  InOrder'
<1> USE ConstantsAssumption
<1>1. TypeOK /\ Nesting /\ Settled /\ Subtrees /\ Running("add")
  BY DEF QueueInv, Settled, AddSurface
<1>2. PICK h : h = Head(stack)
  OBVIOUS
<1>3. /\ stack # <<>> /\ h \in Calls /\ h.op = "add" /\ h \in CallType
      /\ h.tx \in Transactions /\ h.surface \in Surfaces /\ h.state \in StateType
  BY <1>1, <1>2, RunningCall, CallFields, CallPlaces
<1>4. PICK t \in Transactions, s \in Surfaces, state \in StateType :
         t = h.tx /\ s = h.surface /\ state = h.state
  BY <1>3
<1>5. PICK w : w = WithState(t, s, state)
  OBVIOUS
<1>6. entries' = [entries EXCEPT ![t] = w]
  BY <1>2, <1>4, <1>5 DEF AddSurface
<1>7. /\ ReturnVia(<<>>)
      /\ UNCHANGED <<life, clientGone, sub, parent, mode, children, current, cached,
                     first, last, status, commits>>
  BY DEF AddSurface, tree, shown, history
<1>8. PICK cs : cs = <<>>
  OBVIOUS
<1>9. Replaced(stack, cs, stack') /\ DOMAIN cs = {}
  <2>1. cs \in Seq(CallType) /\ DOMAIN cs = {}
    BY <1>8, EmptySeq
  <2> QED BY <1>1, <1>3, <1>7, <1>8, <2>1, ReturnReplaces
<1>10. /\ \A d \in Calls' : d.op = "commit" /\ d \in Calls
       /\ \A d \in Calls : d = h \/ d.op = "commit"
  <2>1. \A m \in DOMAIN stack : m > 1 => stack[m].op = "commit"
    BY <1>1, <1>2, <1>3, FurtherOut, CallersFacts
  <2>2. \A d \in Calls' : \E m \in DOMAIN stack : m > 1 /\ stack[m] = d
    BY <1>1, <1>9, CallsAfter
  <2>3. \A d \in Calls : d = h \/ \E m \in DOMAIN stack : m > 1 /\ stack[m] = d
    BY <1>1, <1>2, <1>3, CallPlaces
  <2> QED BY <2>1, <2>2, <2>3 DEF Calls
<1>11. BuiltBy(h)
  BY <1>1, <1>3 DEF Settled, Building
<1>12. /\ status[t] = "pending" /\ ~Committed(t)
       /\ \A x \in Surfaces : cached[x] = t => x = s
       /\ \A d \in Calls : d.op = "commit" => d.tx = t
  BY <1>3, <1>4, <1>11 DEF BuiltBy, Committed
<1>13. Extended(t, s, state, w)
  BY <1>1, <1>5, WithStateFacts
<1>14. /\ \A u \in Transactions \ {t} : entries'[u] = entries[u]
       /\ entries'[t] = w
  BY <1>1, <1>6, <1>13 DEF TypeOK
<1>15. life[s] = "live" => state.content = commits[s]
  BY <1>3, <1>4 DEF InOrder, Numbered
<1>16. /\ \A u \in Transactions \ {t} : \A x : Contents(u, x)' = Contents(u, x)
       /\ \A x : x # s => Contents(t, x)' \subseteq Contents(t, x)
       /\ Contents(t, s)' \subseteq Contents(t, s) \cup {state.content}
  <2>1. \A u \in Transactions \ {t} : \A x : Contents(u, x)' = Contents(u, x)
    BY <1>14 DEF Contents, EntriesOf
  <2>2. ASSUME NEW x, NEW i \in DOMAIN w, w[i].surface = x
        PROVE  w[i].state.content \in Contents(t, x) \/ (x = s /\ w[i].state.content = state.content)
    <3>1. CASE i \in DOMAIN entries[t] /\ w[i] = entries[t][i]
      BY <2>2, <3>1 DEF Contents, EntriesOf
    <3>2. CASE w[i].surface = s /\ w[i].state.content = state.content
      BY <2>2, <3>2
    <3> QED BY <1>13, <3>1, <3>2 DEF Extended
  <2>3. \A x : \A m \in Contents(t, x)' : m \in Contents(t, x) \/ (x = s /\ m = state.content)
    BY <1>14, <2>2 DEF Contents, EntriesOf
  <2> QED BY <2>1, <2>3
<1>17. \A u \in Transactions : Prepared(u)' => Prepared(u)
  BY <1>7, <1>10, PreparedKept
<1>18. \A u \in Transactions : \A x \in Surfaces : life[x] = "live" =>
          \A m \in Contents(u, x)' :
             m \in Contents(u, x) \/ (u = t /\ x = s /\ m = commits[x])
  BY <1>15, <1>16
<1>19. commits[s] \in Nat /\ current[s].content \in Nat
  BY <1>1 DEF TypeOK, StateType
<1>20. Numbered'
  <2>1. \A u \in Transactions : \A x \in Surfaces : life[x] = "live" =>
           \A m \in Contents(u, x)' : m <= commits[x]
    BY <1>18, <1>19 DEF InOrder, Numbered
  <2> QED BY <1>7, <1>10, <2>1 DEF InOrder, Numbered
<1>21. QueuesInOrder'
  <2>1. ASSUME NEW x \in Surfaces, life[x] = "live"
        PROVE  /\ first[x] # None => first[x] \in Transactions \ {t}
               /\ last[x] # None => last[x] \in Transactions \ {t}
    BY <1>1, <1>12, QueueEnds
  <2>2. ASSUME NEW x \in Surfaces, life[x] = "live", first[x] # None
        PROVE  NoLater({current'[x].content}, Contents(first[x], x)')
    <3>1. PICK u \in Transactions \ {t} : u = first[x]
      BY <2>1, <2>2
    <3>2. PICK m, D : m = current'[x].content /\ D = Contents(u, x)'
      OBVIOUS
    <3>3. m = current[x].content /\ D = Contents(u, x)
      BY <1>7, <1>16, <3>1, <3>2
    <3>4. NoLater({m}, D)
      BY <2>2, <3>1, <3>3 DEF InOrder, QueuesInOrder
    <3>5. first'[x] = u
      BY <1>7, <3>1
    <3>6. NoLater({current'[x].content}, Contents(u, x)')
      BY <3>2, <3>4, Zenon
    <3> QED BY <3>5, <3>6 DEF Contents, EntriesOf
  <2>3. ASSUME NEW x \in Surfaces, life[x] = "live",
               NEW a \in Transactions, NEW b \in Transactions, a # b, Behind(a, b, x)'
        PROVE  NoLater(Contents(b, x)', Contents(a, x)')
    <3>1. Committed(b) /\ b # t
      BY <1>7, <1>12, <2>3 DEF Behind, Committed
    <3>2. entries'[b] = entries[b]
      BY <1>14, <3>1
    <3>3. Left(b)' = Left(b)
      BY <1>3, <1>10, <3>2 DEF Left
    <3>4. Behind(a, b, x)
      BY <2>3, <3>1, <3>2, <3>3 DEF Behind
    <3>5. Committed(a)
      BY <1>1, <3>4, QueueEnds
    <3>6. a # t
      BY <1>12, <3>5
    <3>7. NoLater(Contents(b, x), Contents(a, x))
      BY <2>3, <3>4 DEF InOrder, QueuesInOrder
    <3>8. Contents(b, x)' = Contents(b, x) /\ Contents(a, x)' = Contents(a, x)
      BY <1>16, <3>1, <3>6
    <3> QED BY <3>7, <3>8
  <2>4. ASSUME NEW x \in Surfaces, life[x] = "live", NEW u \in Transactions, Prepared(u)'
        PROVE  NoLater(Newest(x)', Contents(u, x)')
    <3>1. Newest(x)' = Newest(x) /\ \A m \in Newest(x) : m <= commits[x]
      <4>1. CASE last[x] = None
        BY <1>7, <2>4, <4>1 DEF Newest, InOrder, Numbered
      <4>2. CASE last[x] # None
        <5>1. PICK l \in Transactions \ {t} : l = last[x]
          BY <2>1, <2>4, <4>2
        <5>2. Contents(l, x)' = Contents(l, x)
          BY <1>16, <5>1
        <5>3. last'[x] = l
          BY <1>7, <5>1
        <5>4. Newest(x)' = Contents(l, x)'
          BY <4>2, <5>1, <5>3 DEF Newest, Contents, EntriesOf
        <5>5. Newest(x) = Contents(l, x)
          BY <4>2, <5>1 DEF Newest, Contents, EntriesOf
        <5>6. \A m \in Contents(l, x) : m <= commits[x]
          BY <2>4 DEF InOrder, Numbered
        <5> QED BY <5>2, <5>4, <5>5, <5>6
      <4> QED BY <4>1, <4>2
    <3>2. NoLater(Newest(x), Contents(u, x))
      BY <1>17, <2>4 DEF InOrder, QueuesInOrder
    <3>3. \A m \in Contents(u, x)' : m \in Contents(u, x) \/ m = commits[x]
      BY <1>18, <2>4
    <3> QED BY <3>1, <3>2, <3>3 DEF NoLater
  <2> QED BY <1>7, <2>2, <2>3, <2>4 DEF QueuesInOrder
<1>22. ASSUME NEW x \in Surfaces, life[x] = "live", NEW y \in Surfaces, NEW z \in Surfaces,
              cached[y] # None, cached[z] # None, z \in Below(y)
       PROVE  NoLater(Contents(cached[y], x)', Contents(cached[z], x)')
  <2>1. PICK a \in Transactions, b \in Transactions : a = cached[y] /\ b = cached[z]
    BY <1>1, <1>22 DEF TypeOK
  <2>2. NoLater(Contents(a, x), Contents(b, x))
    BY <1>22, <2>1 DEF InOrder, PreparedInOrder
  <2>3. cached'[y] = a /\ cached'[z] = b
    BY <1>7, <2>1
  <2>4. a = t => y = s /\ Contents(b, s) = {} /\ b # t
    <3> SUFFICES ASSUME a = t PROVE y = s /\ Contents(b, s) = {} /\ b # t
      OBVIOUS
    <3>1. y = s /\ b # t
      BY <1>12, <1>22, <2>1, BelowFacts
    <3>2. Gathered(b, z)
      BY <1>1, <1>22, <2>1 DEF Subtrees
    <3>3. s \notin Below(z) /\ s # z
      BY <1>22, <3>1, BelowFacts
    <3>4. s \notin SurfacesOf(b)
      BY <3>2, <3>3 DEF Gathered
    <3> QED BY <1>1, <3>1, <3>4, ContentsFacts
  <2>5. \A m \in Contents(a, x) : m <= commits[x]
    BY <1>22 DEF InOrder, Numbered
  <2>6. NoLater(Contents(a, x)', Contents(b, x)')
    <3>1. CASE a = t
      <4>1. Contents(b, x)' = Contents(b, x)
        BY <1>16, <2>4, <3>1
      <4>2. CASE x = s
        BY <2>4, <3>1, <4>1, <4>2 DEF NoLater
      <4>3. CASE x # s
        BY <1>16, <2>2, <3>1, <4>1, <4>3 DEF NoLater
      <4> QED BY <4>2, <4>3
    <3>2. CASE a # t
      <4>1. Contents(a, x)' = Contents(a, x)
        BY <1>16, <3>2
      <4>2. \A m \in Contents(b, x)' : m \in Contents(b, x) \/ m = commits[x]
        BY <1>18, <1>22
      <4> QED BY <2>2, <2>5, <4>1, <4>2 DEF NoLater
    <3> QED BY <3>1, <3>2
  <2> QED BY <2>3, <2>6
<1>23. ASSUME NEW x \in Surfaces, life[x] = "live", NEW d \in Calls, d.op = "commit",
              NEW u \in Transactions, Prepared(u), u # d.tx
       PROVE  NoLater(Contents(d.tx, x)', Contents(u, x)')
  <2>1. d.tx = t /\ u # t
    BY <1>12, <1>23
  <2>2. NoLater(Contents(t, x), Contents(u, x))
    BY <1>23, <2>1 DEF InOrder, PreparedInOrder
  <2>3. PICK y \in Surfaces : cached[y] = u
    BY <1>12, <1>23, <2>1 DEF Prepared
  <2>4. ~Held(s) /\ \A z : ~Freed(z)
    <3>1. cached[s] # t
      BY <1>1, <1>23, <2>1 DEF Settled, Building, BuiltBy
    <3>2. ~Held(s)
      BY <1>3, <1>4, <3>1 DEF InOrder, HeldBack
    <3> QED BY <1>3, <1>10, <3>2 DEF Freed, DesyncOps
  <2>5. s \notin SurfacesOf(u)
    <3>1. Held(y)
      BY <2>3, <2>4 DEF InOrder, HeldBack
    <3>2. s \notin Under(y)
      BY <2>4, <3>1, HeldBelow
    <3>3. Gathered(u, y)
      BY <1>1, <2>3 DEF Subtrees
    <3> QED BY <3>2, <3>3 DEF Gathered, Under
  <2>6. Contents(u, s) = {}
    BY <1>1, <2>5, ContentsFacts
  <2>7. Contents(u, x)' = Contents(u, x)
    BY <1>16, <2>1
  <2>8. NoLater(Contents(t, x)', Contents(u, x)')
    <3>1. CASE x = s
      BY <2>6, <2>7, <3>1 DEF NoLater
    <3>2. CASE x # s
      BY <1>16, <2>2, <2>7, <3>2 DEF NoLater
    <3> QED BY <3>1, <3>2
  <2> QED BY <2>1, <2>8
<1>24. PreparedInOrder'
  <2>1. \A x, y, z \in Surfaces :
           /\ life[x] = "live" /\ cached'[y] # None /\ cached'[z] # None /\ z \in Below(y)
           => NoLater(Contents(cached[y], x)', Contents(cached[z], x)')
    BY <1>7, <1>22
  <2>2. \A x \in Surfaces : life[x] = "live" => \A d \in Calls' : d.op = "commit" =>
           \A u \in Transactions : Prepared(u)' /\ u # d.tx =>
              NoLater(Contents(d.tx, x)', Contents(u, x)')
    BY <1>10, <1>17, <1>23
  <2>3. life' = life
    BY <1>7
  <2> QED BY <2>1, <2>2, <2>3 DEF PreparedInOrder
<1>25. HeldBack'
  <2>1. \A d : d.op \in {"merge", "add"} /\ d \in Calls' => d \in Calls
    BY <1>10
  <2>2. \A d : d.op \in DesyncOps => (d \in Calls' <=> d \in Calls)
    BY <1>3, <1>10 DEF DesyncOps
  <2> QED BY <1>1, <1>7, <2>1, <2>2, HeldBackKept DEF InOrder
<1>26. Listed'
  <2>1. ASSUME NEW u \in Transactions, NEW i \in DOMAIN entries'[u]
        PROVE  \/ \E b \in Transactions : \E k \in DOMAIN entries[b] :
                     /\ entries'[u][i].surface = entries[b][k].surface
                     /\ entries'[u][i].state.children = entries[b][k].state.children
               \/ Lists(entries[u][i].surface, entries[u][i].state.children)'
    <3>1. CASE u # t
      BY <1>14, <2>1, <3>1
    <3>2. CASE u = t
      <4>1. CASE i \in DOMAIN entries[t] /\ w[i] = entries[t][i]
        BY <1>14, <3>2, <4>1
      <4>2. CASE w[i].surface = s /\ w[i].state.children = state.children
        <5>1. PICK C : C = state.children
          OBVIOUS
        <5>2. Lists(s, C)
          BY <1>3, <1>4, <5>1 DEF InOrder, Listed
        <5>3. Lists(s, C)'
          BY <1>7, <5>2 DEF Lists
        <5>4. entries'[u][i].surface = s /\ entries'[u][i].state.children = C
          BY <1>14, <3>2, <4>2, <5>1
        <5> QED BY <5>3, <5>4 DEF Lists
      <4> QED BY <1>13, <1>14, <2>1, <3>2, <4>1, <4>2 DEF Extended
    <3> QED BY <3>1, <3>2
  <2>2. /\ \A p \in Surfaces : Lists(p, children[p]) => Lists(p, children[p])'
        /\ \A p \in Surfaces : Lists(p, current[p].children) => Lists(p, current[p].children)'
        /\ \A x \in Surfaces : life'[x] # "dead" => life[x] # "dead"
    BY <1>7 DEF Lists
  <2>3. \A d \in Calls' : d.op # "add"
    BY <1>10
  <2> QED BY <2>1, <2>2, <2>3, ListedKept DEF InOrder
<1>27. Modes'
  BY <1>7 DEF InOrder, Modes
<1> QED BY <1>20, <1>21, <1>24, <1>25, <1>26, <1>27 DEF InOrder

------------------------------------------------------------------------------
(* The steps that change what is synchronized                               *)

\* Who changes its mode keeps its parent.
KeepsParents ==
    \A s \in Surfaces \cap Desyncers : InitialParent[s] \notin Destroyable

\* isSynchronized() finds what a surface was built below, whatever the modes M.
LEMMA SynchronizedIsHeld ==
    ASSUME TypeOK, Children, Modes, KeepsParents, ~clientGone,
           NEW x \in Surfaces, life[x] # "dead",
           NEW M, \A s \in Surfaces \ Desyncers : M[s] = "sync"
    PROVE  (\E a \in Path(x) : sub[a] /\ M[a] = "sync")
             <=> (\E a \in Surfaces :
                     x \in Under(a) /\ InitialParent[a] # None /\ M[a] = "sync")
<1> USE ConstantsAssumption
<1>1. \A c \in Surfaces : Up(c) \in {InitialParent[c], None} /\ (sub[c] => Up(c) = parent[c])
  BY DEF Children, Up
<1>2. /\ Path(x) \subseteq Surfaces /\ x \in Path(x)
      /\ \A c \in Path(x) : Up(c) # None => Up(c) \in Path(x)
  <2>1. \A c \in Surfaces : Up(c) # None => Up(c) \in Surfaces
    BY <1>1
  <2> QED BY <2>1 DEF Path
<1>3. \A a \in Path(x) : x \in Under(a)
  <2> DEFINE A == {a \in Surfaces : x \in Under(a)}
  <2>1. x \in A
    BY DEF Under
  <2>2. ASSUME NEW c \in A, Up(c) # None PROVE Up(c) \in A
    <3>1. PICK p \in Surfaces : p = Up(c) /\ InitialParent[c] = p
      BY <1>1, <2>2
    <3>2. c \in Below(p) /\ Below(c) \subseteq Below(p)
      BY <3>1, BelowFacts
    <3> QED BY <3>1, <3>2 DEF Under
  <2>3. A \in SUBSET Surfaces
    OBVIOUS
  <2>4. Path(x) \subseteq A
    BY <2>1, <2>2, <2>3 DEF Path
  <2> QED BY <2>4
<1>4. ASSUME NEW a \in Path(x), sub[a], M[a] = "sync"
      PROVE  \E b \in Surfaces : x \in Under(b) /\ InitialParent[b] # None /\ M[b] = "sync"
  BY <1>2, <1>3, <1>4 DEF Modes
<1>5. ASSUME NEW b \in Surfaces, x \in Under(b), InitialParent[b] # None, M[b] = "sync",
             \A a \in Path(x) : ~(sub[a] /\ M[a] = "sync")
      PROVE  FALSE
  <2>1. \A a \in Path(x) : life[a] # "dead"
    <3> DEFINE A == {a \in Path(x) : life[a] # "dead"}
    <3>1. x \in A
      BY <1>2
    <3>2. ASSUME NEW c \in A, Up(c) # None PROVE Up(c) \in A
      <4>1. c \in Surfaces /\ Up(c) = parent[c] /\ Up(c) \in Path(x)
        BY <1>1, <1>2, <3>2 DEF Up
      <4>2. life[Up(c)] # "dead"
        BY <3>2, <4>1 DEF Modes
      <4> QED BY <4>1, <4>2
    <3>3. A \in SUBSET Surfaces
      BY <1>2
    <3>4. Path(x) \subseteq A
      BY <3>1, <3>2, <3>3 DEF Path
    <3> QED BY <3>4
  <2>2. ASSUME NEW c \in Path(x), InitialParent[c] \in Surfaces
        PROVE  InitialParent[c] \in Path(x)
    <3>1. c \in Surfaces /\ life[c] # "dead" /\ InitialParent[c] # None
      BY <1>2, <2>1, <2>2
    <3>2. sub[c]
      BY <3>1 DEF Modes
    <3>3. c \in Desyncers
      BY <1>5, <3>1, <3>2
    <3>4. life[InitialParent[c]] # "dead"
      BY <2>2, <3>1, <3>3 DEF Modes, KeepsParents
    <3>5. parent[c] = InitialParent[c]
      BY <3>1, <3>4 DEF Children
    <3> QED BY <1>1, <1>2, <3>1, <3>2, <3>5
  <2>3. b \in Path(x)
    <3> SUFFICES ASSUME b \notin Path(x) PROVE FALSE
      OBVIOUS
    <3> DEFINE B == Below(b) \ Path(x)
    <3>1. ClosedBelow(B, b)
      <4> SUFFICES ASSUME NEW z \in Surfaces, InitialParent[z] \in B \cup {b}
                   PROVE  z \in B
        BY DEF ClosedBelow
      <4>1. z \in Below(b) /\ InitialParent[z] \in Surfaces
        BY BelowFacts
      <4>2. z \notin Path(x)
        BY <2>2, <4>1
      <4> QED BY <4>1, <4>2
    <3>2. B \in SUBSET Surfaces
      BY BelowFacts
    <3>3. x \in Below(b)
      BY <1>2, <1>5 DEF Under
    <3>4. x \in B
      BY <3>1, <3>2, <3>3 DEF Below
    <3> QED BY <1>2, <3>4
  <2>4. sub[b]
    BY <1>5, <2>1, <2>3 DEF Modes
  <2> QED BY <1>5, <2>3, <2>4
<1> QED BY <1>4, <1>5

\* A change of mode, and what the calls of it are.
LEMMA ModeStep ==
    ASSUME QueueInv, TypeOK', InOrder, Idle, NEW s \in Desyncers,
           \A x \in Surfaces : x # s => mode'[x] = mode[x],
           UNCHANGED <<life, commits, sub, parent, children, cached, queue, current>>,
           NEW cs, Replaced(stack, cs, stack'),
           \A k \in DOMAIN cs : cs[k].op = "parentDesynchronized",
           HeldBack'
    PROVE  InOrder'
<1>1. QuietCalls(cs)
  BY DEF QuietCalls, BuildOps, Idle
<1>2. SameEntries
  BY DEF SameEntries, queue
<1>3. /\ \A x \in Surfaces : mode'[x] = mode[x] \/ x \in Desyncers
      /\ \A x \in Surfaces : /\ life'[x] = "dead" <=> life[x] = "dead"
                             /\ life'[x] = "live" => life[x] = "live"
                             /\ life'[x] # "live" => life[x] # "live" \/ x \in Destroyable
      /\ \A x \in Surfaces : /\ current'[x].content = current[x].content
                             /\ current'[x].children = current[x].children
      /\ UNCHANGED <<commits, sub, parent, children, cached, first, last, status>>
  BY DEF queue
<1>4. Numbered' /\ QueuesInOrder' /\ PreparedInOrder' /\ Listed' /\ Modes'
  BY <1>1, <1>2, <1>3, QuietOrder
<1> QED BY <1>4 DEF InOrder

LEMMA SetSyncInOrder ==
    ASSUME QueueInv, TypeOK', InOrder, NEW s \in Surfaces, SetSync(s)
    PROVE  InOrder'
<1>1. /\ Idle /\ s \in Desyncers /\ mode' = [mode EXCEPT ![s] = "sync"]
      /\ UNCHANGED <<life, commits, sub, parent, children, cached, queue, current, stack>>
  BY DEF SetSync, shown, history
<1>2. TypeOK /\ stack = <<>> /\ stack' = <<>> /\ Calls = {} /\ Calls' = {}
  BY <1>1, CallPlaces DEF QueueInv, Settled, Idle, Calls
<1>3. PICK cs : cs = <<>>
  OBVIOUS
<1>4. Replaced(stack, cs, stack') /\ DOMAIN cs = {}
  <2>1. stack' = cs
    BY <1>2, <1>3
  <2> QED BY <1>1, <1>3, <2>1, IdleReplaces
<1>5. \A x \in Surfaces : mode'[x] = IF x = s THEN "sync" ELSE mode[x]
  BY <1>1, <1>2 DEF TypeOK
<1>6. HeldBack'
  <2>1. \A x \in Surfaces : Held(x) => Held(x)'
    BY <1>5 DEF Held
  <2>2. \A x : ~Freed(x)
    BY <1>2 DEF Freed
  <2>3. \A x \in Surfaces : cached'[x] # None => life'[x] # "dead" /\ Held(x)'
    BY <1>1, <2>1, <2>2 DEF InOrder, HeldBack
  <2> QED BY <1>2, <2>3 DEF HeldBack
<1> QED BY <1>1, <1>4, <1>5, <1>6, ModeStep

LEMMA SetDesyncInOrder ==
    ASSUME QueueInv, TypeOK', InOrder, KeepsParents, ~clientGone,
           NEW s \in Surfaces, SetDesync(s)
    PROVE  InOrder'
<1> USE ConstantsAssumption
<1>1. /\ Idle /\ s \in Desyncers /\ sub[s] /\ mode[s] = "sync"
      /\ mode' = [mode EXCEPT ![s] = "desync"]
      /\ stack' = IF \E a \in Ancestors(s) : sub[a] /\ mode[a] = "sync" THEN <<>>
                  ELSE <<OnSurfaces("parentDesynchronized", {s})>>
      /\ UNCHANGED <<life, commits, sub, parent, children, cached, queue, current>>
  BY DEF SetDesync, shown, history
<1>2. /\ TypeOK /\ Children /\ Modes /\ stack = <<>> /\ Calls = {}
  BY <1>1, CallPlaces DEF QueueInv, Settled, Idle, InOrder
<1>3. PICK d : d = OnSurfaces("parentDesynchronized", {s})
  OBVIOUS
<1>4. d.op = "parentDesynchronized" /\ d.todo = {s}
  BY <1>3 DEF OnSurfaces
<1>5. \A x \in Surfaces : mode'[x] = IF x = s THEN "desync" ELSE mode[x]
  BY <1>1, <1>2 DEF TypeOK
<1>6. life[s] # "dead" /\ InitialParent[s] # None
  BY <1>1, <1>2 DEF Modes
<1>7. \A x \in Surfaces : cached[x] # None => life[x] # "dead" /\ Held(x)
  <2>1. \A x : ~Freed(x)
    BY <1>2 DEF Freed
  <2> QED BY <2>1 DEF InOrder, HeldBack
<1>8. (\E a \in Ancestors(s) : sub[a] /\ mode[a] = "sync") <=> Held(s)'
  <2>1. PICK M : M = mode'
    OBVIOUS
  <2>2. \A x \in Surfaces \ Desyncers : M[x] = "sync"
    BY <1>1, <1>2, <1>5, <2>1 DEF Modes
  <2>3. (\E a \in Path(s) : sub[a] /\ M[a] = "sync")
           <=> (\E a \in Surfaces :
                   s \in Under(a) /\ InitialParent[a] # None /\ M[a] = "sync")
    BY <1>2, <1>6, <2>2, SynchronizedIsHeld
  <2>4. \A a \in Path(s) : a \in Surfaces
    BY DEF Path
  <2>5. M[s] # "sync" /\ \A a \in Surfaces : a # s => M[a] = mode[a]
    BY <1>5, <2>1
  <2>6. (\E a \in Path(s) : sub[a] /\ M[a] = "sync")
           <=> \E a \in Ancestors(s) : sub[a] /\ mode[a] = "sync"
    BY <2>4, <2>5 DEF Ancestors
  <2> QED BY <2>1, <2>3, <2>6 DEF Held
<1>9. \A x \in Surfaces : Held(x) => Held(x)' \/ x \in Under(s)
  BY <1>5 DEF Held
<1>10. \A x \in Surfaces : x \in Under(s) /\ Held(s)' => Held(x)'
  <2> SUFFICES ASSUME NEW x \in Surfaces, x \in Under(s), Held(s)' PROVE Held(x)'
    OBVIOUS
  <2>1. PICK a \in Surfaces :
           s \in Under(a) /\ InitialParent[a] # None /\ mode'[a] = "sync"
    BY DEF Held
  <2>2. x \in Under(a)
    BY <2>1, BelowFacts DEF Under
  <2> QED BY <2>1, <2>2 DEF Held
<1>11. CASE Held(s)'
  <2>1. PICK cs : cs = <<>>
    OBVIOUS
  <2>2. Replaced(stack, cs, stack') /\ DOMAIN cs = {} /\ Calls' = {}
    <3>1. stack' = cs /\ DOMAIN cs = {}
      BY <1>1, <1>8, <1>11, <2>1
    <3>2. Calls' = {}
      BY <3>1 DEF Calls
    <3> QED BY <1>1, <3>1, <3>2, IdleReplaces
  <2>3. \A x \in Surfaces : cached'[x] # None => life'[x] # "dead" /\ Held(x)'
    BY <1>1, <1>7, <1>9, <1>10, <1>11
  <2>4. HeldBack'
    BY <2>2, <2>3 DEF HeldBack
  <2> QED BY <1>1, <1>5, <2>2, <2>4, ModeStep
<1>12. CASE ~Held(s)'
  <2>1. PICK cs : cs = <<d>>
    OBVIOUS
  <2>2. stack' = cs
    BY <1>1, <1>3, <1>8, <1>12, <2>1
  <2>3. Replaced(stack, cs, stack') /\ DOMAIN cs = {1} /\ cs[1] = d
    BY <1>1, <2>1, <2>2, OneFrame, IdleReplaces
  <2>4. Calls' = {d}
    BY <2>2, <2>3 DEF Calls
  <2>5. \A x \in Under(s) : Freed(x)'
    BY <1>4, <2>4 DEF Freed
  <2>6. \A x \in Surfaces : cached'[x] # None => life'[x] # "dead" /\ (Held(x)' \/ Freed(x)')
    BY <1>1, <1>7, <1>9, <2>5
  <2>7. ASSUME NEW a \in Surfaces, s \in Below(a) PROVE cached'[a] = None
    <3> SUFFICES ASSUME cached[a] # None PROVE FALSE
      BY <1>1
    <3>1. PICK b \in Surfaces :
             a \in Under(b) /\ InitialParent[b] # None /\ mode[b] = "sync"
      BY <1>7 DEF Held
    <3>2. s \in Below(b) /\ b # s
      BY <2>7, <3>1, BelowFacts DEF Under
    <3>3. Held(s)'
      BY <1>5, <3>1, <3>2 DEF Held, Under
    <3> QED BY <1>12, <3>3
  <2>8. HeldBack'
    <3>1. \A e \in Calls' : e.op = "parentDesynchronized" /\ e.todo = {s}
      BY <1>4, <2>4
    <3> QED BY <1>6, <2>6, <2>7, <3>1 DEF HeldBack
  <2>9. \A k \in DOMAIN cs : cs[k].op = "parentDesynchronized"
    BY <1>4, <2>3
  <2> QED BY <1>1, <1>5, <2>3, <2>8, <2>9, ModeStep
<1> QED BY <1>11, <1>12

\* A step of the loops that desynchronize.
LEMMA DesyncStep ==
    ASSUME QueueInv, TypeOK', InOrder, stack # <<>>, Head(stack).op \in DesyncOps,
           NEW cs, Replaced(stack, cs, stack'),
           \A k \in DOMAIN cs : cs[k].op \in DesyncOps \cup {"commit"},
           UNCHANGED <<life, commits, sub, parent, mode, children, queue, current>>,
           \A t \in Transactions : Prepared(t)' => Prepared(t),
           PreparedInOrder', HeldBack'
    PROVE  InOrder'
<1>1. TypeOK /\ Settled /\ Nesting
  BY DEF QueueInv, Settled
<1>2. SameEntries /\ UNCHANGED <<first, last, status, entries>>
  BY DEF SameEntries, queue
<1>3. NothingNew
  BY <1>2, SameContents DEF NothingNew, NoneCarried
<1>4. \A d : d.op \in {"add", "merge", "unlink"} => (d \in Calls' <=> d \in Calls)
  <2>1. Head(stack).op \notin {"add", "merge", "unlink"}
    BY DEF DesyncOps
  <2>2. \A k \in DOMAIN cs : cs[k].op \notin {"add", "merge", "unlink"}
    BY DEF DesyncOps
  <2> QED BY <1>1, <2>1, <2>2, OtherCallsKept
<1>5. Numbered'
  BY <1>3, <1>4, NumberedKept DEF InOrder
<1>6. QueuesInOrder'
  <2>1. \A x \in Surfaces : first[x] \in Transactions \cup {None}
                              /\ last[x] \in Transactions \cup {None}
    BY <1>1 DEF TypeOK
  <2>2. \A t : Left(t)' = Left(t)
    BY <1>2, <1>4 DEF Left
  <2>3. \A t, u \in Transactions : \A x \in Surfaces : Behind(t, u, x)' => Behind(t, u, x)
    BY <1>2, <2>2 DEF Behind, Committed
  <2> QED BY <1>2, <1>3, <2>1, <2>3, QueuesInOrderKept DEF InOrder
<1>7. Listed'
  <2>1. \A t \in Transactions : \A i \in DOMAIN entries'[t] :
           \E u \in Transactions : \E k \in DOMAIN entries[u] :
              /\ entries'[t][i].surface = entries[u][k].surface
              /\ entries'[t][i].state.children = entries[u][k].state.children
    BY <1>2
  <2>2. \A d \in Calls' : d.op = "add" => d \in Calls
    BY <1>4
  <2> QED BY <2>1, <2>2, ListedSame DEF InOrder
<1>8. Modes'
  BY DEF InOrder, Modes
<1> QED BY <1>5, <1>6, <1>7, <1>8 DEF InOrder

\* What parentDesynchronized() leaves cached is still held back, or about to be
\* committed.
LEMMA StillHeld ==
    ASSUME QueueInv, TypeOK', InOrder, Running("parentDesynchronized"),
           NEW s \in Head(stack).todo,
           NEW rest, rest.op = "parentDesynchronized", rest.todo = Head(stack).todo \ {s},
           NEW b, b.op = "desynchronizeChildren", b.todo = {s},
           NEW cs, Replaced(stack, cs, stack'), \E k \in DOMAIN cs : cs[k] = rest,
           \A k \in DOMAIN cs : cs[k] \in {rest, b} \/ cs[k].op = "commit",
           \A x \in Surfaces : cached'[x] \in {cached[x], None},
           \/ mode[s] = "sync" /\ \A k \in DOMAIN cs : cs[k] # b
           \/ cached'[s] = None /\ \E k \in DOMAIN cs : cs[k] = b,
           UNCHANGED <<life, mode>>
    PROVE  HeldBack'
<1>1. TypeOK /\ Nesting
  BY DEF QueueInv, Settled
<1>2. PICK h : h = Head(stack)
  OBVIOUS
<1>3. /\ stack # <<>> /\ h \in Calls /\ h.op = "parentDesynchronized"
      /\ s \in h.todo /\ h.todo \subseteq Surfaces /\ rest.todo = h.todo \ {s}
  BY <1>1, <1>2, LoopFacts, CallPlaces DEF SurfaceCalls
<1>4. /\ \A d \in Calls' : d \in Calls \/ d \in {rest, b} \/ d.op = "commit"
      /\ \A d \in Calls : d = h \/ d \in Calls'
      /\ rest \in Calls'
      /\ b \in Calls' \/ mode[s] = "sync"
      /\ \A d \in Calls' : d = b => cached'[s] = None \/ d \in Calls
  <2>1. \A m \in DOMAIN stack : stack[m] \in Calls
    BY DEF Calls
  <2>2. /\ \A d \in Calls' : (\E k \in DOMAIN cs : cs[k] = d)
                                \/ (\E m \in DOMAIN stack : m > 1 /\ stack[m] = d)
        /\ \A k \in DOMAIN cs : cs[k] \in Calls'
        /\ \A d \in Calls : d = h \/ d \in Calls'
    BY <1>1, <1>2, CallsAfter
  <2> QED BY <2>1, <2>2
<1>5. \A d \in Calls : d.op \notin BuildOps
  BY <1>1, <1>2, <1>3, NoneBuiltYet DEF DesyncOps
<1>6. HeldBack
  BY DEF InOrder
<1>7. h.op \in DesyncOps
  BY <1>3 DEF DesyncOps
<1>8. ASSUME NEW x \in Surfaces, cached'[x] # None
      PROVE  life'[x] # "dead" /\ (Held(x)' \/ Freed(x)')
  <2>1. cached[x] # None /\ (cached'[s] = None => x # s)
    BY <1>8
  <2>2. life[x] # "dead" /\ (Held(x) \/ Freed(x))
    BY <1>6, <2>1 DEF HeldBack
  <2>3. Held(x) => Held(x)'
    BY DEF Held
  <2>4. ASSUME NEW d \in Calls, NEW y \in Surfaces,
               \/ d.op = "parentDesynchronized" /\ y \in d.todo /\ x \in Under(y)
               \/ d.op = "desynchronizeChildren" /\ y \in d.todo /\ x \in Below(y)
        PROVE  Held(x)' \/ Freed(x)'
    <3>1. CASE d # h
      BY <1>4, <2>4, <3>1 DEF Freed
    <3>2. CASE d = h /\ y # s
      BY <1>3, <1>4, <2>4, <3>2 DEF Freed
    <3>3. CASE d = h /\ y = s /\ mode[s] = "sync"
      <4>1. InitialParent[s] # None
        BY <1>3, <1>6, <1>7 DEF HeldBack
      <4>2. x \in Under(s)
        BY <1>3, <2>4, <3>3
      <4> QED BY <1>3, <3>3, <4>1, <4>2 DEF Held
    <3>4. CASE d = h /\ y = s /\ mode[s] # "sync"
      <4>1. x \in Below(s)
        BY <1>3, <2>1, <2>4, <3>4 DEF Under
      <4> QED BY <1>3, <1>4, <3>4, <4>1 DEF Freed
    <3> QED BY <3>1, <3>2, <3>3, <3>4
  <2> QED BY <2>2, <2>3, <2>4 DEF Freed
<1>9. \A d \in Calls' : d.op \notin {"merge", "add"}
  BY <1>4, <1>5 DEF BuildOps
<1>10. ASSUME NEW d \in Calls', d.op \in DesyncOps, NEW y \in d.todo
       PROVE  /\ d.op = "parentDesynchronized" => InitialParent[y] # None
              /\ \A a \in Surfaces :
                    y \in Below(a) \/ (d.op = "desynchronizeChildren" /\ y = a)
                       => cached'[a] = None
  <2>1. CASE d \in Calls
    BY <1>6, <1>10, <2>1 DEF HeldBack
  <2>2. CASE d = rest
    BY <1>3, <1>6, <1>7, <1>10, <2>2 DEF HeldBack
  <2>3. CASE d = b /\ d \notin Calls
    <3>1. y = s /\ cached'[s] = None
      BY <1>4, <1>10, <2>3
    <3>2. \A a \in Surfaces : s \in Below(a) => cached[a] = None
      BY <1>3, <1>6, <1>7 DEF HeldBack
    <3> QED BY <2>3, <3>1, <3>2
  <2> QED BY <1>4, <1>10, <2>1, <2>2, <2>3 DEF DesyncOps
<1> QED BY <1>8, <1>9, <1>10 DEF HeldBack

LEMMA ParentDesynchronizedInOrder ==
    ASSUME QueueInv, TypeOK', InOrder, ParentDesynchronized
    PROVE  InOrder'
<1> USE ConstantsAssumption
<1>1. PICK s \in Head(stack).todo :
         IF mode[s] = "sync" THEN VisitVia(s, <<>>) /\ UNCHANGED cached
         ELSE /\ cached' = [cached EXCEPT ![s] = None]
              /\ VisitVia(s, (IF cached[s] = None THEN <<>>
                              ELSE <<OnTx("commit", cached[s])>>)
                             \o <<OnSurfaces("desynchronizeChildren", {s})>>)
  BY DEF ParentDesynchronized
<1>2. /\ Running("parentDesynchronized") /\ "parentDesynchronized" \in SurfaceCalls
      /\ UNCHANGED <<life, commits, sub, parent, mode, children, queue, current>>
  BY DEF ParentDesynchronized, SurfaceCalls, tree, shown, history
<1>3. /\ s \in Surfaces /\ stack # <<>> /\ Head(stack) \in Calls
      /\ Head(stack).op = "parentDesynchronized" /\ Head(stack).op \in SurfaceCalls
      /\ TypeOK /\ Nesting /\ Settled /\ Subtrees
  <2>1. TypeOK /\ Nesting /\ Settled /\ Subtrees
    BY DEF QueueInv, Settled
  <2> QED BY <1>2, <2>1, LoopFacts, CallPlaces
<1>4. Head(stack).op \in DesyncOps
  BY <1>3 DEF DesyncOps
<1>5. PICK b : b = OnSurfaces("desynchronizeChildren", {s})
  OBVIOUS
<1>6. b \in CallType /\ b.op = "desynchronizeChildren" /\ b.todo = {s}
  BY <1>3, <1>5, CallsTyped DEF OnSurfaces, SurfaceCalls
<1>7. \A d \in Calls : d.op \notin BuildOps
  BY <1>3, <1>4, NoneBuiltYet
<1>8. NoneCarried
  <2>1. SameEntries
    BY <1>2 DEF SameEntries, queue
  <2> QED BY <1>2, <2>1, SameContents DEF NoneCarried
<1>9. CASE mode[s] = "sync"
  <2>1. VisitVia(s, <<>>) /\ UNCHANGED cached
    BY <1>1, <1>9
  <2>2. PICK rest \in CallType : /\ rest.op = Head(stack).op
                                 /\ rest.todo = Head(stack).todo \ {s}
                                 /\ Replaced(stack, <<>> \o <<rest>>, stack')
    <3>1. <<>> \in Seq(CallType)
      BY EmptySeq
    <3> QED BY <1>3, <2>1, <3>1, VisitReplaces
  <2>3. PICK cs : cs = <<rest>>
    OBVIOUS
  <2>4. DOMAIN cs = {1} /\ cs[1] = rest /\ Replaced(stack, cs, stack')
    <3>1. <<>> \o <<rest>> = cs
      BY <2>3
    <3>2. Replaced(stack, cs, stack')
      BY <2>2, <3>1
    <3> QED BY <2>3, <3>2, OneFrame
  <2>5. HeldBack'
    <3>1. /\ \E k \in DOMAIN cs : cs[k] = rest
          /\ \A k \in DOMAIN cs : cs[k] \in {rest, b} \/ cs[k].op = "commit"
          /\ \A k \in DOMAIN cs : cs[k] # b
      BY <1>3, <1>6, <2>2, <2>4
    <3>2. rest.op = "parentDesynchronized"
      BY <1>3, <2>2
    <3> QED BY <1>2, <1>6, <1>9, <2>1, <2>2, <2>4, <3>1, <3>2, StillHeld
  <2>6. PreparedInOrder' /\ \A t \in Transactions : Prepared(t)' => Prepared(t)
    <3>1. \A d \in Calls' : d.op = "commit" => d \in Calls
      <4>1. Head(stack).op \notin {"commit"} /\ \A k \in DOMAIN cs : cs[k].op \notin {"commit"}
        BY <1>3, <2>2, <2>4
      <4>2. \A d : d.op \in {"commit"} => (d \in Calls' <=> d \in Calls)
        BY <1>3, <2>4, <4>1, OtherCallsKept
      <4> QED BY <4>2
    <3> QED BY <1>3, <1>8, <2>1, <3>1, PreparedInOrderKept DEF InOrder
  <2>7. \A k \in DOMAIN cs : cs[k].op \in DesyncOps \cup {"commit"}
    BY <1>4, <2>2, <2>4
  <2> QED BY <1>2, <1>3, <1>4, <2>4, <2>5, <2>6, <2>7, DesyncStep
<1>10. CASE mode[s] # "sync" /\ cached[s] = None
  <2>1. cached' = cached /\ VisitVia(s, <<b>>)
    <3>1. <<>> \o <<b>> = <<b>>
      BY <1>6
    <3>2. cached' = [cached EXCEPT ![s] = None] /\ VisitVia(s, <<>> \o <<b>>)
      BY <1>1, <1>5, <1>10
    <3>3. cached' = cached
      BY <1>3, <1>10, <3>2 DEF TypeOK
    <3> QED BY <3>1, <3>2, <3>3
  <2>2. PICK rest \in CallType : /\ rest.op = Head(stack).op
                                 /\ rest.todo = Head(stack).todo \ {s}
                                 /\ Replaced(stack, <<b>> \o <<rest>>, stack')
    <3>1. <<b>> \in Seq(CallType)
      BY <1>6
    <3> QED BY <1>3, <2>1, <3>1, VisitReplaces
  <2>3. PICK cs : cs = <<b, rest>>
    OBVIOUS
  <2>4. DOMAIN cs = {1, 2} /\ cs[1] = b /\ cs[2] = rest /\ Replaced(stack, cs, stack')
    <3>1. Replaced(stack, cs, stack')
      BY <2>2, <2>3, OneThenOne
    <3> QED BY <2>3, <3>1, PlacesOfTwo
  <2>5. HeldBack'
    <3>1. /\ \E k \in DOMAIN cs : cs[k] = rest
          /\ \A k \in DOMAIN cs : cs[k] \in {rest, b} \/ cs[k].op = "commit"
          /\ \E k \in DOMAIN cs : cs[k] = b
      BY <2>4
    <3>2. rest.op = "parentDesynchronized" /\ cached'[s] = None
      BY <1>3, <1>10, <2>1, <2>2
    <3> QED BY <1>2, <1>6, <2>1, <2>2, <2>4, <3>1, <3>2, StillHeld
  <2>6. PreparedInOrder' /\ \A t \in Transactions : Prepared(t)' => Prepared(t)
    <3>1. \A d \in Calls' : d.op = "commit" => d \in Calls
      <4>1. Head(stack).op \notin {"commit"} /\ \A k \in DOMAIN cs : cs[k].op \notin {"commit"}
        BY <1>3, <1>6, <2>2, <2>4
      <4>2. \A d : d.op \in {"commit"} => (d \in Calls' <=> d \in Calls)
        BY <1>3, <2>4, <4>1, OtherCallsKept
      <4> QED BY <4>2
    <3> QED BY <1>3, <1>8, <2>1, <3>1, PreparedInOrderKept DEF InOrder
  <2>7. \A k \in DOMAIN cs : cs[k].op \in DesyncOps \cup {"commit"}
    BY <1>4, <1>6, <2>2, <2>4 DEF DesyncOps
  <2> QED BY <1>2, <1>3, <1>4, <2>4, <2>5, <2>6, <2>7, DesyncStep
<1>11. CASE mode[s] # "sync" /\ cached[s] # None
  <2>1. PICK t \in Transactions : t = cached[s]
    BY <1>3, <1>11 DEF TypeOK
  <2>2. PICK a : a = OnTx("commit", t)
    OBVIOUS
  <2>3. a \in CallType /\ a.op = "commit" /\ a.tx = t
    BY <2>2, CallsTyped DEF OnTx
  <2>4. cached' = [cached EXCEPT ![s] = None] /\ VisitVia(s, <<a>> \o <<b>>)
    BY <1>1, <1>5, <1>11, <2>1, <2>2
  <2>5. PICK rest \in CallType : /\ rest.op = Head(stack).op
                                 /\ rest.todo = Head(stack).todo \ {s}
                                 /\ Replaced(stack, <<a>> \o <<b>> \o <<rest>>, stack')
    <3>1. <<a>> \o <<b>> \in Seq(CallType)
      BY <1>6, <2>3, OneThenOne
    <3> QED BY <1>3, <2>4, <3>1, VisitReplaces
  <2>6. PICK cs : cs = <<a, b, rest>>
    OBVIOUS
  <2>7. /\ DOMAIN cs = {1, 2, 3} /\ cs[1] = a /\ cs[2] = b /\ cs[3] = rest
        /\ Replaced(stack, cs, stack')
    <3>1. Replaced(stack, cs, stack')
      BY <2>5, <2>6, TwoThenOne
    <3> QED BY <2>6, <3>1, PlacesOfThree
  <2>8. \A x \in Surfaces : cached'[x] = IF x = s THEN None ELSE cached[x]
    BY <1>3, <2>4 DEF TypeOK
  <2>9. HeldBack'
    <3>1. /\ \E k \in DOMAIN cs : cs[k] = rest
          /\ \A k \in DOMAIN cs : cs[k] \in {rest, b} \/ cs[k].op = "commit"
          /\ \E k \in DOMAIN cs : cs[k] = b
      BY <2>3, <2>7
    <3>2. rest.op = "parentDesynchronized" /\ cached'[s] = None
      BY <1>3, <2>5, <2>8
    <3> QED BY <1>2, <1>6, <2>5, <2>7, <2>8, <3>1, <3>2, StillHeld
  <2>10. \A d \in Calls' : d.op = "commit" => d = a
    <3>1. \A d \in Calls' : (\E k \in DOMAIN cs : cs[k] = d)
                               \/ (\E m \in DOMAIN stack : m > 1 /\ stack[m] = d)
      BY <1>3, <2>7, CallsAfter
    <3>2. \A d \in Calls' : d \in {a, b, rest} \/ d \in Calls
      BY <2>7, <3>1 DEF Calls
    <3>3. \A d \in Calls : d.op # "commit"
      BY <1>7 DEF BuildOps
    <3> QED BY <1>3, <1>6, <2>5, <3>2, <3>3
  <2>11. \A u \in Transactions : Prepared(u)' =>
            Prepared(u) /\ (u # t => \E y \in Surfaces \ {s} : cached[y] = u)
    <3> SUFFICES ASSUME NEW u \in Transactions, Prepared(u)'
                 PROVE  Prepared(u) /\ (u # t => \E y \in Surfaces \ {s} : cached[y] = u)
      OBVIOUS
    <3>1. CASE \E x \in Surfaces : cached'[x] = u
      <4>1. PICK x \in Surfaces : cached'[x] = u
        BY <3>1
      <4>2. x # s /\ cached[x] = u
        BY <2>8, <4>1
      <4> QED BY <4>2 DEF Prepared
    <3>2. CASE \E d \in Calls' : d.op = "commit" /\ d.tx = u
      <4>1. u = t
        BY <2>3, <2>10, <3>2
      <4> QED BY <1>3, <2>1, <4>1 DEF Prepared
    <3> QED BY <3>1, <3>2 DEF Prepared
  <2>12. \A u \in Transactions : \A x : Contents(u, x)' = Contents(u, x)
    <3>1. SameEntries
      BY <1>2 DEF SameEntries, queue
    <3> QED BY <3>1, SameContents
  <2>13. ASSUME NEW x \in Surfaces, life[x] = "live", NEW y \in Surfaces, NEW z \in Surfaces,
                cached'[y] # None, cached'[z] # None, z \in Below(y)
         PROVE  NoLater(Contents(cached[y], x)', Contents(cached[z], x)')
    <3>1. PICK u \in Transactions, v \in Transactions : u = cached[y] /\ v = cached[z]
      BY <1>3, <2>8, <2>13 DEF TypeOK
    <3>2. cached'[y] = u /\ cached'[z] = v
      BY <2>8, <2>13, <3>1
    <3>3. NoLater(Contents(u, x), Contents(v, x))
      BY <2>13, <3>1, <3>2 DEF InOrder, PreparedInOrder
    <3> QED BY <2>12, <3>2, <3>3
  <2>14. ASSUME NEW x \in Surfaces, life[x] = "live",
                NEW u \in Transactions, Prepared(u)', u # t
         PROVE  NoLater(Contents(t, x)', Contents(u, x)')
    <3>1. PICK y \in Surfaces \ {s} : cached[y] = u
      BY <2>11, <2>14
    <3>2. NoLater(Contents(t, x), Contents(u, x))
      <4>1. s \notin Below(y)
        BY <1>3, <1>4, <3>1 DEF InOrder, HeldBack
      <4>2. CASE y \in Below(s)
        BY <1>3, <2>1, <2>14, <3>1, <4>2 DEF InOrder, PreparedInOrder
      <4>3. CASE y \notin Below(s)
        <5>1. x \notin SurfacesOf(t) \/ x \notin SurfacesOf(u)
          BY <1>3, <2>1, <3>1, <4>1, <4>3, CachedApart
        <5>2. Contents(t, x) = {} \/ Contents(u, x) = {}
          BY <1>3, <5>1, ContentsFacts
        <5> QED BY <5>2 DEF NoLater
      <4> QED BY <4>2, <4>3
    <3> QED BY <2>12, <3>2
  <2>15. PreparedInOrder'
    <3>1. \A x, y, z \in Surfaces :
             /\ life[x] = "live" /\ cached'[y] # None /\ cached'[z] # None /\ z \in Below(y)
             => NoLater(Contents(cached[y], x)', Contents(cached[z], x)')
      BY <2>13
    <3>2. \A x \in Surfaces : life[x] = "live" => \A d \in Calls' : d.op = "commit" =>
             \A u \in Transactions : Prepared(u)' /\ u # d.tx =>
                NoLater(Contents(d.tx, x)', Contents(u, x)')
      BY <2>3, <2>10, <2>14
    <3>3. life' = life
      BY <1>2
    <3> QED BY <3>1, <3>2, <3>3 DEF PreparedInOrder
  <2>16. \A k \in DOMAIN cs : cs[k].op \in DesyncOps \cup {"commit"}
    BY <1>4, <1>6, <2>3, <2>5, <2>7 DEF DesyncOps
  <2> QED BY <1>2, <1>3, <1>4, <2>7, <2>9, <2>11, <2>15, <2>16, DesyncStep
<1> QED BY <1>9, <1>10, <1>11

\* Whatever was built below a surface was built below, or is, a child of it.
LEMMA BelowAChild ==
    ASSUME NEW s \in Surfaces, NEW x \in Below(s)
    PROVE  \E c \in Surfaces : InitialParent[c] = s /\ x \in Under(c)
<1> DEFINE A == {z \in Surfaces : \E c \in Surfaces : InitialParent[c] = s /\ z \in Under(c)}
<1>1. ClosedBelow(A, s)
  <2> SUFFICES ASSUME NEW z \in Surfaces, InitialParent[z] \in A \cup {s}
               PROVE  z \in A
    BY DEF ClosedBelow
  <2>1. CASE InitialParent[z] = s
    BY <2>1 DEF Under
  <2>2. CASE InitialParent[z] \in A
    <3>1. PICK c \in Surfaces : InitialParent[c] = s /\ InitialParent[z] \in Under(c)
      BY <2>2
    <3>2. z \in Below(c)
      BY <3>1, BelowFacts DEF Under
    <3> QED BY <3>1, <3>2 DEF Under
  <2> QED BY <2>1, <2>2
<1>2. A \in SUBSET Surfaces
  OBVIOUS
<1> QED BY <1>1, <1>2 DEF Below

LEMMA DesynchronizeChildrenInOrder ==
    ASSUME QueueInv, TypeOK', InOrder, KeepsParents, DesynchronizeChildren
    PROVE  InOrder'
<1> USE ConstantsAssumption
<1>1. PICK s \in Head(stack).todo :
         VisitVia(s, <<OnSurfaces("parentDesynchronized", current[s].children)>>)
  BY DEF DesynchronizeChildren
<1>2. /\ Running("desynchronizeChildren") /\ "desynchronizeChildren" \in SurfaceCalls
      /\ UNCHANGED <<life, commits, sub, parent, mode, children, cached, queue, current>>
  BY DEF DesynchronizeChildren, SurfaceCalls, tree, shown, history
<1>3. PICK h : h = Head(stack)
  OBVIOUS
<1>4. /\ s \in Surfaces /\ stack # <<>> /\ h \in Calls /\ h.todo \subseteq Surfaces
      /\ h.op = "desynchronizeChildren" /\ s \in h.todo
      /\ Head(stack).op \in SurfaceCalls /\ h.op \in DesyncOps
      /\ TypeOK /\ Nesting /\ Settled
  <2>1. TypeOK /\ Nesting /\ Settled
    BY DEF QueueInv, Settled
  <2> QED BY <1>2, <1>3, <2>1, LoopFacts, CallPlaces DEF DesyncOps
<1>5. PICK C : C = current[s].children
  OBVIOUS
<1>6. C \subseteq Surfaces /\ \A c \in C : InitialParent[c] = s
  <2>1. current[s] \in StateType
    BY <1>4 DEF TypeOK
  <2> QED BY <1>4, <1>5, <2>1 DEF Settled, Children, StateType
<1>7. PICK a : a = OnSurfaces("parentDesynchronized", C)
  OBVIOUS
<1>8. a \in CallType /\ a.op = "parentDesynchronized" /\ a.todo = C
  BY <1>6, <1>7, CallsTyped DEF OnSurfaces, SurfaceCalls
<1>9. \A d \in Calls : d.op \notin BuildOps
  BY <1>3, <1>4, NoneBuiltYet
<1>10. PICK rest \in CallType : /\ rest.op = h.op /\ rest.todo = h.todo \ {s}
                                /\ Replaced(stack, <<a>> \o <<rest>>, stack')
  <2>1. <<a>> \in Seq(CallType) /\ VisitVia(s, <<a>>)
    BY <1>1, <1>5, <1>7, <1>8
  <2> QED BY <1>3, <1>4, <2>1, VisitReplaces
<1>11. PICK cs : cs = <<a, rest>>
  OBVIOUS
<1>12. DOMAIN cs = {1, 2} /\ cs[1] = a /\ cs[2] = rest /\ Replaced(stack, cs, stack')
  <2>1. Replaced(stack, cs, stack')
    BY <1>10, <1>11, OneThenOne
  <2> QED BY <1>11, <2>1, PlacesOfTwo
<1>13. /\ \A d \in Calls' : d \in Calls \/ d = a \/ d = rest
       /\ \A d \in Calls : d = h \/ d \in Calls'
       /\ a \in Calls' /\ rest \in Calls'
  <2>1. \A m \in DOMAIN stack : stack[m] \in Calls
    BY DEF Calls
  <2>2. /\ \A d \in Calls' : (\E k \in DOMAIN cs : cs[k] = d)
                                \/ (\E m \in DOMAIN stack : m > 1 /\ stack[m] = d)
        /\ \A k \in DOMAIN cs : cs[k] \in Calls'
        /\ \A d \in Calls : d = h \/ d \in Calls'
    BY <1>3, <1>4, <1>12, CallsAfter
  <2> QED BY <1>12, <2>1, <2>2
<1>14. \A d \in Calls' : d.op \notin BuildOps
  BY <1>4, <1>8, <1>9, <1>10, <1>13 DEF BuildOps, DesyncOps
<1>15. HeldBack /\ Listed /\ Modes
  BY DEF InOrder
<1>16. \A x \in Surfaces : Held(x)' <=> Held(x)
  BY <1>2 DEF Held
<1>17. ASSUME NEW x \in Below(s)
       PROVE  Held(x) \/ life[x] = "dead" \/ \E c \in C : x \in Under(c)
  <2>1. PICK c \in Surfaces : InitialParent[c] = s /\ x \in Under(c)
    BY <1>4, <1>17, BelowAChild
  <2>2. c \in C \/ life[c] = "dead" \/ life[s] = "dead"
    BY <1>4, <1>5, <1>15, <2>1 DEF Listed, Lists
  <2>3. CASE life[s] = "dead"
    <3>1. c \notin Desyncers
      BY <1>4, <1>15, <2>1, <2>3 DEF Modes, KeepsParents
    <3> QED BY <1>4, <1>15, <2>1, <3>1 DEF Modes, Held
  <2>4. CASE life[c] = "dead" /\ x # c
    <3>1. x \in Below(c)
      BY <2>1, <2>4 DEF Under
    <3>2. PICK b \in Surfaces : InitialParent[b] = c /\ x \in Under(b)
      BY <3>1, BelowAChild
    <3>3. b \notin Desyncers
      BY <1>15, <2>4, <3>2 DEF Modes, KeepsParents
    <3> QED BY <1>15, <3>2, <3>3 DEF Modes, Held
  <2> QED BY <2>1, <2>2, <2>3, <2>4
<1>18. ASSUME NEW x \in Surfaces, cached'[x] # None
       PROVE  life'[x] # "dead" /\ (Held(x)' \/ Freed(x)')
  <2>1. life[x] # "dead" /\ (Held(x) \/ Freed(x))
    BY <1>2, <1>15, <1>18 DEF HeldBack
  <2>2. ASSUME NEW d \in Calls, NEW y \in Surfaces,
               \/ d.op = "parentDesynchronized" /\ y \in d.todo /\ x \in Under(y)
               \/ d.op = "desynchronizeChildren" /\ y \in d.todo /\ x \in Below(y)
        PROVE  Held(x) \/ Freed(x)'
    <3>1. CASE d # h
      BY <1>13, <2>2, <3>1 DEF Freed
    <3>2. CASE d = h /\ y # s
      BY <1>4, <1>10, <1>13, <2>2, <3>2 DEF Freed
    <3>3. CASE d = h /\ y = s
      <4>1. x \in Below(s)
        BY <1>4, <2>2, <3>3
      <4>2. Held(x) \/ \E c \in C : x \in Under(c)
        BY <1>17, <2>1, <4>1
      <4> QED BY <1>6, <1>8, <1>13, <4>2 DEF Freed
    <3> QED BY <3>1, <3>2, <3>3
  <2> QED BY <1>2, <1>16, <2>1, <2>2 DEF Freed
<1>19. ASSUME NEW d \in Calls', d.op \in DesyncOps, NEW y \in d.todo
       PROVE  /\ d.op = "parentDesynchronized" => InitialParent[y] # None
              /\ \A b \in Surfaces :
                    y \in Below(b) \/ (d.op = "desynchronizeChildren" /\ y = b)
                       => cached'[b] = None
  <2>1. CASE d \in Calls
    BY <1>2, <1>15, <1>19, <2>1 DEF HeldBack
  <2>2. CASE d = rest
    BY <1>2, <1>4, <1>10, <1>15, <1>19, <2>2 DEF HeldBack
  <2>3. CASE d = a
    <3>1. y \in C /\ InitialParent[y] = s
      BY <1>6, <1>8, <1>19, <2>3
    <3>2. \A b \in Surfaces : y \in Below(b) => s = b \/ s \in Below(b)
      BY <3>1, BelowFacts
    <3>3. \A b \in Surfaces : s = b \/ s \in Below(b) => cached[b] = None
      BY <1>4, <1>15 DEF HeldBack
    <3> QED BY <1>2, <1>4, <1>8, <2>3, <3>1, <3>2, <3>3
  <2> QED BY <1>13, <2>1, <2>2, <2>3
<1>20. HeldBack'
  <2>1. \A d \in Calls' : d.op \notin {"merge", "add"}
    BY <1>14 DEF BuildOps
  <2> QED BY <1>18, <1>19, <2>1 DEF HeldBack
<1>21. PreparedInOrder' /\ \A t \in Transactions : Prepared(t)' => Prepared(t)
  <2>1. NoneCarried
    <3>1. SameEntries
      BY <1>2 DEF SameEntries, queue
    <3> QED BY <1>2, <3>1, SameContents DEF NoneCarried
  <2>2. \A d \in Calls' : d.op = "commit" => d \in Calls
    BY <1>14 DEF BuildOps
  <2> QED BY <1>2, <1>4, <2>1, <2>2, PreparedInOrderKept DEF InOrder
<1>22. \A k \in DOMAIN cs : cs[k].op \in DesyncOps \cup {"commit"}
  BY <1>4, <1>8, <1>10, <1>12 DEF DesyncOps
<1> QED BY <1>2, <1>3, <1>4, <1>12, <1>20, <1>21, <1>22, DesyncStep

------------------------------------------------------------------------------
(* wl_surface.commit                                                        *)

LEMMA SurfaceCommitInOrder ==
    ASSUME QueueInv, TypeOK', InOrder, KeepsParents,
           NEW s \in Surfaces, NEW shape \in CommitShapes, SurfaceCommit(s, shape)
    PROVE  InOrder'
<1> USE ConstantsAssumption
<1>1. PICK S : S = Synchronized(s)
  OBVIOUS
<1>2. PICK t \in Transactions : \E m, d, c :
         Prepares(s, t, S, m, d, c) /\ d.state.content = commits[s] + 1
  BY <1>1, SurfaceCommitPrepares
<1>3. PICK m, d, c : Prepares(s, t, S, m, d, c) /\ d.state.content = commits[s] + 1
  BY <1>2
<1>4. /\ m.op = "merge" /\ m.tx = t /\ m.surface = s
      /\ d.op = "add" /\ d.tx = t /\ d.surface = s
      /\ d.state.children = children[s] /\ d.state.content = commits[s] + 1
      /\ c.op = "commit" /\ c.tx = t
  BY <1>3 DEF Prepares
<1>5. /\ status[t] = "free" \/ (S /\ cached[s] = t)
      /\ status' = [status EXCEPT ![t] = "pending"]
      /\ cached' = IF S THEN [cached EXCEPT ![s] = t] ELSE cached
      /\ stack' = IF S THEN <<m, d>> ELSE <<m, d, c>>
      /\ UNCHANGED <<life, sub, parent, mode, children, first, last, entries, current>>
  BY <1>3 DEF Prepares, tree, shown
<1>6. /\ Idle /\ ~clientGone /\ life[s] = "live"
      /\ commits' = [commits EXCEPT ![s] = @ + 1]
  BY Zenon DEF SurfaceCommit
<1>7. /\ TypeOK /\ Settled /\ Children /\ Modes /\ stack = <<>> /\ Calls = {}
  BY <1>6, CallPlaces DEF QueueInv, Settled, Idle, InOrder
<1>8. S \in BOOLEAN /\ (S <=> Held(s))
  <2>1. PICK M : M = mode
    OBVIOUS
  <2>2. \A x \in Surfaces \ Desyncers : M[x] = "sync"
    BY <1>7, <2>1 DEF Modes
  <2>3. (\E a \in Path(s) : sub[a] /\ M[a] = "sync")
           <=> (\E a \in Surfaces :
                   s \in Under(a) /\ InitialParent[a] # None /\ M[a] = "sync")
    BY <1>6, <1>7, <2>2, SynchronizedIsHeld
  <2> QED BY <1>1, <2>1, <2>3 DEF Synchronized, Held
<1>9. \A e \in Calls' : e = m \/ e = d \/ (~S /\ e = c)
  <2>1. CASE S
    <3>1. PICK cs : cs = <<m, d>>
      OBVIOUS
    <3>2. stack' = cs /\ DOMAIN cs = {1, 2} /\ cs[1] = m /\ cs[2] = d
      BY <1>5, <2>1, <3>1, PlacesOfTwo
    <3> QED BY <3>2 DEF Calls
  <2>2. CASE ~S
    <3>1. PICK cs : cs = <<m, d, c>>
      OBVIOUS
    <3>2. stack' = cs /\ DOMAIN cs = {1, 2, 3} /\ cs[1] = m /\ cs[2] = d /\ cs[3] = c
      BY <1>5, <2>2, <3>1, PlacesOfThree
    <3> QED BY <2>2, <3>2 DEF Calls
  <2> QED BY <1>8, <2>1, <2>2
<1>10. \A x \in Surfaces : cached'[x] = IF S /\ x = s THEN t ELSE cached[x]
  BY <1>5, <1>7 DEF TypeOK
<1>11. \A u : \A x : Contents(u, x)' = Contents(u, x)
  BY <1>5 DEF Contents, EntriesOf
<1>12. status[t] = "free" => \A x : Contents(t, x) = {}
  BY <1>7 DEF Settled, Outside, Contents, EntriesOf
<1>13. NothingNew
  BY <1>5, <1>11 DEF NothingNew, NoneCarried
<1>14. \A x \in Surfaces : commits'[x] = IF x = s THEN commits[s] + 1 ELSE commits[x]
  BY <1>6, <1>7 DEF TypeOK
<1>15. Numbered'
  <2>1. ASSUME NEW x \in Surfaces, life[x] = "live"
        PROVE  /\ current[x].content <= commits'[x]
               /\ \A u \in Transactions : \A n \in Contents(u, x) : n <= commits'[x]
    <3>1. commits[x] \in Nat /\ commits'[x] \in {commits[x], commits[x] + 1}
      BY <1>7, <1>14 DEF TypeOK
    <3>2. current[x].content \in Nat
      BY <1>7 DEF TypeOK, StateType
    <3>3. \A u \in Transactions : Contents(u, x) \subseteq Nat
      BY <1>7, ContentsFacts
    <3> QED BY <2>1, <3>1, <3>2, <3>3 DEF InOrder, Numbered
  <2>2. \A e \in Calls' : e.op = "add" =>
           e.surface = s /\ e.state.content = commits'[s]
    BY <1>4, <1>9, <1>14
  <2> QED BY <1>5, <1>11, <2>1, <2>2 DEF Numbered
<1>16. \A u \in Transactions : Prepared(u)' => Prepared(u) \/ \A x : Contents(u, x) = {}
  <2>1. ASSUME NEW u \in Transactions, NEW x \in Surfaces, cached'[x] = u
        PROVE  Prepared(u) \/ \A y : Contents(u, y) = {}
    <3>1. u = t \/ cached[x] = u
      BY <1>10, <2>1
    <3> QED BY <1>5, <1>12, <3>1 DEF Prepared
  <2>2. \A e \in Calls' : e.op = "commit" => e.tx = t /\ ~S
    BY <1>4, <1>9
  <2>3. ~S => \A y : Contents(t, y) = {}
    BY <1>5, <1>12
  <2> QED BY <2>1, <2>2, <2>3 DEF Prepared
<1>17. QueuesInOrder'
  <2>1. \A u : Left(u)' = Left(u)
    <3>1. \A e \in Calls' : e.op # "unlink"
      BY <1>4, <1>9
    <3> QED BY <1>5, <1>7, <3>1 DEF Left
  <2>2. \A u \in Transactions : Committed(u)' => Committed(u)
    BY <1>5, <1>7 DEF TypeOK, Committed
  <2>3. \A u, v \in Transactions : \A x \in Surfaces : Behind(u, v, x)' => Behind(u, v, x)
    BY <1>5, <2>1, <2>2 DEF Behind
  <2>4. \A x \in Surfaces : first[x] \in Transactions \cup {None}
                              /\ last[x] \in Transactions \cup {None}
    BY <1>7 DEF TypeOK
  <2>5. \A u \in Transactions : Prepared(u)' =>
           Prepared(u) \/ \A x \in Surfaces : Contents(u, x)' = {}
    BY <1>11, <1>16
  <2> QED BY <1>5, <1>13, <2>3, <2>4, <2>5, QueuesInOrderKept DEF InOrder
<1>18. PreparedInOrder'
  <2>1. ASSUME NEW x \in Surfaces, life[x] = "live", NEW y \in Surfaces, NEW z \in Surfaces,
               cached'[y] # None, cached'[z] # None, z \in Below(y)
        PROVE  NoLater(Contents(cached[y], x)', Contents(cached[z], x)')
    <3>1. PICK u, v : u = cached'[y] /\ v = cached'[z]
      OBVIOUS
    <3>2. /\ u = cached[y] \/ \A b : Contents(u, b) = {}
          /\ v = cached[z] \/ \A b : Contents(v, b) = {}
      BY <1>5, <1>10, <1>12, <3>1
    <3>3. NoLater(Contents(u, x), Contents(v, x))
      <4>1. CASE u = cached[y] /\ v = cached[z]
        BY <2>1, <3>1, <4>1 DEF InOrder, PreparedInOrder
      <4>2. CASE Contents(u, x) = {} \/ Contents(v, x) = {}
        BY <4>2 DEF NoLater
      <4> QED BY <3>2, <4>1, <4>2
    <3>4. /\ Contents(cached[y], x)' = Contents(u, x)'
          /\ Contents(cached[z], x)' = Contents(v, x)'
      BY <3>1 DEF Contents, EntriesOf
    <3> QED BY <1>11, <3>3, <3>4
  <2>2. ASSUME NEW x, NEW e \in Calls', e.op = "commit", NEW u
        PROVE  NoLater(Contents(e.tx, x)', Contents(u, x)')
    <3>1. e.tx = t /\ Contents(t, x)' = {}
      BY <1>4, <1>5, <1>9, <1>11, <1>12, <2>2
    <3> QED BY <3>1 DEF NoLater
  <2> QED BY <1>5, <2>1, <2>2 DEF PreparedInOrder
<1>19. HeldBack'
  <2>1. \A x \in Surfaces : Held(x)' <=> Held(x)
    BY <1>5 DEF Held
  <2>2. \A x \in Surfaces : cached[x] # None => life[x] # "dead" /\ Held(x)
    <3>1. \A x : ~Freed(x)
      BY <1>7 DEF Freed
    <3> QED BY <3>1 DEF InOrder, HeldBack
  <2>3. \A x \in Surfaces : cached'[x] # None => life'[x] # "dead" /\ Held(x)'
    BY <1>5, <1>6, <1>8, <1>10, <2>1, <2>2
  <2>4. \A e \in Calls' : e.op \notin DesyncOps /\
           (e.op \in {"merge", "add"} => e.surface = s /\ e.tx = t)
    BY <1>4, <1>9 DEF DesyncOps
  <2>5. cached'[s] # t => ~Held(s)'
    BY <1>8, <1>10, <2>1
  <2> QED BY <2>3, <2>4, <2>5 DEF HeldBack
<1>20. Listed'
  <2>1. /\ \A p \in Surfaces : Lists(p, children[p]) => Lists(p, children[p])'
        /\ \A p \in Surfaces : Lists(p, current[p].children) => Lists(p, current[p].children)'
    BY <1>5 DEF Lists
  <2>2. \A u \in Transactions : \A i \in DOMAIN entries'[u] :
           \E v \in Transactions : \E k \in DOMAIN entries[v] :
              /\ entries'[u][i].surface = entries[v][k].surface
              /\ entries'[u][i].state.children = entries[v][k].state.children
    BY <1>5
  <2>3. \A e \in Calls' : e.op = "add" => Lists(e.surface, e.state.children)'
    <3>1. PICK C : C = children[s]
      OBVIOUS
    <3>2. Lists(s, C)'
      BY <1>5, <3>1 DEF InOrder, Listed, Lists
    <3>3. \A e \in Calls' : e.op = "add" => e.surface = s /\ e.state.children = C
      BY <1>4, <1>9, <3>1
    <3> QED BY <3>2, <3>3 DEF Lists
  <2> QED BY <1>5, <2>1, <2>2, <2>3, ListedKept DEF InOrder
<1>21. Modes'
  BY <1>5, <1>7 DEF Modes
<1> QED BY <1>15, <1>17, <1>18, <1>19, <1>20, <1>21 DEF InOrder

------------------------------------------------------------------------------
(* Who is being destroyed, and who is being mapped                          *)

\* The loops that destroy surfaces and those that map them.
LoopOps == {"destroyed", "updateMapped", "clearUnmapped"}

\* A step makes no new call of these loops; those that run get shorter.
Shorter(Ops) ==
    \A d \in Calls' : d.op \in Ops =>
       \E h \in Calls : h.op = d.op /\ d.todo \subseteq h.todo

LEMMA ShorterKept ==
    ASSUME TypeOK, NEW Ops, NEW cs, Replaced(stack, cs, stack'),
           \A k \in DOMAIN cs : cs[k].op \in Ops =>
              \E h \in Calls : h.op = cs[k].op /\ cs[k].todo \subseteq h.todo
    PROVE  Shorter(Ops)
<1>1. \A m \in DOMAIN stack : stack[m] \in Calls
  BY DEF Calls
<1> QED BY <1>1, CallsAfter DEF Shorter

LEMMA ShorterReturns ==
    ASSUME TypeOK, NEW Ops, stack # <<>>, NEW cs \in Seq(CallType), ReturnVia(cs),
           \A k \in DOMAIN cs : cs[k].op \notin Ops
    PROVE  Shorter(Ops)
<1>1. Replaced(stack, cs, stack')
  BY ReturnReplaces
<1> QED BY <1>1, ShorterKept

LEMMA ShorterVisits ==
    ASSUME QueueInv, NEW Ops, NEW op \in SurfaceCalls, Running(op), NEW s,
           NEW cs \in Seq(CallType), VisitVia(s, cs),
           \A k \in DOMAIN cs : cs[k].op \notin Ops
    PROVE  Shorter(Ops)
<1>1. PICK h : h = Head(stack)
  OBVIOUS
<1>2. TypeOK /\ stack # <<>> /\ h.op \in SurfaceCalls /\ h \in Calls
  BY <1>1, LoopFacts, CallPlaces
<1>3. PICK rest \in CallType : /\ rest.op = h.op /\ rest.todo = h.todo \ {s}
                               /\ Replaced(stack, cs \o <<rest>>, stack')
  BY <1>1, <1>2, VisitReplaces
<1>4. h.op = rest.op /\ rest.todo \subseteq h.todo
  BY <1>3
<1>5. PICK ds : ds = cs \o <<rest>>
  OBVIOUS
<1>6. \A k \in DOMAIN ds : ds[k] = rest \/ \E l \in DOMAIN cs : ds[k] = cs[l]
  <2>1. Len(cs) \in Nat /\ DOMAIN cs = 1..Len(cs) /\ <<rest>> \in Seq(CallType)
    BY LenProperties
  <2>2. /\ Len(ds) = Len(cs) + 1 /\ DOMAIN ds = 1..Len(ds)
        /\ \A k \in 1..Len(ds) : ds[k] = IF k <= Len(cs) THEN cs[k] ELSE rest
    BY <1>5, <2>1
  <2> QED BY <2>1, <2>2
<1>7. \A k \in DOMAIN ds : ds[k].op \in Ops =>
         \E e \in Calls : e.op = ds[k].op /\ ds[k].todo \subseteq e.todo
  BY <1>2, <1>4, <1>6
<1>8. Replaced(stack, ds, stack')
  BY <1>3, <1>5
<1> QED BY <1>2, <1>7, <1>8, ShorterKept

\* Of these calls the handlers make one: wl_surface.destroy destroys.
MapsNothing ==
    \A d \in Calls' :
       /\ d.op \notin LoopOps \ {"destroyed"}
       /\ d.op = "destroyed" => clientGone \/ d.todo \subseteq Destroyable

LEMMA HandlerLoops ==
    ASSUME Request \/ SomeFenceSignaled \/ SomeBarrierCleared, Reparented = {}
    PROVE  MapsNothing
<1>1. ASSUME NEW a, stack' = <<a>> PROVE Calls' = {a}
  <2>1. PICK cs : cs = stack'
    OBVIOUS
  <2>2. DOMAIN cs = {1} /\ cs[1] = a
    BY <1>1, <2>1, OneFrame
  <2> QED BY <2>1, <2>2 DEF Calls
<1>2. ASSUME NEW a, NEW b, stack' = <<a, b>> PROVE Calls' = {a, b}
  <2>1. PICK cs : cs = stack'
    OBVIOUS
  <2>2. DOMAIN cs = {1, 2} /\ cs[1] = a /\ cs[2] = b
    BY <1>2, <2>1, PlacesOfTwo
  <2> QED BY <2>1, <2>2 DEF Calls
<1>3. stack' = <<>> => Calls' = {}
  BY DEF Calls
<1>4. ASSUME NEW s \in Surfaces, NEW shape \in CommitShapes, SurfaceCommit(s, shape)
      PROVE  MapsNothing
  <2>1. PICK S : S = Synchronized(s)
    OBVIOUS
  <2>2. PICK t \in Transactions : \E m, d, c : Prepares(s, t, S, m, d, c)
    BY <1>4, <2>1, SurfaceCommitPrepares
  <2>3. PICK m, d, c : Prepares(s, t, S, m, d, c)
    BY <2>2
  <2>4. /\ stack' = <<m, d>> \/ stack' = <<m, d, c>>
        /\ m.op \notin LoopOps /\ d.op \notin LoopOps /\ c.op \notin LoopOps
    BY <2>3 DEF Prepares, LoopOps
  <2>5. stack' = <<m, d, c>> => Calls' = {m, d, c}
    <3>1. PICK cs : cs = <<m, d, c>>
      OBVIOUS
    <3>2. DOMAIN cs = {1, 2, 3} /\ cs[1] = m /\ cs[2] = d /\ cs[3] = c
      BY <3>1, PlacesOfThree
    <3> QED BY <3>1, <3>2 DEF Calls
  <2> QED BY <1>2, <2>4, <2>5 DEF MapsNothing, LoopOps
<1>5. ASSUME NEW s \in Surfaces, SetSync(s) PROVE MapsNothing
  BY <1>5 DEF SetSync, Idle, MapsNothing, Calls
<1>6. ASSUME NEW s \in Surfaces, SetDesync(s) PROVE MapsNothing
  <2>1. PICK a : a = OnSurfaces("parentDesynchronized", {s})
    OBVIOUS
  <2>2. a.op \notin LoopOps /\ (stack' = <<>> \/ stack' = <<a>>)
    BY <1>6, <2>1 DEF SetDesync, OnSurfaces, LoopOps
  <2> QED BY <1>1, <1>3, <2>2 DEF MapsNothing, LoopOps
<1>7. ASSUME NEW s \in Surfaces, \E p \in Surfaces : GetSubsurface(s, p)
      PROVE  FALSE
  BY <1>7 DEF GetSubsurface
<1>8. ASSUME NEW s \in Surfaces, DestroySurface(s) PROVE MapsNothing
  <2>1. PICK a, b : a = OnSurfaces("tryFirst", {s}) /\ b = OnSurfaces("destroyed", {s})
    OBVIOUS
  <2>2. /\ a.op \notin LoopOps /\ b.todo = {s} /\ stack' = <<a, b>>
        /\ clientGone \/ s \in Destroyable
    BY <1>8, <2>1 DEF DestroySurface, OnSurfaces, LoopOps
  <2>3. b.op = "destroyed"
    BY <2>1 DEF OnSurfaces
  <2> QED BY <1>2, <2>2, <2>3 DEF MapsNothing, LoopOps
<1>9. ASSUME NEW s \in Surfaces, ToggleRole(s) \/ ClearFifoBarrier(s) \/ DestroySubsurface(s)
      PROVE  MapsNothing
  <2>1. PICK a : a = OnSurfaces("tryFirst", {s})
    OBVIOUS
  <2>2. a.op \notin LoopOps /\ stack' = <<a>>
    BY <1>9, <2>1 DEF ToggleRole, ClearFifoBarrier, DestroySubsurface, OnSurfaces, LoopOps
  <2> QED BY <1>1, <2>2 DEF MapsNothing, LoopOps
<1>10. ASSUME NEW t \in Transactions, NEW i \in DOMAIN entries[t], FenceSignaled(t, i)
       PROVE  MapsNothing
  <2>1. PICK a : a = OnTx("tryApply", t)
    OBVIOUS
  <2>2. a.op \notin LoopOps /\ stack' = <<a>>
    BY <1>10, <2>1 DEF FenceSignaled, OnTx, LoopOps
  <2> QED BY <1>1, <2>2 DEF MapsNothing, LoopOps
<1>11. Disconnect => MapsNothing
  BY DEF Disconnect, Idle, MapsNothing, Calls
<1> QED BY <1>4, <1>5, <1>6, <1>7, <1>8, <1>9, <1>10, <1>11
        DEF Request, SomeFenceSignaled, SomeBarrierCleared

\* Of the functions only apply() and updateEffectiveMapped() call one to map.
LEMMA LoopsShorten ==
    ASSUME QueueInv, TypeOK', Call, NEW Ops, Ops \subseteq LoopOps \cup {"merge"},
           ApplyState \/ UpdateMapped => Ops \subseteq {"destroyed", "merge"}
    PROVE  Shorter(Ops)
<1>0. \A o \in Ops : o \in {"destroyed", "updateMapped", "clearUnmapped", "merge"}
  BY DEF LoopOps
<1>1. TypeOK /\ Nesting
  BY DEF QueueInv, Settled
<1>2. PICK none : none = <<>>
  OBVIOUS
<1>3. /\ none \in Seq(CallType) /\ DOMAIN none = {}
      /\ \A a \in CallType : <<a>> \in Seq(CallType) /\ DOMAIN <<a>> = {1} /\ <<a>>[1] = a
  BY <1>2, EmptySeq
<1>4. \A op : Running(op) => stack # <<>> /\ Head(stack) \in CallType /\ Head(stack).op = op
  BY <1>1, RunningCall
<1>5. ASSUME stack # <<>>, ReturnVia(<<>>) PROVE Shorter(Ops)
  BY <1>1, <1>2, <1>3, <1>5, ShorterReturns
<1>6. ASSUME NEW op \in SurfaceCalls, Running(op), NEW s, VisitVia(s, <<>>) PROVE Shorter(Ops)
  BY <1>2, <1>3, <1>6, ShorterVisits
<1>7. ASSUME NEW op \in SurfaceCalls, Running(op), NEW s, NEW a \in CallType,
             a.op \notin Ops, VisitVia(s, <<a>>)
      PROVE  Shorter(Ops)
  BY <1>3, <1>7, ShorterVisits
<1>8. \A op \in SurfaceCalls : Running(op) => Head(stack).todo \subseteq Surfaces
  BY LoopFacts
<1>9. \A s \in Surfaces : current[s].children \in SUBSET Surfaces
  BY <1>1 DEF TypeOK, StateType
<1>10. ASSUME LoopDone PROVE Shorter(Ops)
  BY <1>5, <1>10 DEF LoopDone
<1>11. ASSUME MergeChild PROVE Shorter(Ops)
  <2>1. stack # <<>> /\ (ReturnVia(<<>>) \/ UNCHANGED stack)
    BY <1>4, <1>11, Zenon DEF MergeChild
  <2> QED BY <1>5, <2>1 DEF Shorter, Calls
<1>12. ASSUME AddSurface PROVE Shorter(Ops)
  BY <1>4, <1>5, <1>12, Zenon DEF AddSurface
<1>13. ASSUME Commit PROVE Shorter(Ops)
  <2>1. PICK t \in Transactions : Replaced(stack, <<OnTx("tryApply", t)>>, stack')
    BY <1>13, CommitJoins
  <2>2. PICK a : a = OnTx("tryApply", t)
    OBVIOUS
  <2>3. a \in CallType /\ a.op = "tryApply"
    BY <2>2, CallsTyped DEF OnTx
  <2> QED BY <1>0, <1>1, <1>3, <2>1, <2>2, <2>3, ShorterKept
<1>14. ASSUME TryApply PROVE Shorter(Ops)
  <2>1. PICK t : t = Head(stack).tx
    OBVIOUS
  <2>2. CASE IsReady(t)
    <3>1. PICK a : a \in CallType /\ a.op = "applyStates" /\ Replaced(stack, <<a>>, stack')
      BY <1>14, <2>1, <2>2, TryApplyBegins
    <3> QED BY <1>0, <1>1, <1>3, <3>1, ShorterKept
  <2>3. CASE ~IsReady(t)
    <3>1. stack # <<>> /\ ReturnVia(<<>>)
      BY <1>4, <1>14, <2>1, <2>3, Zenon DEF TryApply
    <3> QED BY <1>5, <3>1
  <2> QED BY <2>2, <2>3
<1>15. ASSUME ApplyState PROVE Shorter(Ops)
  <2>1. PICK cs : /\ Replaced(stack, cs, stack') /\ QuietCalls(cs)
                  /\ \A k \in DOMAIN cs : cs[k].op \notin DesyncOps \cup {"destroyed"}
    BY <1>15, ApplyCallsMade
  <2>2. \A k \in DOMAIN cs : cs[k].op \notin Ops
    BY <1>15, <2>1 DEF QuietCalls, BuildOps
  <2> QED BY <1>1, <2>1, <2>2, ShorterKept
<1>16. ASSUME UpdateMapped PROVE Shorter(Ops)
  <2>1. Running("updateMapped") /\ "updateMapped" \in SurfaceCalls
    BY <1>16 DEF UpdateMapped, SurfaceCalls
  <2>2. PICK s \in Head(stack).todo :
           \/ VisitVia(s, <<>>)
           \/ VisitVia(s, <<OnSurfaces("updateMapped", current[s].children)>>)
    BY <1>16 DEF UpdateMapped
  <2>3. PICK a : a = OnSurfaces("updateMapped", current[s].children)
    OBVIOUS
  <2>4. a \in CallType /\ a.op \notin Ops
    <3>1. Ops \subseteq {"destroyed", "merge"}
      BY <1>16
    <3> QED BY <1>8, <1>9, <2>1, <2>3, <3>1, CallsTyped DEF OnSurfaces
  <2> QED BY <1>6, <1>7, <2>1, <2>2, <2>3, <2>4
<1>17. ASSUME ClearUnmapped PROVE Shorter(Ops)
  <2>1. Running("clearUnmapped") /\ "clearUnmapped" \in SurfaceCalls
    BY <1>17 DEF ClearUnmapped, SurfaceCalls
  <2>2. PICK s : VisitVia(s, <<>>)
    BY <1>17 DEF ClearUnmapped
  <2> QED BY <1>6, <2>1, <2>2
<1>18. ASSUME Unlink PROVE Shorter(Ops)
  <2>1. CASE Head(stack).index > Len(entries[Head(stack).tx])
    <3>1. stack # <<>> /\ ReturnVia(<<>>)
      BY <1>4, <1>18, <2>1, Zenon DEF Unlink
    <3> QED BY <1>5, <3>1
  <2>2. CASE ~(Head(stack).index > Len(entries[Head(stack).tx]))
    <3>1. PICK t, i, s, n, a, b, c, cs :
             /\ t = Head(stack).tx /\ i = Head(stack).index
             /\ s = entries[t][i].surface /\ n = entries[t][i].next
             /\ Leaves(t, i, s, n)
             /\ a = OnTx("tryApply", n) /\ b = OnSurfaces("tryChildren", {s})
             /\ c = OnEntry("unlink", t, i + 1)
             /\ Replaced(stack, cs, stack')
             /\ cs = IF n = None THEN <<b, c>> ELSE <<a, b, c>>
      BY <1>18, <2>2, UnlinkLeaves
    <3>2. /\ a = OnTx("tryApply", n) /\ b = OnSurfaces("tryChildren", {s})
          /\ c = OnEntry("unlink", t, i + 1)
          /\ Replaced(stack, cs, stack') /\ (cs = <<b, c>> \/ cs = <<a, b, c>>)
      BY <3>1, Zenon
    <3>3. a.op \notin Ops /\ b.op \notin Ops /\ c.op \notin Ops
      BY <1>0, <3>2 DEF OnTx, OnSurfaces, OnEntry
    <3>4. \A k \in DOMAIN cs : cs[k] \in {a, b, c}
      BY <3>2, TwoFrames, ThreeFrames
    <3>5. \A k \in DOMAIN cs : cs[k].op \notin Ops
      BY <1>0, <3>3, <3>4
    <3>6. Replaced(stack, cs, stack')
      BY <3>2
    <3> QED BY <1>1, <3>5, <3>6, ShorterKept
  <2> QED BY <2>1, <2>2
<1>19. ASSUME TryChildren PROVE Shorter(Ops)
  <2>1. Running("tryChildren") /\ "tryChildren" \in SurfaceCalls
    BY <1>19 DEF TryChildren, SurfaceCalls
  <2>2. PICK s \in Head(stack).todo :
           \/ VisitVia(s, <<>>)
           \/ VisitVia(s, <<OnSurfaces("tryFirst", current[s].children)>>)
    BY <1>19 DEF TryChildren
  <2>3. PICK a : a = OnSurfaces("tryFirst", current[s].children)
    OBVIOUS
  <2>4. a \in CallType /\ a.op \notin Ops
    BY <1>0, <1>8, <1>9, <2>1, <2>3, CallsTyped DEF OnSurfaces, SurfaceCalls
  <2> QED BY <1>6, <1>7, <2>1, <2>2, <2>3, <2>4
<1>20. ASSUME TryFirst PROVE Shorter(Ops)
  <2>1. Running("tryFirst") /\ "tryFirst" \in SurfaceCalls
    BY <1>20 DEF TryFirst, SurfaceCalls
  <2>2. PICK s \in Head(stack).todo : VisitVia(s, CallOnTx("tryApply", first[s]))
    BY <1>20 DEF TryFirst
  <2>3. PICK a : a = OnTx("tryApply", first[s])
    OBVIOUS
  <2>4. first[s] # None => a \in CallType /\ a.op \notin Ops
    <3>1. first[s] # None => first[s] \in Transactions
      BY <1>1, <1>8, <2>1 DEF TypeOK
    <3> QED BY <1>0, <2>3, <3>1, CallsTyped DEF OnTx
  <2>5. VisitVia(s, <<>>) \/ (first[s] # None /\ VisitVia(s, <<a>>))
    BY <2>2, <2>3 DEF CallOnTx
  <2> QED BY <1>6, <1>7, <2>1, <2>4, <2>5
<1>21. ASSUME ParentDesynchronized PROVE Shorter(Ops)
  <2>1. Running("parentDesynchronized") /\ "parentDesynchronized" \in SurfaceCalls
    BY <1>21 DEF ParentDesynchronized, SurfaceCalls
  <2>2. PICK s \in Head(stack).todo :
           \/ VisitVia(s, <<>>)
           \/ VisitVia(s, (IF cached[s] = None THEN <<>>
                           ELSE <<OnTx("commit", cached[s])>>)
                          \o <<OnSurfaces("desynchronizeChildren", {s})>>)
    BY <1>21 DEF ParentDesynchronized
  <2>3. PICK a, b : a = OnTx("commit", cached[s]) /\ b = OnSurfaces("desynchronizeChildren", {s})
    OBVIOUS
  <2>4. s \in Surfaces /\ b \in CallType /\ b.op \notin Ops
    BY <1>0, <1>8, <2>1, <2>3, CallsTyped DEF OnSurfaces, SurfaceCalls
  <2>5. cached[s] # None => a \in CallType /\ a.op \notin Ops
    <3>1. cached[s] # None => cached[s] \in Transactions
      BY <1>1, <2>4 DEF TypeOK
    <3> QED BY <1>0, <2>3, <3>1, CallsTyped DEF OnTx
  <2>6. <<>> \o <<b>> = <<b>>
    BY <2>4
  <2>7. \/ VisitVia(s, <<>>) \/ VisitVia(s, <<b>>)
        \/ cached[s] # None /\ VisitVia(s, <<a>> \o <<b>>)
    BY <2>2, <2>3, <2>6
  <2>8. ASSUME cached[s] # None, VisitVia(s, <<a>> \o <<b>>) PROVE Shorter(Ops)
    <3>1. PICK cs : cs = <<a>> \o <<b>>
      OBVIOUS
    <3>2. cs = <<a, b>> /\ cs \in Seq(CallType)
      <4>1. cs = <<a, b>>
        BY <3>1, OneThenOne
      <4>2. a \in CallType /\ b \in CallType
        BY <2>4, <2>5, <2>8
      <4> QED BY <4>1, <4>2
    <3>3. \A k \in DOMAIN cs : cs[k] \in {a, b}
      BY <3>2, PlacesOfTwo
    <3> QED BY <2>1, <2>4, <2>5, <2>8, <3>1, <3>2, <3>3, ShorterVisits
  <2> QED BY <1>6, <1>7, <2>1, <2>4, <2>7, <2>8
<1>22. ASSUME DesynchronizeChildren PROVE Shorter(Ops)
  <2>1. Running("desynchronizeChildren") /\ "desynchronizeChildren" \in SurfaceCalls
    BY <1>22 DEF DesynchronizeChildren, SurfaceCalls
  <2>2. PICK s \in Head(stack).todo :
           VisitVia(s, <<OnSurfaces("parentDesynchronized", current[s].children)>>)
    BY <1>22 DEF DesynchronizeChildren
  <2>3. PICK a : a = OnSurfaces("parentDesynchronized", current[s].children)
    OBVIOUS
  <2>4. a \in CallType /\ a.op \notin Ops
    BY <1>0, <1>8, <1>9, <2>1, <2>3, CallsTyped DEF OnSurfaces, SurfaceCalls
  <2> QED BY <1>7, <2>1, <2>2, <2>3, <2>4
<1>23. ASSUME LinkSubsurface PROVE FALSE
  <2>1. stack # <<>> /\ Head(stack).op = "addChild"
    BY <1>4, <1>23 DEF LinkSubsurface
  <2> QED BY <1>1, <2>1, CallPlaces DEF Nesting, NestedIn
<1>24. ASSUME Destroyed PROVE Shorter(Ops)
  <2>1. Running("destroyed") /\ "destroyed" \in SurfaceCalls
    BY <1>24 DEF Destroyed, SurfaceCalls
  <2>2. PICK s : VisitVia(s, <<>>)
    BY <1>24 DEF Destroyed
  <2> QED BY <1>6, <2>1, <2>2
<1> QED BY <1>10, <1>11, <1>12, <1>13, <1>14, <1>15, <1>16, <1>17, <1>18, <1>19, <1>20,
           <1>21, <1>22, <1>23, <1>24 DEF Call

------------------------------------------------------------------------------
(* The end of a surface                                                     *)

\* The lists of the surfaces lose what has been destroyed, and nothing else.
LEMMA LeavesLists ==
    ASSUME TypeOK, Listed, NEW s \in Surfaces, LeavesTree(s), life'[s] = "dead",
           \A x \in Surfaces : x = s \/ life'[x] = life[x],
           \A d \in Calls' : d.op # "add"
    PROVE  Listed'
<1>1. ASSUME NEW p \in Surfaces, NEW A, NEW B, Loses(A, B, s), Lists(p, A)
      PROVE  \A c \in Surfaces :
                InitialParent[c] = p /\ life'[c] # "dead" /\ life'[p] # "dead" => c \in B
  BY <1>1 DEF Loses, Lists
<1>2. \A x \in Surfaces : life'[x] # "dead" => life[x] # "dead"
  OBVIOUS
<1>3. \A p \in Surfaces : Lists(p, children[p]) => Lists(p, children[p])'
  BY <1>1 DEF LeavesTree, Lists
<1>4. \A p \in Surfaces : Lists(p, current[p].children) => Lists(p, current[p].children)'
  <2> SUFFICES ASSUME NEW p \in Surfaces, Lists(p, current[p].children)
               PROVE  Lists(p, current[p].children)'
    OBVIOUS
  <2>1. PICK A, B : A = current[p].children /\ B = current'[p].children
    OBVIOUS
  <2>2. Loses(A, B, s) /\ Lists(p, A)
    BY <2>1 DEF LeavesTree
  <2> QED BY <1>1, <2>1, <2>2 DEF Lists
<1>5. ASSUME NEW t \in Transactions, NEW i \in DOMAIN entries'[t]
      PROVE  Lists(entries[t][i].surface, entries[t][i].state.children)'
  <2>1. t # cached[s] /\ i \in DOMAIN entries[t]
    BY <1>5 DEF LeavesTree
  <2>2. PICK p \in Surfaces : p = entries[t][i].surface
    BY <2>1, EntryFields
  <2>3. PICK A, B : A = entries[t][i].state.children /\ B = entries'[t][i].state.children
    OBVIOUS
  <2>4. entries'[t][i].surface = p /\ Loses(A, B, s)
    BY <2>1, <2>2, <2>3 DEF LeavesTree
  <2>5. Lists(p, A)
    BY <2>1, <2>2, <2>3 DEF Listed, EntriesOf
  <2> QED BY <1>1, <2>3, <2>4, <2>5 DEF Lists
<1>6. \A t \in Transactions : \A i \in DOMAIN entries'[t] :
         Lists(entries[t][i].surface, entries[t][i].state.children)'
  BY <1>5
<1> QED BY <1>2, <1>3, <1>4, <1>6, ListedKept

LEMMA DestroyedInOrder ==
    ASSUME QueueInv, TypeOK', InOrder, Going, Destroyed
    PROVE  InOrder'
<1>1. TypeOK /\ Settled /\ Nesting /\ Running("destroyed")
  BY DEF QueueInv, Settled, Destroyed
<1>2. PICK s \in Head(stack).todo :
         /\ Unlinked(s)
         /\ parent' = [c \in Surfaces |-> IF c = s \/ parent[c] = s THEN None ELSE parent[c]]
         /\ life' = [life EXCEPT ![s] = "dead"]
         /\ first' = [first EXCEPT ![s] = None]
         /\ last' = [last EXCEPT ![s] = None]
         /\ VisitVia(s, <<>>)
  BY DEF Destroyed
<1>3. UNCHANGED <<mode, commits>>
  BY DEF Destroyed, history
<1>4. /\ stack # <<>> /\ Head(stack).op = "destroyed" /\ Head(stack) \in Calls
      /\ Head(stack).todo \subseteq Surfaces /\ Head(stack).op \in SurfaceCalls
  <2>1. "destroyed" \in SurfaceCalls
    BY DEF SurfaceCalls
  <2> QED BY <1>1, <2>1, LoopFacts, CallPlaces
<1>5. s \in Surfaces /\ s \in Destroyable
  BY <1>2, <1>4 DEF Going
<1>6. LeavesTree(s)
  BY <1>1, <1>2, <1>5, UnlinkedFacts
<1>7. PICK rest \in CallType : /\ rest.op = Head(stack).op
                               /\ rest.todo = Head(stack).todo \ {s}
                               /\ Replaced(stack, <<>> \o <<rest>>, stack')
  <2>1. <<>> \in Seq(CallType)
    BY EmptySeq
  <2> QED BY <1>1, <1>2, <1>4, <2>1, VisitReplaces
<1>8. <<>> \o <<rest>> = <<rest>>
  OBVIOUS
<1>9. PICK cs : cs = <<rest>>
  OBVIOUS
<1>10. Replaced(stack, cs, stack')
  BY <1>7, <1>8, <1>9
<1>11. DOMAIN cs = {1} /\ cs[1] = rest /\ rest.op = "destroyed"
  BY <1>4, <1>7, <1>9, OneFrame
<1>12. /\ life'[s] = "dead"
       /\ \A x \in Surfaces : x # s => /\ life'[x] = life[x]
                                       /\ first'[x] = first[x] /\ last'[x] = last[x]
       /\ \A x \in Surfaces : parent'[x] # None => parent'[x] = parent[x] /\ parent[x] # s
  BY <1>1, <1>2, <1>5 DEF TypeOK
<1> HIDE DEF Replaced
\* Nothing is being built.
<1>13. \A d \in Calls : d.op \notin BuildOps
  BY <1>1, <1>4, NoneBuiltYet
<1>14. QuietCalls(cs)
  BY <1>4, <1>11 DEF QuietCalls, BuildOps
<1>15. \A d \in Calls' : d.op \notin BuildOps
  BY <1>1, <1>10, <1>13, <1>14, QuietCallsKept
<1>16. \A d : d.op \in DesyncOps => (d \in Calls' <=> d \in Calls)
  <2>1. Head(stack).op \notin DesyncOps /\ \A k \in DOMAIN cs : cs[k].op \notin DesyncOps
    BY <1>4, <1>11 DEF DesyncOps
  <2> QED BY <1>1, <1>10, <2>1, OtherCallsKept
\* No commit is carried that was not.
<1>17. NothingNew
  <2>1. ASSUME NEW t \in Transactions
        PROVE  \A x : Contents(t, x)' \subseteq Contents(t, x)
    <3>1. \A i \in DOMAIN entries'[t] : \E k \in DOMAIN entries[t] :
             /\ entries'[t][i].surface = entries[t][k].surface
             /\ entries'[t][i].state.content = entries[t][k].state.content
      BY <1>6 DEF LeavesTree
    <3> QED BY <3>1, FewerContents
  <2>2. \A x \in Surfaces : life'[x] = "live" => life[x] = "live"
    BY <1>12
  <2>3. \A x \in Surfaces : current'[x].content = current[x].content
    BY <1>6 DEF LeavesTree
  <2> QED BY <2>1, <2>2, <2>3 DEF NothingNew, NoneCarried
<1>18. Numbered'
  <2>1. \A d \in Calls' : d.op # "add"
    BY <1>15 DEF BuildOps
  <2> QED BY <1>3, <1>17, <2>1, NumberedKept DEF InOrder
<1>19. \A x \in Surfaces : cached'[x] \in {cached[x], None} /\ (x = s => cached'[x] = None)
  BY <1>6 DEF LeavesTree
<1>20. PreparedInOrder' /\ \A t \in Transactions : Prepared(t)' => Prepared(t)
  <2>1. \A d \in Calls' : d.op = "commit" => d \in Calls
    BY <1>15 DEF BuildOps
  <2> QED BY <1>1, <1>17, <1>19, <2>1, PreparedInOrderKept DEF InOrder, NothingNew
<1>21. QueuesInOrder'
  <2>1. ASSUME NEW t \in Transactions, NEW u \in Transactions, NEW x \in Surfaces,
               Behind(t, u, x)'
        PROVE  Behind(t, u, x)
    <3>1. /\ u # cached[s] /\ status'[u] = status[u]
          /\ DOMAIN entries'[u] = DOMAIN entries[u]
          /\ \A i \in DOMAIN entries[u] :
                /\ entries'[u][i].surface = entries[u][i].surface
                /\ entries'[u][i].next = entries[u][i].next
      BY <1>6, <2>1 DEF Behind, Committed, LeavesTree
    <3>2. Left(u)' = Left(u)
      BY <1>1, <1>10, <1>14, <3>1, LeftKept
    <3>3. Left(u) \subseteq DOMAIN entries[u]
      BY DEF Left
    <3> QED BY <2>1, <3>1, <3>2, <3>3 DEF Behind, Committed
  <2>2. \A x \in Surfaces : first[x] \in Transactions \cup {None}
                              /\ last[x] \in Transactions \cup {None}
    BY <1>1 DEF TypeOK
  <2>3. \A x \in Surfaces : life'[x] = "live" => first'[x] = first[x] /\ last'[x] = last[x]
    BY <1>12
  <2> QED BY <1>17, <1>20, <2>1, <2>2, <2>3, QueuesInOrderKept DEF InOrder
\* What is still cached is not of s.
<1>22. HeldBack'
  <2>1. \A x : Held(x)' <=> Held(x)
    BY <1>3 DEF Held
  <2>2. \A x : Freed(x)' <=> Freed(x)
    BY <1>16 DEF Freed, DesyncOps
  <2>3. ASSUME NEW x \in Surfaces, cached'[x] # None
        PROVE  life'[x] # "dead" /\ (Held(x)' \/ Freed(x)')
    BY <1>12, <1>19, <2>1, <2>2, <2>3 DEF InOrder, HeldBack
  <2>4. \A d \in Calls' : d.op \notin {"merge", "add"}
    BY <1>15 DEF BuildOps
  <2>5. ASSUME NEW d \in Calls', d.op \in DesyncOps, NEW y \in d.todo
        PROVE  /\ d.op = "parentDesynchronized" => InitialParent[y] # None
               /\ \A a \in Surfaces :
                     y \in Below(a) \/ (d.op = "desynchronizeChildren" /\ y = a)
                        => cached'[a] = None
    BY <1>16, <1>19, <2>5 DEF InOrder, HeldBack
  <2> QED BY <2>3, <2>4, <2>5 DEF HeldBack
<1>23. Listed'
  <2>1. \A d \in Calls' : d.op # "add"
    BY <1>15 DEF BuildOps
  <2> QED BY <1>1, <1>5, <1>6, <1>12, <2>1, LeavesLists DEF InOrder
<1>24. Modes'
  <2>1. \A x \in Surfaces : sub'[x] = IF x = s THEN FALSE ELSE sub[x]
    BY <1>6 DEF LeavesTree
  <2> SUFFICES ASSUME NEW x \in Surfaces
               PROVE  /\ x \notin Desyncers => mode'[x] = "sync"
                      /\ sub'[x] => InitialParent[x] # None /\ life'[x] # "dead"
                      /\ life'[x] # "dead" /\ InitialParent[x] # None => sub'[x]
                      /\ parent'[x] # None => life'[parent'[x]] # "dead"
                      /\ life'[x] # "live" => x \in Destroyable
    BY DEF Modes
  <2>2. x \notin Desyncers => mode'[x] = "sync"
    BY <1>3 DEF InOrder, Modes
  <2>5. /\ sub[x] => InitialParent[x] # None /\ life[x] # "dead"
        /\ life[x] # "dead" /\ InitialParent[x] # None => sub[x]
        /\ life[x] # "live" => x \in Destroyable
    BY DEF InOrder, Modes
  <2>3. /\ sub'[x] => InitialParent[x] # None /\ life'[x] # "dead"
        /\ life'[x] # "dead" /\ InitialParent[x] # None => sub'[x]
        /\ life'[x] # "live" => x \in Destroyable
    <3>1. CASE x = s
      BY <1>5, <1>12, <2>1, <2>5, <3>1
    <3>2. CASE x # s
      BY <1>5, <1>12, <2>1, <2>5, <3>2
    <3> QED BY <3>1, <3>2
  <2>4. parent'[x] # None => life'[parent'[x]] # "dead"
    <3>1. parent[x] \in Surfaces \cup {None}
      BY <1>1 DEF TypeOK
    <3>2. parent[x] # None => life[parent[x]] # "dead"
      BY DEF InOrder, Modes
    <3>3. ASSUME parent'[x] # None PROVE parent'[x] = parent[x] /\ parent[x] # s
      BY <1>12, <3>3
    <3>4. ASSUME parent'[x] # None PROVE life'[parent[x]] = life[parent[x]]
      BY <1>12, <3>1, <3>3, <3>4
    <3> QED BY <3>2, <3>3, <3>4
  <2> QED BY <2>2, <2>3, <2>4
<1> QED BY <1>18, <1>20, <1>21, <1>22, <1>23, <1>24 DEF InOrder

------------------------------------------------------------------------------
(* The order in which a surface shows its commits                           *)

\* Only apply() gives a surface another commit to show, and not for a client
\* that is gone.
LEMMA ContentKept ==
    ASSUME Reparented = {}, QueueInv, Next, ApplyState => clientGone
    PROVE  \A s \in Surfaces : current'[s].content = current[s].content
<1>1. TypeOK /\ Nesting
  BY DEF QueueInv, Settled
<1>2. ASSUME UNCHANGED current
      PROVE  \A s \in Surfaces : current'[s].content = current[s].content
  BY <1>2
<1>3. ASSUME NEW s \in Surfaces, Unlinked(s)
      PROVE  \A x \in Surfaces : current'[x].content = current[x].content
  BY <1>1, <1>3, UnlinkedFacts DEF LeavesTree
<1>4. CASE Request
  <2>1. ASSUME NEW s \in Surfaces, NEW shape, SurfaceCommit(s, shape)
        PROVE  UNCHANGED current
    <3>1. UNCHANGED shown
      BY <2>1, Zenon DEF SurfaceCommit
    <3> QED BY <3>1 DEF shown
  <2>2. ASSUME NEW s \in Surfaces, SetSync(s) \/ SetDesync(s)
        PROVE  UNCHANGED current
    BY <2>2, Zenon DEF SetSync, SetDesync, shown
  <2>3. ASSUME NEW s \in Surfaces, DestroySurface(s) \/ ToggleRole(s)
        PROVE  UNCHANGED current
    BY <2>3, Zenon DEF DestroySurface, ToggleRole, shown
  <2>4. ASSUME NEW s \in Surfaces, NEW p \in Surfaces, GetSubsurface(s, p)
        PROVE  FALSE
    BY <2>4 DEF GetSubsurface
  <2>5. ASSUME NEW s \in Surfaces, DestroySubsurface(s)
        PROVE  Unlinked(s)
    BY <2>5, Zenon DEF DestroySubsurface
  <2>6. Disconnect => UNCHANGED current
    BY DEF Disconnect, shown
  <2> QED BY <1>2, <1>3, <1>4, <2>1, <2>2, <2>3, <2>4, <2>5, <2>6, Zenon DEF Request
<1>5. CASE Call
  <2>1. ASSUME LoopDone \/ MergeChild \/ AddSurface \/ Commit PROVE UNCHANGED current
    BY <2>1, Zenon DEF LoopDone, MergeChild, AddSurface, Commit, shown
  <2>2. ASSUME TryApply \/ Unlink \/ TryChildren \/ TryFirst PROVE UNCHANGED current
    BY <2>2, Zenon DEF TryApply, Unlink, TryChildren, TryFirst, shown
  <2>3. ASSUME UpdateMapped \/ ParentDesynchronized \/ DesynchronizeChildren
        PROVE  UNCHANGED current
    BY <2>3, Zenon DEF UpdateMapped, ParentDesynchronized, DesynchronizeChildren, shown
  \* Every entry of a client that is gone is discarded.
  <2>4. ASSUME ApplyState PROVE UNCHANGED current
    <3>1. clientGone
      BY <2>4
    <3>2. \A e : Discarded(e)
      BY <3>1 DEF Discarded
    <3> QED BY <2>4, <3>2, Zenon DEF ApplyState
  <2>5. ASSUME ClearUnmapped
        PROVE  \A s \in Surfaces : current'[s].content = current[s].content
    <3>1. PICK s \in Head(stack).todo :
             current' = [c \in Surfaces |->
                IF ~mapped[s] /\ c \in {s} \cup current[s].children
                THEN [current[c] EXCEPT !.barrier = FALSE] ELSE current[c]]
      BY <2>5 DEF ClearUnmapped
    <3> SUFFICES ASSUME NEW c \in Surfaces
                 PROVE  current'[c].content = current[c].content
      OBVIOUS
    <3>2. PICK f : f = [current[c] EXCEPT !.barrier = FALSE]
      OBVIOUS
    <3>3. current[c] \in StateType
      BY <1>1 DEF TypeOK
    <3>4. f.content = current[c].content
      BY <3>2, <3>3 DEF StateType
    <3>5. current'[c] \in {current[c], f}
      BY <3>1, <3>2
    <3> QED BY <3>4, <3>5
  <2>6. ASSUME LinkSubsurface PROVE FALSE
    <3>1. stack # <<>> /\ Head(stack).op = "addChild"
      BY <1>1, <2>6, RunningCall DEF LinkSubsurface
    <3> QED BY <1>1, <3>1, CallPlaces DEF Nesting, NestedIn
  <2>7. ASSUME Destroyed PROVE \E s \in Surfaces : Unlinked(s)
    <3>1. PICK s \in Head(stack).todo : Unlinked(s)
      BY <2>7, Zenon DEF Destroyed
    <3>2. Running("destroyed") /\ "destroyed" \in SurfaceCalls
      BY <2>7 DEF Destroyed, SurfaceCalls
    <3>3. Head(stack).todo \subseteq Surfaces
      BY <1>1, <3>2, LoopFacts
    <3> QED BY <3>1, <3>3
  <2> QED BY <1>2, <1>3, <1>5, <2>1, <2>2, <2>3, <2>4, <2>5, <2>6, <2>7, Zenon DEF Call
<1>6. CASE SomeFenceSignaled
  BY <1>2, <1>6, Zenon DEF SomeFenceSignaled, FenceSignaled, shown
<1>7. CASE SomeBarrierCleared
  <2>1. PICK s \in Surfaces : current' = [current EXCEPT ![s].barrier = FALSE]
    BY <1>7 DEF SomeBarrierCleared, ClearFifoBarrier
  <2> SUFFICES ASSUME NEW c \in Surfaces
               PROVE  current'[c].content = current[c].content
    OBVIOUS
  <2>2. current \in [Surfaces -> StateType] /\ current[c] \in StateType
    BY <1>1 DEF TypeOK
  <2> QED BY <2>1, <2>2 DEF StateType
<1> QED BY <1>4, <1>5, <1>6, <1>7 DEF Next

LEMMA InitInOrder ==
    Init => OrderInv
<1> SUFFICES ASSUME Init PROVE InOrder /\ Going
  BY DEF OrderInv
<1> USE ConstantsAssumption
<1>1. TypeOK
  BY InitTyped
<1>2. Calls = {}
  <2>1. stack = <<>>
    BY DEF Init
  <2>2. DOMAIN stack = {}
    BY <2>1
  <2> QED BY <2>2 DEF Calls
<1>3. \A t \in Transactions : status[t] = "free" /\ DOMAIN entries[t] = {}
  <2>1. \A t \in Transactions : status[t] = "free" /\ entries[t] = <<>>
    BY DEF Init
  <2> QED BY <2>1
<1>4. /\ \A t \in Transactions : \A s : Contents(t, s) = {}
      /\ \A t \in Transactions : ~Prepared(t)
      /\ \A t, u \in Transactions : \A s : ~Behind(t, u, s)
  <2>1. \A s \in Surfaces : cached[s] = None
    BY DEF Init
  <2> QED BY <1>2, <1>3, <2>1 DEF Contents, EntriesOf, Prepared, Behind, Committed
<1>5. \A s \in Surfaces : /\ first[s] = None /\ last[s] = None /\ cached[s] = None
                          /\ life[s] = "live" /\ mode[s] = "sync"
                          /\ sub[s] = (InitialParent[s] # None)
                          /\ parent[s] = InitialParent[s]
                          /\ commits[s] = 0
  BY DEF Init
<1>6. ASSUME NEW s \in Surfaces
      PROVE  /\ children[s] = {c \in Surfaces : InitialParent[c] = s}
             /\ current[s].children = {c \in Surfaces : InitialParent[c] = s}
             /\ current[s].content = 0
  <2> DEFINE kids == [p \in Surfaces |-> {c \in Surfaces : InitialParent[c] = p}]
  <2>1. /\ children = kids
        /\ current = [x \in Surfaces |->
              [content |-> 0, buffer |-> "detach", barrier |-> FALSE,
               wait |-> FALSE, generation |-> 0, children |-> kids[x]]]
    BY DEF Init
  <2> QED BY <2>1
<1>7. Numbered
  BY <1>2, <1>4, <1>5, <1>6 DEF Numbered
<1>8. QueuesInOrder
  BY <1>4, <1>5 DEF QueuesInOrder
<1>9. PreparedInOrder
  BY <1>2, <1>5 DEF PreparedInOrder
<1>10. HeldBack
  BY <1>2, <1>5 DEF HeldBack
<1>11. Listed
  BY <1>2, <1>3, <1>6 DEF Listed, Lists, EntriesOf
<1>12. Modes
  <2>1. \A s \in Surfaces : parent[s] # None => parent[s] \in Surfaces
    BY <1>1 DEF TypeOK
  <2> QED BY <1>5, <2>1 DEF Modes
<1>13. Going
  BY <1>2 DEF Going
<1> QED BY <1>7, <1>8, <1>9, <1>10, <1>11, <1>12, <1>13 DEF InOrder

LEMMA StaysGone ==
    ASSUME Next, clientGone
    PROVE  clientGone'
<1>1. \A s \in Surfaces : \A shape : SurfaceCommit(s, shape) => ~clientGone
  BY Zenon DEF SurfaceCommit
<1>2. Request => clientGone'
  BY <1>1, Zenon DEF Request, SetSync, SetDesync, GetSubsurface,
     DestroySubsurface, DestroySurface, ToggleRole, Disconnect
<1>3. Call => clientGone'
  BY Zenon DEF Call, LoopDone, MergeChild, AddSurface, Commit, TryApply, ApplyState,
     UpdateMapped, ClearUnmapped, Unlink, TryChildren, TryFirst,
     ParentDesynchronized, DesynchronizeChildren, LinkSubsurface, Destroyed
<1>4. SomeFenceSignaled \/ SomeBarrierCleared => clientGone'
  BY Zenon DEF SomeFenceSignaled, FenceSignaled, SomeBarrierCleared, ClearFifoBarrier
<1> QED BY <1>2, <1>3, <1>4 DEF Next

LEMMA NextInOrder ==
    ASSUME Reparented = {}, KeepsParents, QueueInv, OrderInv, Next
    PROVE  OrderInv' /\ \A s \in Surfaces : current'[s].content >= current[s].content
<1>1. TypeOK /\ TypeOK'
  BY NextTyped DEF QueueInv, Settled
<1>2. ASSUME \A s \in Surfaces : current'[s].content = current[s].content
      PROVE  \A s \in Surfaces : current'[s].content >= current[s].content
  <2>1. \A s \in Surfaces : current[s].content \in Nat
    BY <1>1 DEF TypeOK, StateType
  <2> QED BY <1>2, <2>1
<1>3. CASE clientGone
  <2>1. clientGone'
    BY <1>3, StaysGone
  <2> QED BY <1>2, <1>3, <2>1, ContentKept DEF OrderInv
<1>4. CASE ~clientGone
  <2>0. InOrder /\ Going
    BY <1>4 DEF OrderInv
  <2>1. CASE Request
    <3>1. Going'
      BY <1>4, <2>1, HandlerLoops DEF MapsNothing, Going
    <3>2. InOrder' \/ clientGone'
      <4>1. ASSUME NEW s \in Surfaces, NEW shape \in CommitShapes, SurfaceCommit(s, shape)
            PROVE  InOrder'
        BY <1>1, <2>0, <4>1, SurfaceCommitInOrder
      <4>2. ASSUME NEW s \in Surfaces, SetSync(s) \/ SetDesync(s) PROVE InOrder'
        BY <1>1, <1>4, <2>0, <4>2, SetSyncInOrder, SetDesyncInOrder
      <4>3. ASSUME NEW s \in Surfaces, DestroySurface(s) \/ ToggleRole(s) PROVE InOrder'
        BY <1>1, <1>4, <2>0, <4>3, DestroySurfaceInOrder, ToggleRoleInOrder
      <4>4. ASSUME NEW s \in Surfaces, DestroySubsurface(s) \/ \E p \in Surfaces : GetSubsurface(s, p)
            PROVE  FALSE
        BY <1>4, <4>4 DEF DestroySubsurface, GetSubsurface
      <4>5. Disconnect => clientGone'
        BY DEF Disconnect
      <4> QED BY <2>1, <4>1, <4>2, <4>3, <4>4, <4>5, Zenon DEF Request
    <3>3. ~ApplyState
      <4>1. Idle \/ ~Request
        BY Zenon DEF Request, SurfaceCommit, SetSync, SetDesync, GetSubsurface,
           DestroySubsurface, DestroySurface, ToggleRole, Disconnect
      <4> QED BY <2>1, <4>1 DEF ApplyState, Running, Idle
    <3> QED BY <1>2, <3>1, <3>2, <3>3, ContentKept DEF OrderInv
  <2>2. CASE Call
    <3>1. Going'
      <4>1. PICK Ops : Ops = {"destroyed"}
        OBVIOUS
      <4>2. Shorter(Ops)
        BY <1>1, <2>2, <4>1, LoopsShorten DEF LoopOps
      <4> QED BY <2>0, <4>1, <4>2 DEF Shorter, Going
    <3>2. CASE ApplyState
      BY <1>1, <2>0, <3>1, <3>2, ApplyStateInOrder DEF OrderInv
    <3>3. CASE ~ApplyState
      <4>1. InOrder'
        <5>1. ~LinkSubsurface
          <6>1. ASSUME LinkSubsurface PROVE FALSE
            <7>1. Nesting /\ stack # <<>> /\ Head(stack).op = "addChild"
              BY <1>1, <6>1, RunningCall DEF LinkSubsurface, QueueInv, Settled
            <7> QED BY <1>1, <7>1, CallPlaces DEF Nesting, NestedIn
          <6> QED BY <6>1
        <5>2. Unlink => InOrder'
          BY <1>1, <2>0, UnlinkEndInOrder, UnlinkEntryInOrder
        <5> QED BY <1>1, <2>0, <2>2, <3>3, <5>1, <5>2, LoopDoneInOrder, MergeChildInOrder,
                   AddSurfaceInOrder, CommitInOrder, TryApplyInOrder, UpdateMappedInOrder,
                   ClearUnmappedInOrder, TryLoopsInOrder, ParentDesynchronizedInOrder,
                   DesynchronizeChildrenInOrder, DestroyedInOrder
                DEF Call
      <4> QED BY <1>2, <3>1, <3>3, <4>1, ContentKept DEF OrderInv
    <3> QED BY <3>2, <3>3
  <2>3. CASE SomeFenceSignaled \/ SomeBarrierCleared
    <3>1. Going'
      BY <1>4, <2>3, HandlerLoops DEF MapsNothing, Going
    <3>2. InOrder'
      <4>1. CASE SomeFenceSignaled
        BY <1>1, <2>0, <4>1, FenceSignaledInOrder DEF SomeFenceSignaled
      <4>2. CASE SomeBarrierCleared
        BY <1>1, <2>0, <4>2, ClearFifoBarrierInOrder DEF SomeBarrierCleared
      <4> QED BY <2>3, <4>1, <4>2
    <3>3. ~ApplyState
      <4>1. Idle
        BY <2>3, Zenon DEF SomeFenceSignaled, FenceSignaled, SomeBarrierCleared,
           ClearFifoBarrier, EventLoop
      <4> QED BY <4>1 DEF ApplyState, Running, Idle
    <3> QED BY <1>2, <3>1, <3>2, <3>3, ContentKept DEF OrderInv
  <2> QED BY <2>1, <2>2, <2>3 DEF Next
<1> QED BY <1>3, <1>4

LEMMA StutterInOrder ==
    ASSUME OrderInv, UNCHANGED vars
    PROVE  OrderInv'
<1>1. UNCHANGED <<life, clientGone, sub, parent, mode, children, cached, first, last,
                  current, status, entries, commits, stack>>
  BY DEF vars, tree, queue, shown, history
<1>2. Calls' = Calls /\ \A t : Left(t)' = Left(t)
  BY <1>1 DEF Calls, Left
<1>3. /\ \A t, s : Contents(t, s)' = Contents(t, s) /\ EntriesOf(t, s)' = EntriesOf(t, s)
      /\ \A t : Prepared(t)' <=> Prepared(t)
      /\ \A t, u, s : Behind(t, u, s)' <=> Behind(t, u, s)
      /\ \A x : (Held(x)' <=> Held(x)) /\ (Freed(x)' <=> Freed(x))
      /\ \A p, C : Lists(p, C)' <=> Lists(p, C)
  BY <1>1, <1>2 DEF Contents, EntriesOf, Prepared, Behind, Committed, Held, Freed, Lists
<1>4. \A s : Newest(s)' = Newest(s)
  BY <1>1, <1>3 DEF Newest
<1>5. Numbered => Numbered'
  BY <1>1, <1>2, <1>3 DEF Numbered
<1>6. QueuesInOrder => QueuesInOrder'
  BY <1>1, <1>3, <1>4 DEF QueuesInOrder
<1>7. PreparedInOrder => PreparedInOrder'
  BY <1>1, <1>2, <1>3 DEF PreparedInOrder
<1>8. HeldBack => HeldBack'
  BY <1>1, <1>2, <1>3 DEF HeldBack
<1>9. Listed => Listed'
  BY <1>1, <1>2, <1>3 DEF Listed
<1>10. Modes => Modes'
  BY <1>1 DEF Modes
<1>11. Going => Going'
  BY <1>2 DEF Going
<1> QED BY <1>1, <1>5, <1>6, <1>7, <1>8, <1>9, <1>10, <1>11 DEF OrderInv, InOrder

LEMMA OrderInvHolds ==
    ASSUME Reparented = {}, KeepsParents
    PROVE  Spec => [](QueueInv /\ OrderInv)
<1>1. Init => QueueInv /\ OrderInv
  BY InitKeeps, InitInOrder
<1>2. QueueInv /\ OrderInv /\ [Next]_vars => (QueueInv /\ OrderInv)'
  <2>1. QueueInv /\ [Next]_vars => QueueInv'
    BY NextKeeps
  <2>2. QueueInv /\ OrderInv /\ Next => OrderInv'
    BY NextInOrder
  <2>3. QueueInv /\ OrderInv /\ UNCHANGED vars => OrderInv'
    BY StutterInOrder
  <2> QED BY <2>1, <2>2, <2>3
<1> QED BY <1>1, <1>2, PTL DEF Spec

\* SurfaceInterfacePrivate::applyState replaces what a surface shows by what a
\* transaction carries for it, with no regard to what it shows; the commits come
\* in order because commit() appends to the queue of each surface, apply() takes
\* the first transaction of all of them, and a cached transaction is merged or
\* committed before any newer one of its surfaces.  So a surface never shows an
\* older commit after a newer one, for any tree of surfaces, number of commits
\* and order of the fences; as long as no surface is given a second parent, and
\* a client does not destroy the parent of a sub-surface whose mode it changes.
THEOREM AppliedInOrderHolds ==
    ASSUME Reparented = {}, KeepsParents
    PROVE  Spec => AppliedInOrder
<1>1. QueueInv /\ OrderInv /\ [Next]_vars =>
        [\A s \in Surfaces : current'[s].content >= current[s].content]_vars
  BY NextInOrder
<1> QED BY <1>1, OrderInvHolds, PTL DEF Spec, AppliedInOrder

------------------------------------------------------------------------------
(* Which surfaces are mapped, and whose barriers remain                     *)

\* A call is to clear the fifo barriers of x and its children, or to map x.
Clearing(x) == \E d \in Calls : d.op = "clearUnmapped" /\ x \in d.todo
Mapping(x) == \E d \in Calls : d.op = "updateMapped" /\ x \in d.todo

\* The call that clears p finds p as it is now, and clears its child x too.
ClearedWith(x, p) == x \in current[p].children /\ Clearing(p) /\ ~Mapping(p)

\* One surface is cleared at a time.  It is mapped first, by the running call,
\* and then its children are.
MappingCalls ==
    /\ \A x, y \in Surfaces : Clearing(x) /\ Clearing(y) => x = y
    /\ \A x \in Surfaces : Clearing(x) => life[x] = "live"
    /\ \A d \in Calls : d.op = "updateMapped" => \A x \in d.todo :
          IF Clearing(x) THEN d.todo = {x} ELSE \E p \in Surfaces : ClearedWith(x, p)
    /\ \A k \in DOMAIN stack : k > 1 /\ stack[k].op = "updateMapped" =>
          \A x \in stack[k].todo : ~Clearing(x)

\* A surface without a buffer is mapped only until the call for it; one that is
\* not mapped has a barrier only until it is cleared, with its parent or alone.
BarriersGo ==
    \A x \in Surfaces : life[x] = "live" =>
        /\ mapped[x] /\ ~HasBuffer(current[x]) => Clearing(x) /\ Mapping(x)
        /\ ~mapped[x] /\ current[x].barrier =>
              Clearing(x) \/ \E p \in Surfaces : ClearedWith(x, p) /\ ~mapped[p]

MapInv == MappingCalls /\ BarriersGo

NoMapping == \A d \in Calls : d.op \notin MappingOps

\* apply() maps surfaces before it makes any other call.
LEMMA NoneMapping ==
    ASSUME TypeOK, Nesting, stack # <<>> => Head(stack).op \notin MappingOps
    PROVE  NoMapping
<1> SUFFICES ASSUME NEW d \in Calls, d.op \in MappingOps PROVE FALSE
  BY DEF NoMapping
<1>1. stack # <<>> /\ d # Head(stack)
  BY CallPlaces
<1>2. PICK k \in DOMAIN stack : k > 1 /\ stack[k] = d
  BY <1>1, CallPlaces
<1>3. d.op \in CallersOf(Head(stack).op)
  BY <1>2, FurtherOut
<1>4. PICK o : o = Head(stack).op
  OBVIOUS
<1>5. o # "updateMapped" /\ d.op \in {"updateMapped", "clearUnmapped"}
  BY <1>1, <1>4 DEF MappingOps
<1> QED BY <1>3, <1>4, <1>5 DEF CallersOf, DesyncOps, MappingOps

\* The other steps leave what the surfaces show, but for barriers that go.
LEMMA QuietMaps ==
    ASSUME MapInv, NoMapping, NoMapping', UNCHANGED mapped,
           \A x \in Surfaces :
              /\ current'[x].buffer = current[x].buffer
              /\ current'[x].barrier => current[x].barrier
              /\ life'[x] = "live" => life[x] = "live"
    PROVE  MapInv'
<1>1. \A x : /\ ~Clearing(x) /\ ~Mapping(x)
             /\ ~Clearing(x)' /\ ~Mapping(x)'
  BY DEF NoMapping, MappingOps, Clearing, Mapping
<1>2. MappingCalls'
  <2>1. \A k \in DOMAIN stack' : stack'[k] \in Calls'
    BY DEF Calls
  <2> QED BY <1>1, <2>1 DEF MappingCalls, NoMapping, MappingOps
<1>3. ASSUME NEW x \in Surfaces, life'[x] = "live"
      PROVE  /\ mapped'[x] => HasBuffer(current'[x])
             /\ mapped'[x] \/ ~current'[x].barrier
  <2>1. mapped[x] => HasBuffer(current[x])
    BY <1>1, <1>3 DEF MapInv, BarriersGo
  <2>2. mapped[x] \/ ~current[x].barrier
    BY <1>1, <1>3 DEF MapInv, BarriersGo, ClearedWith
  <2> QED BY <2>1, <2>2 DEF HasBuffer
<1>4. BarriersGo'
  BY <1>1, <1>3 DEF BarriersGo
<1> QED BY <1>2, <1>4 DEF MapInv

LEMMA LoopDoneCalls ==
    ASSUME QueueInv, LoopDone
    PROVE  /\ UNCHANGED <<life, current, mapped>>
           /\ \A d \in Calls' : d \in Calls
           /\ \A x : (Clearing(x)' <=> Clearing(x)) /\ (Mapping(x)' <=> Mapping(x))
           /\ \A k \in DOMAIN stack' : \E m \in DOMAIN stack : m > 1 /\ stack'[k] = stack[m]
<1>1. TypeOK
  BY DEF QueueInv, Settled
<1>2. /\ stack # <<>> /\ Head(stack).todo = {} /\ ReturnVia(<<>>)
      /\ UNCHANGED <<life, current, mapped>>
  BY DEF LoopDone, shown
<1>3. PICK none : none = <<>>
  OBVIOUS
<1>4. none \in Seq(CallType) /\ DOMAIN none = {} /\ ReturnVia(none)
  BY <1>2, <1>3, EmptySeq
<1>5. Replaced(stack, none, stack')
  BY <1>1, <1>2, <1>4, ReturnReplaces
<1>6. /\ \A d \in Calls' : d \in Calls
      /\ \A d \in Calls : d = Head(stack) \/ d \in Calls'
  BY <1>1, <1>4, <1>5, CallsAfter DEF Calls
<1>7. /\ \A x : Clearing(x)' <=> Clearing(x)
      /\ \A x : Mapping(x)' <=> Mapping(x)
  BY <1>2, <1>6 DEF Clearing, Mapping
<1>8. \A k \in DOMAIN stack' : \E m \in DOMAIN stack : m > 1 /\ stack'[k] = stack[m]
  BY <1>4, <1>5 DEF Replaced
<1> QED BY <1>2, <1>6, <1>7, <1>8

LEMMA LoopDoneMaps ==
    ASSUME QueueInv, MapInv, LoopDone
    PROVE  MapInv'
<1>1. UNCHANGED <<life, current, mapped>>
  BY LoopDoneCalls
<1>2. \A x : (Clearing(x)' <=> Clearing(x)) /\ (Mapping(x)' <=> Mapping(x))
  BY LoopDoneCalls
<1>3. \A x, p : ClearedWith(x, p)' <=> ClearedWith(x, p)
  BY <1>1, <1>2 DEF ClearedWith
<1>4. MappingCalls'
  <2>1. /\ \A x, y \in Surfaces : Clearing(x)' /\ Clearing(y)' => x = y
        /\ \A x \in Surfaces : Clearing(x)' => life'[x] = "live"
    BY <1>1, <1>2 DEF MapInv, MappingCalls
  <2>2. ASSUME NEW d \in Calls', d.op = "updateMapped", NEW x \in d.todo
        PROVE  IF Clearing(x)' THEN d.todo = {x}
               ELSE \E p \in Surfaces : ClearedWith(x, p)'
    BY <1>2, <1>3, <2>2, LoopDoneCalls DEF MapInv, MappingCalls
  <2>3. ASSUME NEW k \in DOMAIN stack', stack'[k].op = "updateMapped",
               NEW x \in stack'[k].todo
        PROVE  ~Clearing(x)'
    <3>1. PICK m \in DOMAIN stack : m > 1 /\ stack'[k] = stack[m]
      BY LoopDoneCalls
    <3> QED BY <1>2, <2>3, <3>1 DEF MapInv, MappingCalls
  <2> QED BY <2>1, <2>2, <2>3 DEF MappingCalls
<1>5. BarriersGo'
  BY <1>1, <1>2, <1>3 DEF MapInv, BarriersGo
<1> QED BY <1>4, <1>5 DEF MapInv

LEMMA ClearUnmappedMaps ==
    ASSUME QueueInv, MapInv, ClearUnmapped
    PROVE  MapInv'
<1>1. Running("clearUnmapped") /\ "clearUnmapped" \in SurfaceCalls
  BY DEF ClearUnmapped, SurfaceCalls
<1>2. PICK h : h = Head(stack)
  OBVIOUS
<1>3. /\ TypeOK /\ Nesting /\ stack # <<>> /\ h \in Calls /\ h.op = "clearUnmapped"
      /\ h.op \in SurfaceCalls /\ h.todo \subseteq Surfaces
  BY <1>1, <1>2, LoopFacts, CallPlaces
<1>4. PICK s \in h.todo :
         /\ current' = [c \in Surfaces |->
                IF ~mapped[s] /\ c \in {s} \cup current[s].children
                THEN [current[c] EXCEPT !.barrier = FALSE] ELSE current[c]]
         /\ VisitVia(s, <<>>)
  BY <1>2 DEF ClearUnmapped
<1>5. UNCHANGED <<life, mapped>>
  BY DEF ClearUnmapped
\* It is the only call of its kind, and s is all it clears.
<1>6. \A d \in Calls : d.op \in MappingOps => d = h
  <2> SUFFICES ASSUME NEW d \in Calls, d.op \in MappingOps, d # h PROVE FALSE
    OBVIOUS
  <2>1. PICK k \in DOMAIN stack : k > 1 /\ stack[k] = d
    BY <1>2, <1>3, CallPlaces
  <2>2. d.op \in CallersOf("clearUnmapped")
    BY <1>2, <1>3, <2>1, FurtherOut
  <2> QED BY <2>2 DEF CallersOf, DesyncOps, MappingOps
<1>7. /\ \A x : ~Mapping(x)
      /\ \A x : Clearing(x) <=> x \in h.todo
  BY <1>3, <1>6 DEF Mapping, Clearing, MappingOps
<1>8. h.todo = {s}
  BY <1>3, <1>4, <1>7 DEF MapInv, MappingCalls
<1>9. PICK rest \in CallType : /\ rest.op = "clearUnmapped" /\ rest.todo = {}
                               /\ Replaced(stack, <<rest>>, stack')
  <2>1. PICK none : none = <<>>
    OBVIOUS
  <2>2. none \in Seq(CallType) /\ VisitVia(s, none)
    BY <1>4, <2>1, EmptySeq
  <2>3. PICK rest \in CallType : /\ rest.op = Head(stack).op
                                 /\ rest.todo = Head(stack).todo \ {s}
                                 /\ Replaced(stack, none \o <<rest>>, stack')
    BY <1>2, <1>3, <2>2, VisitReplaces
  <2>4. none \o <<rest>> = <<rest>>
    BY <2>1
  <2> QED BY <1>2, <1>3, <1>8, <2>3, <2>4
<1>10. PICK cs : cs = <<rest>>
  OBVIOUS
<1>11. DOMAIN cs = {1} /\ cs[1] = rest /\ Replaced(stack, cs, stack')
  BY <1>9, <1>10, OneFrame
<1>12. ASSUME NEW d \in Calls', d.op \in MappingOps PROVE d = rest
  <2>1. CASE \E m \in DOMAIN stack : m > 1 /\ stack[m] = d
    <3>1. d.op \in CallersOf("clearUnmapped")
      BY <1>2, <1>3, <2>1, FurtherOut
    <3> QED BY <1>12, <3>1 DEF CallersOf, DesyncOps, MappingOps
  <2>2. CASE \E k \in DOMAIN cs : cs[k] = d
    BY <1>11, <2>2
  <2> QED BY <1>3, <1>11, <2>1, <2>2, CallsAfter
<1>13. \A x : ~Clearing(x)' /\ ~Mapping(x)'
  BY <1>9, <1>12 DEF Clearing, Mapping, MappingOps
<1>14. MappingCalls'
  <2>1. \A d \in Calls' : d.op # "updateMapped"
    BY <1>9, <1>12 DEF MappingOps
  <2>2. \A k \in DOMAIN stack' : stack'[k] \in Calls'
    BY DEF Calls
  <2> QED BY <1>13, <2>1, <2>2 DEF MappingCalls
<1>15. ASSUME NEW x \in Surfaces, life'[x] = "live"
       PROVE  /\ mapped'[x] => HasBuffer(current'[x])
              /\ mapped'[x] \/ ~current'[x].barrier
  <2>1. PICK f : f = [current[x] EXCEPT !.barrier = FALSE]
    OBVIOUS
  <2>2. f.buffer = current[x].buffer /\ f.barrier = FALSE
    <3>1. current[x] \in StateType
      BY <1>3 DEF TypeOK
    <3> QED BY <2>1, <3>1 DEF StateType
  <2>3. current'[x] = IF ~mapped[s] /\ x \in {s} \cup current[s].children
                      THEN f ELSE current[x]
    BY <1>4, <2>1
  <2>4. mapped[x] => HasBuffer(current[x])
    BY <1>5, <1>7, <1>15 DEF MapInv, BarriersGo
  <2>5. ~mapped[x] /\ current[x].barrier =>
           \/ x = s
           \/ x \in current[s].children /\ ~mapped[s]
    BY <1>5, <1>7, <1>8, <1>15 DEF MapInv, BarriersGo, ClearedWith
  <2> QED BY <1>5, <2>2, <2>3, <2>4, <2>5 DEF HasBuffer
<1>16. BarriersGo'
  BY <1>13, <1>15 DEF BarriersGo
<1> QED BY <1>14, <1>16 DEF MapInv

\* apply() lets s show x, and calls for what follows from that.
ShowsAnother(s, x) ==
    /\ current' = [current EXCEPT ![s] = x]
    /\ life[s] = "live"
    /\ MappingCalls'
    /\ \A y : Clearing(y)' <=> y = s
    /\ \A y : Mapping(y)' <=> y = s /\ HasBuffer(x) # HasBuffer(current[s])

LEMMA ApplyStateShows ==
    ASSUME QueueInv, ApplyState
    PROVE  /\ NoMapping
           /\ UNCHANGED <<life, mapped>>
           /\ \/ NoMapping' /\ UNCHANGED current
              \/ \E s \in Surfaces : \E x : ShowsAnother(s, x)
<1>1. TypeOK /\ Nesting
  BY DEF QueueInv, Settled
<1>2. PICK t, i : t = Head(stack).tx /\ i = Head(stack).index
  OBVIOUS
<1>3. /\ stack # <<>> /\ Head(stack) \in CallType /\ Head(stack).op = "applyStates"
      /\ t \in Transactions /\ i \in Nat \ {0}
  <2>1. Running("applyStates")
    BY DEF ApplyState
  <2>2. stack # <<>> /\ Head(stack) \in CallType /\ Head(stack).op = "applyStates"
    BY <1>1, <2>1, RunningCall
  <2> QED BY <1>2, <2>2, CallFields, SMTT(60)
<1>4. NoMapping
  BY <1>1, <1>3, NoneMapping, SMTT(60) DEF MappingOps
<1>5. UNCHANGED <<life, mapped>>
  BY DEF ApplyState
<1>6. ASSUME NEW m \in DOMAIN stack, m > 1 PROVE stack[m].op \notin MappingOps
  BY <1>4 DEF NoMapping, Calls
<1>7. ASSUME NEW a \in CallType, a.op \notin MappingOps, ReturnVia(<<a>>)
      PROVE  NoMapping'
  <2>1. PICK cs : cs = <<a>>
    OBVIOUS
  <2>2. cs \in Seq(CallType) /\ DOMAIN cs = {1} /\ cs[1] = a
    BY <1>7, <2>1, OneFrame
  <2>3. Replaced(stack, cs, stack')
    BY <1>1, <1>3, <1>7, <2>1, <2>2, ReturnReplaces
  <2> QED BY <1>1, <1>6, <1>7, <2>2, <2>3, CallsAfter DEF NoMapping
<1>8. CASE i > Len(entries[t])
  <2>1. PICK a : a = OnEntry("unlink", t, 1)
    OBVIOUS
  <2>2. a \in CallType /\ a.op \notin MappingOps
    BY <1>3, <2>1, CallsTyped DEF OnEntry, MappingOps
  <2>3. ReturnVia(<<a>>) /\ UNCHANGED current
    BY <1>2, <1>8, <2>1, Zenon DEF ApplyState
  <2> QED BY <1>4, <1>5, <1>7, <2>2, <2>3
<1>9. CASE ~(i > Len(entries[t]))
  <2>1. i \in DOMAIN entries[t]
    BY <1>1, <1>3, <1>9, LenProperties DEF TypeOK
  <2>2. PICK e : e = entries[t][i]
    OBVIOUS
  <2>3. PICK s : s = e.surface
    OBVIOUS
  <2>4. PICK x : x = MergeInto(e.state, current[s])
    OBVIOUS
  <2>5. PICK a, b, c : /\ a = OnSurfaces("updateMapped", {s})
                       /\ b = OnSurfaces("clearUnmapped", {s})
                       /\ c = OnEntry("applyStates", t, i + 1)
    OBVIOUS
  <2>6. IF Discarded(e) THEN ReturnVia(<<c>>) /\ UNCHANGED current
        ELSE /\ current' = [current EXCEPT ![s] = x]
             /\ ReturnVia((IF HasBuffer(x) # HasBuffer(current[s])
                           THEN <<a>> ELSE <<>>) \o <<b>> \o <<c>>)
    BY <1>2, <1>9, <2>2, <2>3, <2>4, <2>5, Zenon DEF ApplyState
  <2>7. s \in Surfaces
    BY <1>1, <1>3, <2>1, <2>2, <2>3, EntryFields
  <2>8. c \in CallType /\ c.op = "applyStates"
    <3>1. i + 1 \in Nat \ {0}
      BY <1>3
    <3> QED BY <1>3, <2>5, <3>1, CallsTyped DEF OnEntry
  <2>9. /\ a \in CallType /\ a.op = "updateMapped" /\ a.todo = {s}
        /\ b \in CallType /\ b.op = "clearUnmapped" /\ b.todo = {s}
    BY <2>5, <2>7, CallsTyped DEF OnSurfaces, SurfaceCalls
  <2>10. CASE Discarded(e)
    BY <1>4, <1>5, <1>7, <2>6, <2>8, <2>10 DEF MappingOps
  <2>11. CASE ~Discarded(e)
    <3>1. current' = [current EXCEPT ![s] = x] /\ life[s] = "live"
      BY <2>3, <2>6, <2>11 DEF Discarded
    <3>2. PICK cs : /\ Replaced(stack, cs, stack')
                    /\ IF HasBuffer(x) = HasBuffer(current[s])
                       THEN DOMAIN cs = {1, 2} /\ cs[1] = b /\ cs[2] = c
                       ELSE DOMAIN cs = {1, 2, 3} /\ cs[1] = a /\ cs[2] = b /\ cs[3] = c
      <4>1. CASE HasBuffer(x) = HasBuffer(current[s])
        <5>1. <<>> \o <<b>> = <<b>>
          OBVIOUS
        <5>2. ReturnVia(<<b>> \o <<c>>)
          BY <2>6, <2>11, <4>1, <5>1
        <5>3. PICK cs : cs = <<b, c>>
          OBVIOUS
        <5>4. ReturnVia(cs)
          BY <5>2, <5>3, OneThenOne
        <5>5. cs \in Seq(CallType)
          BY <2>8, <2>9, <5>3
        <5>6. DOMAIN cs = {1, 2} /\ cs[1] = b /\ cs[2] = c
          BY <5>3, PlacesOfTwo
        <5>7. Replaced(stack, cs, stack')
          BY <1>1, <1>3, <5>4, <5>5, ReturnReplaces
        <5> QED BY <4>1, <5>6, <5>7
      <4>2. CASE ~(HasBuffer(x) = HasBuffer(current[s]))
        <5>1. ReturnVia(<<a>> \o <<b>> \o <<c>>)
          BY <2>6, <2>11, <4>2
        <5>2. PICK cs : cs = <<a, b, c>>
          OBVIOUS
        <5>3. ReturnVia(cs)
          BY <5>1, <5>2, TwoThenOne
        <5>4. cs \in Seq(CallType)
          BY <2>8, <2>9, <5>2
        <5>5. DOMAIN cs = {1, 2, 3} /\ cs[1] = a /\ cs[2] = b /\ cs[3] = c
          BY <5>2, PlacesOfThree
        <5>6. Replaced(stack, cs, stack')
          BY <1>1, <1>3, <5>3, <5>4, ReturnReplaces
        <5> QED BY <4>2, <5>5, <5>6
      <4> QED BY <4>1, <4>2
    <3>3. /\ b \in Calls'
          /\ \A d \in Calls' : d.op \in MappingOps => d \in {a, b}
          /\ a \in Calls' <=> HasBuffer(x) # HasBuffer(current[s])
      <4>1. \A d \in Calls' : d.op \in MappingOps => \E k \in DOMAIN cs : cs[k] = d
        BY <1>1, <1>6, <3>2, CallsAfter
      <4>2. \A k \in DOMAIN cs : cs[k] \in Calls'
        BY <1>1, <3>2, CallsAfter
      <4>3. b \in Calls'
        BY <3>2, <4>2
      <4>4. \A d \in Calls' : d.op \in MappingOps => d \in {a, b}
        BY <2>8, <3>2, <4>1 DEF MappingOps
      <4>5. a.op \in MappingOps /\ a # b /\ a # c
        BY <2>8, <2>9 DEF MappingOps
      <4>6. a \in Calls' <=> HasBuffer(x) # HasBuffer(current[s])
        BY <3>2, <4>1, <4>2, <4>5
      <4> QED BY <4>3, <4>4, <4>6
    <3>4. /\ \A y : Clearing(y)' <=> y = s
          /\ \A y : Mapping(y)' <=> y = s /\ HasBuffer(x) # HasBuffer(current[s])
      BY <2>9, <3>3 DEF Clearing, Mapping, MappingOps
    <3>5. MappingCalls'
      <4>1. ASSUME NEW d \in Calls', d.op = "updateMapped", NEW y \in d.todo
            PROVE  Clearing(y)' /\ d.todo = {y}
        BY <2>9, <3>3, <3>4, <4>1 DEF MappingOps
      <4>2. ASSUME NEW k \in DOMAIN stack', k > 1 PROVE stack'[k].op # "updateMapped"
        <5>1. CASE k \in DOMAIN cs
          BY <2>8, <2>9, <3>2, <4>2, <5>1 DEF Replaced
        <5>2. CASE k \notin DOMAIN cs
          <6>1. \E m \in DOMAIN stack : m > 1 /\ stack'[k] = stack[m]
            BY <3>2, <5>2 DEF Replaced
          <6> QED BY <1>6, <6>1 DEF MappingOps
        <5> QED BY <5>1, <5>2
      <4> QED BY <1>5, <3>1, <3>4, <4>1, <4>2 DEF MappingCalls
    <3>6. ShowsAnother(s, x)
      BY <3>1, <3>4, <3>5 DEF ShowsAnother
    <3> QED BY <1>4, <1>5, <2>7, <3>6
  <2> QED BY <2>10, <2>11
<1> QED BY <1>8, <1>9

LEMMA ApplyStateMaps ==
    ASSUME QueueInv, MapInv, ApplyState
    PROVE  MapInv'
<1>1. NoMapping /\ UNCHANGED <<life, mapped>>
  BY ApplyStateShows
<1>2. CASE NoMapping' /\ UNCHANGED current
  BY <1>1, <1>2, QuietMaps
<1>3. CASE \E s \in Surfaces : \E x : ShowsAnother(s, x)
  <2>1. PICK s \in Surfaces : \E x : ShowsAnother(s, x)
    BY <1>3
  <2>2. PICK x : ShowsAnother(s, x)
    BY <2>1
  <2>3. BarriersGo'
    <3> SUFFICES ASSUME NEW y \in Surfaces, life'[y] = "live"
                 PROVE  /\ mapped'[y] /\ ~HasBuffer(current'[y]) => Clearing(y)' /\ Mapping(y)'
                        /\ ~mapped'[y] /\ current'[y].barrier => Clearing(y)'
      BY DEF BarriersGo
    <3>1. \A z : ~Clearing(z) /\ ~Mapping(z)
      BY <1>1 DEF NoMapping, MappingOps, Clearing, Mapping
    <3>2. /\ mapped[y] => HasBuffer(current[y])
          /\ mapped[y] \/ ~current[y].barrier
      BY <1>1, <3>1 DEF MapInv, BarriersGo, ClearedWith
    <3>3. current'[y] = IF y = s THEN x ELSE current[y]
      BY <2>2 DEF ShowsAnother, QueueInv, Settled, TypeOK
    <3>4. CASE y = s
      <4>1. HasBuffer(x) \in BOOLEAN /\ HasBuffer(current[s]) \in BOOLEAN
        BY DEF HasBuffer
      <4> QED BY <1>1, <2>2, <3>2, <3>3, <3>4, <4>1 DEF ShowsAnother
    <3>5. CASE y # s
      BY <1>1, <3>2, <3>3, <3>5
    <3> QED BY <3>4, <3>5
  <2> QED BY <2>2, <2>3 DEF MapInv, ShowsAnother
<1> QED BY <1>2, <1>3, ApplyStateShows

\* No sub-surface has sub-surfaces.
TwoLevels ==
    \A s \in Surfaces : InitialParent[s] # None => InitialParent[InitialParent[s]] = None

\* updateEffectiveMapped() visits s, and then the children of s if it changed.
VisitsToMap(s, new, a, rest, cs) ==
    /\ s \in Head(stack).todo
    /\ new <=> /\ HasBuffer(current[s])
               /\ sub[s] => parent[s] # None /\ mapped[parent[s]]
    /\ \A x \in Surfaces : mapped'[x] = IF x = s THEN new ELSE mapped[x]
    /\ a \in CallType /\ a.op = "updateMapped" /\ a.todo = current[s].children
    /\ rest \in CallType
    /\ rest.op = "updateMapped" /\ rest.todo = Head(stack).todo \ {s}
    /\ Replaced(stack, cs, stack')
    /\ IF mapped[s] = new THEN DOMAIN cs = {1} /\ cs[1] = rest
       ELSE DOMAIN cs = {1, 2} /\ cs[1] = a /\ cs[2] = rest

LEMMA UpdateMappedVisits ==
    ASSUME QueueInv, UpdateMapped
    PROVE  /\ UNCHANGED <<life, current>>
           /\ \E s \in Surfaces : \E new \in BOOLEAN : \E a, rest, cs :
                 VisitsToMap(s, new, a, rest, cs)
<1>1. Running("updateMapped") /\ "updateMapped" \in SurfaceCalls
  BY DEF UpdateMapped, SurfaceCalls
<1>2. PICK h : h = Head(stack)
  OBVIOUS
<1>3. /\ TypeOK /\ Nesting /\ Children /\ stack # <<>> /\ h \in Calls /\ h.op = "updateMapped"
      /\ h.op \in SurfaceCalls /\ h.todo \subseteq Surfaces
  BY <1>1, <1>2, LoopFacts, CallPlaces DEF QueueInv, Settled
<1>4. PICK s \in h.todo, new \in BOOLEAN :
         /\ new <=> /\ HasBuffer(current[s])
                    /\ sub[s] => parent[s] # None /\ mapped[parent[s]]
         /\ IF mapped[s] = new THEN VisitVia(s, <<>>) /\ UNCHANGED mapped
            ELSE /\ mapped' = [mapped EXCEPT ![s] = new]
                 /\ VisitVia(s, <<OnSurfaces("updateMapped", current[s].children)>>)
  BY <1>2 DEF UpdateMapped, HasBuffer
<1>5. s \in Surfaces /\ UNCHANGED <<life, current>>
  BY <1>3, <1>4 DEF UpdateMapped
<1>6. \A x \in Surfaces : mapped'[x] = IF x = s THEN new ELSE mapped[x]
  BY <1>3, <1>4, <1>5 DEF TypeOK
<1>7. PICK a : a = OnSurfaces("updateMapped", current[s].children)
  OBVIOUS
<1>8. a \in CallType /\ a.op = "updateMapped" /\ a.todo = current[s].children
  <2>1. current[s].children \in SUBSET Surfaces
    BY <1>3, <1>5 DEF TypeOK, StateType
  <2> QED BY <1>1, <1>7, <2>1, CallsTyped DEF OnSurfaces
<1>9. PICK rest, cs : /\ rest \in CallType
                      /\ rest.op = "updateMapped" /\ rest.todo = h.todo \ {s}
                      /\ Replaced(stack, cs, stack')
                      /\ IF mapped[s] = new THEN DOMAIN cs = {1} /\ cs[1] = rest
                         ELSE DOMAIN cs = {1, 2} /\ cs[1] = a /\ cs[2] = rest
  <2>1. CASE mapped[s] = new
    <3>1. PICK none : none = <<>>
      OBVIOUS
    <3>2. none \in Seq(CallType) /\ VisitVia(s, none)
      BY <1>4, <2>1, <3>1, EmptySeq
    <3>3. PICK rest \in CallType : /\ rest.op = Head(stack).op
                                   /\ rest.todo = Head(stack).todo \ {s}
                                   /\ Replaced(stack, none \o <<rest>>, stack')
      BY <1>2, <1>3, <3>2, VisitReplaces
    <3>4. PICK cs : cs = <<rest>>
      OBVIOUS
    <3>5. none \o <<rest>> = cs
      BY <3>1, <3>4
    <3>6. DOMAIN cs = {1} /\ cs[1] = rest
      BY <3>4, OneFrame
    <3> QED BY <1>2, <1>3, <2>1, <3>3, <3>5, <3>6
  <2>2. CASE ~(mapped[s] = new)
    <3>1. PICK as : as = <<a>>
      OBVIOUS
    <3>2. as \in Seq(CallType) /\ VisitVia(s, as)
      BY <1>4, <1>7, <1>8, <2>2, <3>1
    <3>3. PICK rest \in CallType : /\ rest.op = Head(stack).op
                                   /\ rest.todo = Head(stack).todo \ {s}
                                   /\ Replaced(stack, as \o <<rest>>, stack')
      BY <1>2, <1>3, <3>2, VisitReplaces
    <3>4. PICK cs : cs = <<a, rest>>
      OBVIOUS
    <3>5. as \o <<rest>> = cs
      BY <3>1, <3>4, OneThenOne
    <3>6. DOMAIN cs = {1, 2} /\ cs[1] = a /\ cs[2] = rest
      BY <3>4, PlacesOfTwo
    <3> QED BY <1>2, <1>3, <2>2, <3>3, <3>5, <3>6
  <2> QED BY <2>1, <2>2
<1> QED BY <1>2, <1>4, <1>5, <1>6, <1>8, <1>9 DEF VisitsToMap

LEMMA UpdateMappedMaps ==
    ASSUME TwoLevels, QueueInv, MapInv, UpdateMapped
    PROVE  MapInv'
<1> USE ConstantsAssumption
<1>1. Running("updateMapped") /\ "updateMapped" \in SurfaceCalls
  BY DEF UpdateMapped, SurfaceCalls
<1>2. PICK h : h = Head(stack)
  OBVIOUS
<1>3. /\ TypeOK /\ Nesting /\ Children /\ stack # <<>> /\ h \in Calls /\ h.op = "updateMapped"
      /\ h.op \in SurfaceCalls /\ h.todo \subseteq Surfaces
  BY <1>1, <1>2, LoopFacts, CallPlaces DEF QueueInv, Settled
<1>4. PICK s \in Surfaces, new \in BOOLEAN : \E a, rest, cs :
         VisitsToMap(s, new, a, rest, cs)
  BY UpdateMappedVisits
<1>5. PICK a, rest, cs : VisitsToMap(s, new, a, rest, cs)
  BY <1>4
<1>6. /\ s \in h.todo /\ s \in Surfaces /\ UNCHANGED <<life, current>>
      /\ new <=> /\ HasBuffer(current[s])
                 /\ sub[s] => parent[s] # None /\ mapped[parent[s]]
  BY <1>2, <1>5, UpdateMappedVisits DEF VisitsToMap
<1>7. \A x \in Surfaces : mapped'[x] = IF x = s THEN new ELSE mapped[x]
  BY <1>5 DEF VisitsToMap
<1>8. a.op = "updateMapped" /\ a.todo = current[s].children
  BY <1>5 DEF VisitsToMap
<1>9. /\ rest \in CallType
      /\ rest.op = "updateMapped" /\ rest.todo = h.todo \ {s}
      /\ Replaced(stack, cs, stack')
      /\ IF mapped[s] = new THEN DOMAIN cs = {1} /\ cs[1] = rest
         ELSE DOMAIN cs = {1, 2} /\ cs[1] = a /\ cs[2] = rest
  BY <1>2, <1>5 DEF VisitsToMap
<1>10. /\ \A d \in Calls' : \/ d = rest \/ (d = a /\ mapped[s] # new)
                            \/ \E m \in DOMAIN stack : m > 1 /\ stack[m] = d
       /\ rest \in Calls'
       /\ \A d \in Calls : d = h \/ d \in Calls'
       /\ \A m \in DOMAIN stack : stack[m] \in Calls
  <2>1. \A d \in Calls' : \/ \E k \in DOMAIN cs : cs[k] = d
                          \/ \E m \in DOMAIN stack : m > 1 /\ stack[m] = d
    BY <1>3, <1>9, CallsAfter
  <2>2. \A k \in DOMAIN cs : cs[k] \in Calls'
    BY <1>3, <1>9, CallsAfter
  <2>3. \A k \in DOMAIN cs : cs[k] = rest \/ (cs[k] = a /\ mapped[s] # new)
    BY <1>9
  <2>4. \E k \in DOMAIN cs : cs[k] = rest
    BY <1>9
  <2>5. \A d \in Calls : d = h \/ d \in Calls'
    BY <1>2, <1>3, <1>9, CallsAfter
  <2> QED BY <2>1, <2>2, <2>3, <2>4, <2>5 DEF Calls
<1>11. \A x : Clearing(x)' <=> Clearing(x)
  BY <1>3, <1>8, <1>9, <1>10 DEF Clearing
<1>12. /\ \A x : Mapping(x)' => Mapping(x) \/ x \in current[s].children
       /\ \A x : Mapping(x) /\ x # s => Mapping(x)'
       /\ Mapping(s)
  <2>1. ASSUME NEW x, Mapping(x)' PROVE Mapping(x) \/ x \in current[s].children
    BY <1>3, <1>8, <1>9, <1>10, <2>1 DEF Mapping
  <2>2. ASSUME NEW x, Mapping(x), x # s PROVE Mapping(x)'
    BY <1>3, <1>9, <1>10, <2>2 DEF Mapping
  <2> QED BY <1>3, <1>6, <2>1, <2>2 DEF Mapping
\* What the tree of two levels is needed for.
<1>13. ASSUME NEW p \in Surfaces, NEW x \in current[p].children
       PROVE  /\ InitialParent[x] = p /\ x \in Surfaces /\ p \notin current[s].children
              /\ x \notin current[x].children /\ current[x].children = {}
  <2>1. x \in Surfaces
    BY <1>3, <1>13 DEF TypeOK, StateType
  <2>2. InitialParent[x] = p
    BY <1>3, <1>13 DEF Children
  <2>3. InitialParent[p] = None
    BY <2>1, <2>2 DEF TwoLevels
  <2>4. p \notin current[s].children
    BY <1>3, <1>6, <2>3 DEF Children
  <2>5. current[x].children = {}
    <3> SUFFICES ASSUME NEW y \in current[x].children PROVE FALSE
      OBVIOUS
    <3>1. y \in Surfaces
      BY <1>3, <2>1 DEF TypeOK, StateType
    <3>2. InitialParent[y] = x
      BY <1>3, <2>1 DEF Children
    <3> QED BY <2>1, <2>2, <3>1, <3>2 DEF TwoLevels
  <2> QED BY <2>1, <2>2, <2>4, <2>5
<1>14. ASSUME NEW p \in Surfaces, NEW x, ClearedWith(x, p)
       PROVE  ClearedWith(x, p)' /\ p # s
  <2>1. x \in current[p].children /\ Clearing(p) /\ ~Mapping(p)
    BY <1>14 DEF ClearedWith
  <2>2. p \notin current[s].children
    BY <1>13, <2>1
  <2> QED BY <1>6, <1>11, <1>12, <2>1, <2>2 DEF ClearedWith
\* If s is being cleared it is visited alone.
<1>15. Clearing(s) => h.todo = {s} /\ ~Mapping(s)'
  <2> SUFFICES ASSUME Clearing(s) PROVE h.todo = {s} /\ ~Mapping(s)'
    OBVIOUS
  <2>1. h.todo = {s}
    BY <1>3, <1>6 DEF MapInv, MappingCalls
  <2>2. s \notin current[s].children
    <3> SUFFICES ASSUME s \in current[s].children PROVE FALSE
      OBVIOUS
    <3> QED BY <1>6, <1>13
  <2>3. \A m \in DOMAIN stack : m > 1 /\ stack[m].op = "updateMapped" => s \notin stack[m].todo
    BY DEF MapInv, MappingCalls
  <2>4. ASSUME NEW d \in Calls', d.op = "updateMapped", s \in d.todo PROVE FALSE
    BY <1>8, <1>9, <1>10, <2>1, <2>2, <2>3, <2>4
  <2> QED BY <2>1, <2>4 DEF Mapping
<1>16. Clearing(s) \/ \E p \in Surfaces : ClearedWith(s, p)
  BY <1>3, <1>6 DEF MapInv, MappingCalls
<1>17. MappingCalls'
  <2>1. /\ \A x, y \in Surfaces : Clearing(x)' /\ Clearing(y)' => x = y
        /\ \A x \in Surfaces : Clearing(x)' => life'[x] = "live"
    BY <1>6, <1>11 DEF MapInv, MappingCalls
  <2>2. ASSUME NEW d \in Calls, d.op = "updateMapped", NEW x \in d.todo
        PROVE  IF Clearing(x)' THEN d.todo = {x}
               ELSE \E p \in Surfaces : ClearedWith(x, p)'
    <3>1. IF Clearing(x) THEN d.todo = {x} ELSE \E p \in Surfaces : ClearedWith(x, p)
      BY <2>2 DEF MapInv, MappingCalls
    <3> QED BY <1>11, <1>14, <3>1
  <2>3. ASSUME NEW x \in rest.todo
        PROVE  ~Clearing(x)' /\ \E p \in Surfaces : ClearedWith(x, p)'
    <3>1. x \in h.todo /\ h.todo # {x}
      BY <1>6, <1>9
    <3>2. IF Clearing(x)' THEN h.todo = {x} ELSE \E p \in Surfaces : ClearedWith(x, p)'
      BY <1>3, <2>2, <3>1
    <3> QED BY <3>1, <3>2
  <2>4. ASSUME NEW x \in a.todo
        PROVE  ~Clearing(x)' /\ \E p \in Surfaces : ClearedWith(x, p)'
    <3>1. x \in current[s].children
      BY <1>8
    <3>2. x \in Surfaces /\ InitialParent[x] = s /\ current[s].children # {}
      BY <1>6, <1>13, <3>1
    <3>3. \A p \in Surfaces : ~ClearedWith(s, p)
      BY <1>13, <3>2 DEF ClearedWith
    <3>4. Clearing(s) /\ ~Mapping(s)'
      BY <1>15, <1>16, <3>3
    <3>5. x # s
      <4> SUFFICES ASSUME x = s PROVE FALSE
        OBVIOUS
      <4> QED BY <1>6, <1>13, <3>1
    <3>6. ~Clearing(x)
      BY <1>6, <3>2, <3>4, <3>5 DEF MapInv, MappingCalls
    <3>7. ClearedWith(x, s)'
      BY <1>6, <1>11, <3>1, <3>4 DEF ClearedWith
    <3> QED BY <1>6, <1>11, <3>6, <3>7
  <2>5. ASSUME NEW d \in Calls', d.op = "updateMapped", NEW x \in d.todo
        PROVE  IF Clearing(x)' THEN d.todo = {x}
               ELSE \E p \in Surfaces : ClearedWith(x, p)'
    <3>1. CASE d = rest
      BY <2>3, <3>1
    <3>2. CASE d = a
      BY <2>4, <3>2
    <3>3. CASE d \in Calls
      BY <2>2, <2>5, <3>3
    <3> QED BY <1>10, <3>1, <3>2, <3>3
  <2>6. ASSUME NEW k \in DOMAIN stack', k > 1, stack'[k].op = "updateMapped",
               NEW x \in stack'[k].todo
        PROVE  ~Clearing(x)'
    <3>1. CASE k \in DOMAIN cs
      <4>1. stack'[k] = cs[k] /\ cs[k] = rest
        BY <1>9, <2>6, <3>1 DEF Replaced
      <4> QED BY <2>3, <2>6, <4>1
    <3>2. CASE k \notin DOMAIN cs
      <4>1. PICK m \in DOMAIN stack : m > 1 /\ stack'[k] = stack[m]
        BY <1>9, <3>2 DEF Replaced
      <4>2. ~Clearing(x)
        BY <2>6, <4>1 DEF MapInv, MappingCalls
      <4> QED BY <1>11, <4>2
    <3> QED BY <3>1, <3>2
  <2> QED BY <2>1, <2>5, <2>6 DEF MappingCalls
<1>18. ASSUME NEW x \in Surfaces, life'[x] = "live"
       PROVE  /\ mapped'[x] /\ ~HasBuffer(current'[x]) => Clearing(x)' /\ Mapping(x)'
              /\ ~mapped'[x] /\ current'[x].barrier =>
                    Clearing(x)' \/ \E p \in Surfaces : ClearedWith(x, p)' /\ ~mapped'[p]
  <2>1. life[x] = "live" /\ current'[x] = current[x]
    BY <1>6, <1>18
  <2>2. /\ mapped[x] /\ ~HasBuffer(current[x]) => Clearing(x) /\ Mapping(x)
        /\ ~mapped[x] /\ current[x].barrier =>
              Clearing(x) \/ \E p \in Surfaces : ClearedWith(x, p) /\ ~mapped[p]
    BY <2>1 DEF MapInv, BarriersGo
  <2>3. CASE x # s
    <3>1. mapped'[x] = mapped[x]
      BY <1>7, <2>3
    <3>2. \A p \in Surfaces : ClearedWith(x, p) /\ ~mapped[p] => ClearedWith(x, p)' /\ ~mapped'[p]
      BY <1>7, <1>14
    <3> QED BY <1>11, <1>12, <2>1, <2>2, <2>3, <3>1, <3>2
  <2>4. CASE x = s
    <3>1. mapped'[s] = new
      BY <1>6, <1>7
    <3>2. mapped'[x] => HasBuffer(current'[x])
      BY <1>6, <2>1, <2>4, <3>1
    <3>3. ASSUME ~mapped'[x], current'[x].barrier, ~Clearing(x)
          PROVE  \E p \in Surfaces : ClearedWith(x, p)' /\ ~mapped'[p]
      <4>1. PICK p \in Surfaces : ClearedWith(s, p)
        BY <1>16, <2>4, <3>3
      <4>2. s \in current[p].children /\ life[p] = "live" /\ life[s] = "live"
        BY <2>1, <2>4, <4>1 DEF ClearedWith, MapInv, MappingCalls
      <4>3. sub[s] /\ parent[s] = p
        BY <1>3, <4>2 DEF Children
      <4>4. p # None /\ p # s /\ mapped'[p] = mapped[p]
        BY <1>7, <1>14, <4>1
      <4>5. CASE ~mapped[p]
        BY <1>14, <2>4, <4>1, <4>4, <4>5
      \* Then it has lost its buffer, and has long been cleared.
      <4>6. CASE mapped[p]
        <5>1. ~HasBuffer(current[s])
          BY <1>6, <2>4, <3>1, <3>3, <4>3, <4>4, <4>6
        <5>2. ~mapped[s]
          BY <2>2, <2>4, <3>3, <5>1
        <5>3. PICK q \in Surfaces : ClearedWith(s, q) /\ ~mapped[q]
          BY <2>1, <2>2, <2>4, <3>3, <5>2
        <5>4. q = p
          <6>1. s \in current[q].children
            BY <5>3 DEF ClearedWith
          <6> QED BY <1>13, <4>2, <6>1
        <5> QED BY <4>6, <5>3, <5>4
      <4> QED BY <4>5, <4>6
    <3> QED BY <1>11, <3>2, <3>3
  <2> QED BY <2>3, <2>4
<1>19. BarriersGo'
  BY <1>18 DEF BarriersGo
<1> QED BY <1>17, <1>19 DEF MapInv

\* What the steps other than apply() leave of what the surfaces show.
StillShown ==
    /\ UNCHANGED mapped
    /\ \A x \in Surfaces :
          /\ current'[x].buffer = current[x].buffer
          /\ current'[x].barrier => current[x].barrier
          /\ life'[x] = "live" => life[x] = "live"
          /\ life'[x] # "dead" => life[x] # "dead"

LEMMA UnlinkedShows ==
    ASSUME TypeOK, NEW s \in Surfaces, Unlinked(s), NEW x \in Surfaces
    PROVE  /\ current'[x].buffer = current[x].buffer
           /\ current'[x].barrier = current[x].barrier
<1>1. PICK p : p = parent[s]
  OBVIOUS
<1>2. current' = IF p = None THEN current
                 ELSE [current EXCEPT ![p].children = @ \ {s}]
  BY <1>1, Zenon DEF Unlinked
<1>3. current \in [Surfaces -> StateType] /\ current[x] \in StateType
  BY DEF TypeOK
<1>4. CASE p = None
  BY <1>2, <1>4
<1>5. CASE p # None
  <2>1. p \in Surfaces
    BY <1>1, <1>5 DEF TypeOK
  <2>2. PICK f : f = [current[x] EXCEPT !.children = @ \ {s}]
    OBVIOUS
  <2>3. f.buffer = current[x].buffer /\ f.barrier = current[x].barrier
    BY <1>3, <2>2 DEF StateType
  <2>4. current'[x] \in {current[x], f}
    BY <1>2, <1>3, <1>5, <2>1, <2>2
  <2> QED BY <2>3, <2>4
<1> QED BY <1>4, <1>5

LEMMA OthersShow ==
    ASSUME Reparented = {}, QueueInv, Next, ~ApplyState, ~UpdateMapped, ~ClearUnmapped
    PROVE  StillShown
<1>1. TypeOK /\ Nesting
  BY DEF QueueInv, Settled
<1>2. ASSUME UNCHANGED <<current, mapped, life>> PROVE StillShown
  BY <1>2 DEF StillShown
<1>3. ASSUME NEW s \in Surfaces, Unlinked(s), UNCHANGED mapped,
             \A x \in Surfaces : life'[x] \in {"dead", life[x]}
      PROVE  StillShown
  BY <1>1, <1>3, UnlinkedShows DEF StillShown
<1>4. CASE Request
  <2>1. ASSUME NEW s \in Surfaces, NEW shape, SurfaceCommit(s, shape)
        PROVE  UNCHANGED <<current, mapped, life>>
    <3>1. UNCHANGED <<shown, life>>
      BY <2>1, Zenon DEF SurfaceCommit
    <3> QED BY <3>1 DEF shown
  <2>2. ASSUME NEW s \in Surfaces, SetSync(s) \/ SetDesync(s) \/ ToggleRole(s)
        PROVE  UNCHANGED <<current, mapped, life>>
    BY <2>2, Zenon DEF SetSync, SetDesync, ToggleRole, shown
  <2>3. ASSUME NEW s \in Surfaces, DestroySurface(s) PROVE StillShown
    <3>1. UNCHANGED <<current, mapped>> /\ life' = [life EXCEPT ![s] = "dying"]
      BY <2>3, Zenon DEF DestroySurface, shown
    <3>2. life[s] = "live"
      BY <2>3, Zenon DEF DestroySurface
    <3>3. \A x \in Surfaces : life'[x] = IF x = s THEN "dying" ELSE life[x]
      BY <1>1, <3>1 DEF TypeOK
    <3> QED BY <3>1, <3>2, <3>3 DEF StillShown
  <2>4. ASSUME NEW s \in Surfaces, NEW p \in Surfaces, GetSubsurface(s, p)
        PROVE  FALSE
    BY <2>4 DEF GetSubsurface
  <2>5. ASSUME NEW s \in Surfaces, DestroySubsurface(s)
        PROVE  Unlinked(s) /\ UNCHANGED <<life, mapped>>
    BY <2>5, Zenon DEF DestroySubsurface
  <2>6. Disconnect => UNCHANGED <<current, mapped, life>>
    BY DEF Disconnect, shown
  <2> QED BY <1>2, <1>3, <1>4, <2>1, <2>2, <2>3, <2>4, <2>5, <2>6 DEF Request
<1>5. CASE Call
  <2>1. ASSUME LoopDone \/ MergeChild \/ AddSurface \/ Commit
        PROVE  UNCHANGED <<current, mapped, life>>
    BY <2>1, Zenon DEF LoopDone, MergeChild, AddSurface, Commit, shown
  <2>2. ASSUME TryApply \/ Unlink \/ TryChildren \/ TryFirst
        PROVE  UNCHANGED <<current, mapped, life>>
    BY <2>2, Zenon DEF TryApply, Unlink, TryChildren, TryFirst, shown
  <2>3. ASSUME ParentDesynchronized \/ DesynchronizeChildren
        PROVE  UNCHANGED <<current, mapped, life>>
    BY <2>3, Zenon DEF ParentDesynchronized, DesynchronizeChildren, shown
  <2>4. ASSUME LinkSubsurface PROVE FALSE
    <3>1. stack # <<>> /\ Head(stack).op = "addChild"
      BY <1>1, <2>4, RunningCall DEF LinkSubsurface
    <3> QED BY <1>1, <3>1, CallPlaces DEF Nesting, NestedIn
  <2>5. ASSUME Destroyed PROVE StillShown
    <3>1. PICK s \in Head(stack).todo : Unlinked(s) /\ life' = [life EXCEPT ![s] = "dead"]
      BY <2>5, Zenon DEF Destroyed
    <3>2. Running("destroyed") /\ "destroyed" \in SurfaceCalls /\ UNCHANGED mapped
      BY <2>5 DEF Destroyed, SurfaceCalls
    <3>3. Head(stack).todo \subseteq Surfaces
      BY <1>1, <3>2, LoopFacts
    <3>4. \A x \in Surfaces : life'[x] \in {"dead", life[x]}
      BY <1>1, <3>1 DEF TypeOK
    <3> QED BY <1>3, <3>1, <3>2, <3>3, <3>4
  <2> QED BY <1>2, <1>5, <2>1, <2>2, <2>3, <2>4, <2>5 DEF Call
<1>6. CASE SomeFenceSignaled
  BY <1>2, <1>6, Zenon DEF SomeFenceSignaled, FenceSignaled, shown
<1>7. CASE SomeBarrierCleared
  <2>1. PICK s \in Surfaces : current' = [current EXCEPT ![s].barrier = FALSE]
    BY <1>7, Zenon DEF SomeBarrierCleared, ClearFifoBarrier
  <2>2. UNCHANGED <<life, mapped>>
    BY <1>7, Zenon DEF SomeBarrierCleared, ClearFifoBarrier
  <2>3. ASSUME NEW c \in Surfaces
        PROVE  /\ current'[c].buffer = current[c].buffer
               /\ current'[c].barrier => current[c].barrier
    <3>1. current \in [Surfaces -> StateType] /\ current[c] \in StateType
      BY <1>1 DEF TypeOK
    <3> QED BY <2>1, <3>1 DEF StateType
  <2> QED BY <2>2, <2>3 DEF StillShown
<1> QED BY <1>4, <1>5, <1>6, <1>7 DEF Next

LEMMA OthersMapNothing ==
    ASSUME Reparented = {}, QueueInv, TypeOK', Next,
           ~ApplyState, ~UpdateMapped, ~ClearUnmapped, ~LoopDone
    PROVE  NoMapping /\ NoMapping'
<1>1. TypeOK /\ Nesting
  BY DEF QueueInv, Settled
<1>2. CASE Call
  <2>1. PICK h : h = Head(stack)
    OBVIOUS
  <2>2. h.op \notin MappingOps
    <3>1. \/ Running("merge") \/ Running("add") \/ Running("commit") \/ Running("tryApply")
          \/ Running("unlink") \/ Running("tryChildren") \/ Running("tryFirst")
          \/ Running("parentDesynchronized") \/ Running("desynchronizeChildren")
          \/ Running("addChild") \/ Running("destroyed")
      BY <1>2, Zenon DEF Call, MergeChild, AddSurface, Commit, TryApply, Unlink,
         TryChildren, TryFirst, ParentDesynchronized, DesynchronizeChildren,
         LinkSubsurface, Destroyed
    <3> QED BY <2>1, <3>1 DEF Running, MappingOps
  <2>3. NoMapping
    BY <1>1, <2>1, <2>2, NoneMapping
  <2>4. PICK Ops : Ops = MappingOps
    OBVIOUS
  <2>5. Shorter(Ops)
    BY <1>2, <2>4, LoopsShorten DEF LoopOps, MappingOps
  <2> QED BY <2>3, <2>4, <2>5 DEF Shorter, NoMapping
<1>3. CASE Request \/ SomeFenceSignaled \/ SomeBarrierCleared
  <2>1. Idle
    BY <1>3, Zenon DEF Request, SurfaceCommit, SetSync, SetDesync, GetSubsurface,
       DestroySubsurface, DestroySurface, ToggleRole, Disconnect, SomeFenceSignaled,
       FenceSignaled, SomeBarrierCleared, ClearFifoBarrier, EventLoop
  <2>2. NoMapping
    BY <2>1 DEF Idle, Calls, NoMapping
  <2>3. MapsNothing
    BY <1>3, HandlerLoops
  <2> QED BY <2>2, <2>3 DEF MapsNothing, NoMapping, LoopOps, MappingOps
<1> QED BY <1>2, <1>3 DEF Next

LEMMA InitMaps ==
    Init => MapInv
<1> SUFFICES ASSUME Init PROVE MapInv
  OBVIOUS
<1>1. stack = <<>> /\ DOMAIN stack = {}
  <2>1. stack = <<>>
    BY DEF Init
  <2> QED BY <2>1
<1>2. Calls = {}
  BY <1>1 DEF Calls
<1>3. \A x \in Surfaces : mapped[x] = FALSE /\ current[x].barrier = FALSE
  BY DEF Init
<1> QED BY <1>1, <1>2, <1>3 DEF MapInv, MappingCalls, BarriersGo, Clearing

LEMMA NextMaps ==
    ASSUME Reparented = {}, TwoLevels, QueueInv, MapInv, [Next]_vars
    PROVE  MapInv'
<1>1. CASE UNCHANGED vars
  <2>1. UNCHANGED <<life, current, mapped, stack>>
    BY <1>1 DEF vars, shown
  <2>2. Calls' = Calls
    BY <2>1 DEF Calls
  <2>3. \A x : (Clearing(x)' <=> Clearing(x)) /\ (Mapping(x)' <=> Mapping(x))
    BY <2>2 DEF Clearing, Mapping
  <2>4. \A x, p : ClearedWith(x, p)' <=> ClearedWith(x, p)
    BY <2>1, <2>3 DEF ClearedWith
  <2> QED BY <2>1, <2>2, <2>3, <2>4 DEF MapInv, MappingCalls, BarriersGo
<1>2. CASE Next
  <2>1. TypeOK'
    BY <1>2, NextTyped DEF QueueInv, Settled
  <2>2. CASE ApplyState \/ UpdateMapped \/ ClearUnmapped \/ LoopDone
    BY <2>2, ApplyStateMaps, UpdateMappedMaps, ClearUnmappedMaps, LoopDoneMaps
  <2>3. CASE ~ApplyState /\ ~UpdateMapped /\ ~ClearUnmapped /\ ~LoopDone
    BY <1>2, <2>1, <2>3, OthersMapNothing, OthersShow, QuietMaps DEF StillShown
  <2> QED BY <2>2, <2>3
<1> QED BY <1>1, <1>2

\* The comment at the end of SurfaceInterfacePrivate::applyState: a fifo barrier
\* on an unmapped surface would never be cleared.  applyState() sets the state,
\* lets updateEffectiveMapped() map the surface and its sub-surfaces, and clears
\* the barriers of the unmapped surface and of its sub-surfaces, but not those of
\* theirs.  So this holds for every tree in which no sub-surface has
\* sub-surfaces, and whatever else its client does.
THEOREM UnmappedHasNoBarrierHolds ==
    ASSUME Reparented = {}, TwoLevels
    PROVE  Spec => []UnmappedHasNoBarrier
<1>1. Init => QueueInv /\ MapInv
  BY InitKeeps, InitMaps
<1>2. QueueInv /\ MapInv /\ [Next]_vars => (QueueInv /\ MapInv)'
  BY NextKeeps, NextMaps
<1>3. QueueInv /\ MapInv => UnmappedHasNoBarrier
  <2>1. Idle => Calls = {}
    BY DEF Idle, Calls
  <2> QED BY <2>1 DEF MapInv, BarriersGo, UnmappedHasNoBarrier, Clearing, ClearedWith
<1> QED BY <1>1, <1>2, <1>3, PTL DEF Spec

------------------------------------------------------------------------------
(* Which surfaces are mapped                                                *)

\* The client destroys no surface that has, or ever had, sub-surfaces.
DestroysLeaves == \A s \in Surfaces : InitialParent[s] \notin Destroyable

\* x has a buffer and, below another surface, a parent that is mapped.
Shows(x) ==
    /\ HasBuffer(current[x])
    /\ InitialParent[x] # None => mapped[InitialParent[x]]

\* A surface that is not as it should be is about to be mapped, or unmapped.
MapsRight ==
    \A x \in Surfaces : life[x] # "dead" => Mapping(x) \/ (mapped[x] <=> Shows(x))

\* No parent goes before its client, so that the tree is what was built.
LEMMA TreeStays ==
    ASSUME DestroysLeaves, QueueInv, InOrder, ~clientGone,
           NEW x \in Surfaces, life[x] # "dead"
    PROVE  /\ sub[x] <=> InitialParent[x] # None
           /\ sub[x] => parent[x] = InitialParent[x]
           /\ InitialParent[x] # None =>
                 InitialParent[x] \in Surfaces /\ life[InitialParent[x]] = "live"
<1> USE ConstantsAssumption
<1>1. /\ sub[x] => InitialParent[x] # None
      /\ InitialParent[x] # None => sub[x]
  BY DEF InOrder, Modes
<1>2. ASSUME InitialParent[x] # None
      PROVE  InitialParent[x] \in Surfaces /\ life[InitialParent[x]] = "live"
  <2>1. InitialParent[x] \in Surfaces /\ InitialParent[x] \notin Destroyable
    BY <1>2 DEF DestroysLeaves
  <2> QED BY <2>1 DEF InOrder, Modes
<1>3. InitialParent[x] # None => parent[x] = InitialParent[x]
  BY <1>2 DEF QueueInv, Settled, Children
<1> QED BY <1>1, <1>2, <1>3

\* Nothing that a surface is mapped for changes.
LEMMA MapsRightKept ==
    ASSUME MapsRight, UNCHANGED mapped,
           \A x \in Surfaces :
              /\ HasBuffer(current'[x]) = HasBuffer(current[x])
              /\ life'[x] # "dead" => life[x] # "dead"
              /\ Mapping(x) => Mapping(x)'
    PROVE  MapsRight'
<1>1. \A x \in Surfaces : Shows(x)' <=> Shows(x)
  BY DEF Shows, HasBuffer
<1> QED BY <1>1 DEF MapsRight

LEMMA UpdateMappedRight ==
    ASSUME DestroysLeaves, QueueInv, InOrder, ~clientGone, MapsRight, UpdateMapped
    PROVE  MapsRight'
<1> USE ConstantsAssumption
<1>1. UNCHANGED <<life, current>>
  BY UpdateMappedVisits
<1>2. PICK s \in Surfaces, new \in BOOLEAN : \E a, rest, cs :
         VisitsToMap(s, new, a, rest, cs)
  BY UpdateMappedVisits
<1>3. PICK a, rest, cs : VisitsToMap(s, new, a, rest, cs)
  BY <1>2
<1>4. /\ \A x \in Surfaces : mapped'[x] = IF x = s THEN new ELSE mapped[x]
      /\ new <=> /\ HasBuffer(current[s])
                 /\ sub[s] => parent[s] # None /\ mapped[parent[s]]
  BY <1>3 DEF VisitsToMap
<1>5. PICK h : h = Head(stack)
  OBVIOUS
<1>6. /\ TypeOK /\ h \in Calls /\ stack # <<>>
      /\ rest.op = "updateMapped" /\ rest.todo = h.todo \ {s}
      /\ a.op = "updateMapped" /\ a.todo = current[s].children
      /\ Replaced(stack, cs, stack')
      /\ IF mapped[s] = new THEN DOMAIN cs = {1} /\ cs[1] = rest
         ELSE DOMAIN cs = {1, 2} /\ cs[1] = a /\ cs[2] = rest
  <2>1. Running("updateMapped") /\ "updateMapped" \in SurfaceCalls
    BY DEF UpdateMapped, SurfaceCalls
  <2>2. TypeOK /\ stack # <<>> /\ h \in Calls
    BY <1>5, <2>1, LoopFacts, CallPlaces
  <2> QED BY <1>3, <1>5, <2>2 DEF VisitsToMap
<1> HIDE DEF Replaced
<1>7. /\ rest \in Calls'
      /\ mapped[s] # new => a \in Calls'
      /\ \A d \in Calls : d = h \/ d \in Calls'
  <2>1. \A k \in DOMAIN cs : cs[k] \in Calls'
    BY <1>6, CallsAfter
  <2>2. \A d \in Calls : d = h \/ d \in Calls'
    BY <1>5, <1>6, CallsAfter
  <2> QED BY <1>6, <2>1, <2>2
<1>8. /\ \A x : Mapping(x) /\ x # s => Mapping(x)'
      /\ mapped[s] # new => \A x \in current[s].children : Mapping(x)'
  <2>1. ASSUME NEW x, Mapping(x), x # s PROVE Mapping(x)'
    BY <1>6, <1>7, <2>1 DEF Mapping
  <2>2. ASSUME mapped[s] # new, NEW x \in current[s].children PROVE Mapping(x)'
    BY <1>6, <1>7, <2>2 DEF Mapping
  <2> QED BY <2>1, <2>2
<1>9. \A x \in Surfaces : InitialParent[x] # x
  <2> SUFFICES ASSUME NEW x \in Surfaces, InitialParent[x] = x PROVE FALSE
    OBVIOUS
  <2>1. PICK S : S = {x}
    OBVIOUS
  <2> QED BY <2>1, ForestAssumption
<1> SUFFICES ASSUME NEW x \in Surfaces, life'[x] # "dead", ~Mapping(x)'
             PROVE  mapped'[x] <=> Shows(x)'
  BY DEF MapsRight
<1>10. /\ sub[x] <=> InitialParent[x] # None
       /\ sub[x] => parent[x] = InitialParent[x]
       /\ InitialParent[x] # None =>
             InitialParent[x] \in Surfaces /\ life[InitialParent[x]] = "live"
  BY <1>1, TreeStays
<1>11. HasBuffer(current'[x]) = HasBuffer(current[x])
  BY <1>1
<1>12. CASE x = s
  <2>1. InitialParent[x] # None => mapped'[InitialParent[x]] = mapped[InitialParent[x]]
    BY <1>4, <1>9, <1>10, <1>12
  <2> QED BY <1>4, <1>10, <1>11, <1>12, <2>1 DEF Shows
<1>13. CASE x # s
  <2>1. mapped'[x] = mapped[x] /\ (mapped[x] <=> Shows(x))
    BY <1>1, <1>4, <1>8, <1>13 DEF MapsRight
  <2>2. InitialParent[x] # None => mapped'[InitialParent[x]] = mapped[InitialParent[x]]
    <3>1. CASE InitialParent[x] = s
      <4>1. life[s] # "dead"
        BY <1>10, <3>1
      <4>2. x \in current[s].children
        BY <1>1, <3>1, <4>1 DEF InOrder, Listed, Lists
      <4>3. mapped[s] = new
        BY <1>8, <4>2
      <4> QED BY <1>4, <3>1, <4>3
    <3>2. CASE InitialParent[x] # s
      BY <1>4, <1>10, <3>2
    <3> QED BY <3>1, <3>2
  <2> QED BY <1>11, <2>1, <2>2 DEF Shows
<1> QED BY <1>12, <1>13

\* A surface that changes from having a buffer to having none, or back, is about
\* to be mapped or unmapped.
LEMMA ApplyStateRight ==
    ASSUME QueueInv, MapsRight, ApplyState
    PROVE  MapsRight'
<1>1. \A z : ~Mapping(z)
  BY ApplyStateShows DEF NoMapping, MappingOps, Mapping
<1>2. UNCHANGED <<life, mapped>>
  BY ApplyStateShows
<1>3. CASE UNCHANGED current
  BY <1>1, <1>2, <1>3, MapsRightKept
<1>4. CASE \E s \in Surfaces : \E x : ShowsAnother(s, x)
  <2>1. PICK s \in Surfaces : \E x : ShowsAnother(s, x)
    BY <1>4
  <2>2. PICK x : ShowsAnother(s, x)
    BY <2>1
  <2>3. \A y \in Surfaces : current'[y] = IF y = s THEN x ELSE current[y]
    BY <2>2 DEF ShowsAnother, QueueInv, Settled, TypeOK
  <2> SUFFICES ASSUME NEW y \in Surfaces, life'[y] # "dead", ~Mapping(y)'
               PROVE  mapped'[y] <=> Shows(y)'
    BY DEF MapsRight
  <2>4. HasBuffer(current'[y]) = HasBuffer(current[y])
    <3>1. y = s => HasBuffer(x) = HasBuffer(current[s])
      BY <2>2 DEF ShowsAnother
    <3> QED BY <2>3, <3>1
  <2>5. mapped[y] <=> Shows(y)
    BY <1>1, <1>2 DEF MapsRight
  <2> QED BY <1>2, <2>4, <2>5 DEF Shows
<1> QED BY <1>3, <1>4, ApplyStateShows

LEMMA ClearUnmappedRight ==
    ASSUME QueueInv, MapsRight, ClearUnmapped
    PROVE  MapsRight'
<1>1. Running("clearUnmapped") /\ "clearUnmapped" \in SurfaceCalls
  BY DEF ClearUnmapped, SurfaceCalls
<1>2. PICK h : h = Head(stack)
  OBVIOUS
<1>3. TypeOK /\ Nesting /\ stack # <<>> /\ h \in Calls /\ h.op = "clearUnmapped"
  BY <1>1, <1>2, LoopFacts, CallPlaces
<1>4. \A d \in Calls : d.op # "updateMapped"
  <2> SUFFICES ASSUME NEW d \in Calls, d.op = "updateMapped" PROVE FALSE
    OBVIOUS
  <2>1. PICK k \in DOMAIN stack : k > 1 /\ stack[k] = d
    BY <1>2, <1>3, CallPlaces
  <2>2. d.op \in CallersOf("clearUnmapped")
    BY <1>2, <1>3, <2>1, FurtherOut
  <2> QED BY <2>2 DEF CallersOf, DesyncOps, MappingOps
<1>5. UNCHANGED <<life, mapped>>
  BY DEF ClearUnmapped
<1>6. ASSUME NEW c \in Surfaces
      PROVE  HasBuffer(current'[c]) = HasBuffer(current[c])
  <2>1. PICK s \in Head(stack).todo :
           current' = [x \in Surfaces |->
              IF ~mapped[s] /\ x \in {s} \cup current[s].children
              THEN [current[x] EXCEPT !.barrier = FALSE] ELSE current[x]]
    BY DEF ClearUnmapped
  <2>2. PICK f : f = [current[c] EXCEPT !.barrier = FALSE]
    OBVIOUS
  <2>3. current[c] \in StateType
    BY <1>3 DEF TypeOK
  <2>4. f.buffer = current[c].buffer
    BY <2>2, <2>3 DEF StateType
  <2>5. current'[c] \in {current[c], f}
    BY <2>1, <2>2
  <2> QED BY <2>4, <2>5 DEF HasBuffer
<1> QED BY <1>4, <1>5, <1>6, MapsRightKept DEF Mapping

LEMMA InitMapsRight ==
    Init => MapsRight
<1> SUFFICES ASSUME Init PROVE MapsRight
  OBVIOUS
<1>1. \A x \in Surfaces : mapped[x] = FALSE /\ current[x].buffer = "detach"
  BY DEF Init
<1> QED BY <1>1 DEF MapsRight, Shows, HasBuffer

LEMMA NextMapsRight ==
    ASSUME Reparented = {}, DestroysLeaves, QueueInv, OrderInv,
           clientGone \/ MapsRight, [Next]_vars
    PROVE  (clientGone \/ MapsRight)'
<1>1. CASE UNCHANGED vars
  <2>1. UNCHANGED <<life, current, mapped, clientGone, stack>>
    BY <1>1 DEF vars, shown
  <2>2. \A x : Mapping(x)' <=> Mapping(x)
    BY <2>1 DEF Mapping, Calls
  <2>3. \A x : Shows(x)' <=> Shows(x)
    BY <2>1 DEF Shows
  <2> QED BY <2>1, <2>2, <2>3 DEF MapsRight
<1>2. CASE Next /\ clientGone
  BY <1>2, StaysGone
<1>3. CASE Next /\ ~clientGone
  <2>1. MapsRight /\ InOrder
    BY <1>3 DEF OrderInv
  <2>2. TypeOK /\ TypeOK'
    BY <1>3, NextTyped DEF QueueInv, Settled
  <2>3. CASE ApplyState \/ UpdateMapped \/ ClearUnmapped
    BY <1>3, <2>1, <2>3, ApplyStateRight, UpdateMappedRight, ClearUnmappedRight
  <2>4. CASE LoopDone
    BY <2>1, <2>4, LoopDoneCalls, MapsRightKept
  <2>5. CASE ~ApplyState /\ ~UpdateMapped /\ ~ClearUnmapped /\ ~LoopDone
    <3>1. \A x : ~Mapping(x)
      BY <1>3, <2>2, <2>5, OthersMapNothing DEF NoMapping, MappingOps, Mapping
    <3>2. /\ UNCHANGED mapped
          /\ \A x \in Surfaces : HasBuffer(current'[x]) = HasBuffer(current[x])
      BY <1>3, <2>5, OthersShow DEF StillShown, HasBuffer
    <3>3. \A x \in Surfaces : life'[x] # "dead" => life[x] # "dead"
      BY <1>3, <2>5, OthersShow DEF StillShown
    <3> QED BY <2>1, <3>1, <3>2, <3>3, MapsRightKept
  <2> QED BY <2>3, <2>4, <2>5
<1> QED BY <1>1, <1>2, <1>3

\* SurfaceInterfacePrivate::updateEffectiveMapped computes mapped from the buffer
\* of the surface and from mapped of its parent, and calls itself for the children
\* if mapped changed; it is called by applyState when a surface gets a buffer or
\* loses it.  So no sub-surface is left mapped below a parent that is not, nor the
\* other way round, however deep the tree is and in whatever order transactions
\* apply; as long as the client is there and destroys no parent, which
\* updateEffectiveMapped is not called for.
THEOREM MappedWithParentHolds ==
    ASSUME Reparented = {}, DestroysLeaves
    PROVE  Spec => [](clientGone \/ MappedWithParent)
<1>1. KeepsParents
  BY DEF KeepsParents, DestroysLeaves
<1>2. Spec => [](QueueInv /\ OrderInv)
  BY <1>1, OrderInvHolds
<1>3. Init => MapsRight
  BY InitMapsRight
<1>4. /\ QueueInv /\ OrderInv /\ (clientGone \/ MapsRight) /\ [Next]_vars
      => (clientGone \/ MapsRight)'
  BY NextMapsRight
<1>5. QueueInv /\ OrderInv /\ (clientGone \/ MapsRight) => clientGone \/ MappedWithParent
  <2> SUFFICES ASSUME QueueInv, InOrder, ~clientGone, MapsRight, Idle,
                      NEW s \in Surfaces, life[s] = "live"
               PROVE  mapped[s] <=> /\ HasBuffer(current[s])
                                    /\ sub[s] => parent[s] # None /\ mapped[parent[s]]
    BY DEF OrderInv, MappedWithParent
  <2>1. ~Mapping(s)
    BY DEF Idle, Calls, Mapping
  <2>2. mapped[s] <=> Shows(s)
    BY <2>1 DEF MapsRight
  <2>3. /\ sub[s] <=> InitialParent[s] # None
        /\ sub[s] => parent[s] = InitialParent[s]
    BY TreeStays
  <2> QED BY <2>2, <2>3 DEF Shows
<1> QED BY <1>2, <1>3, <1>4, <1>5, PTL DEF Spec

------------------------------------------------------------------------------
(* The queues as lists                                                      *)

\* t has one entry for each of its surfaces.
Single(t) ==
    \A i, j \in DOMAIN entries[t] :
       entries[t][i].surface = entries[t][j].surface => i = j

\* In the queue of s, t comes right before n.
Leads(t, s, n) ==
    \A j \in Left(t) : entries[t][j].surface = s => entries[t][j].next = n

\* The queue of s is q, a list of n different transactions.
Lined(s, n, q) ==
    /\ \A i, j \in 1..n : q[i] = q[j] => i = j
    /\ \A t \in Transactions : OnQueue(t, s) <=> \E k \in 1..n : q[k] = t
    /\ \A k \in 1..n : Leads(q[k], s, IF k < n THEN q[k + 1] ELSE None)

Lines ==
    \A s \in Surfaces : life[s] # "dead" =>
       \E n \in Nat : \E q \in [1..n -> Transactions] : Lined(s, n, q)

\* While t is not being applied, what waits for it is what comes behind it.
PrevsMatch ==
    \A t, u \in Transactions : status[t] = "queued" /\ Committed(u) =>
       \A i \in DOMAIN entries[u] : life[entries[u][i].surface] # "dead" =>
          (entries[u][i].prev = t <=> Behind(u, t, entries[u][i].surface))

\* With sub-surfaces of main surfaces only, no transaction waits for itself:
\* none that is still being built has two entries for a surface, and merge()
\* adds none.
Alone == \A t \in Transactions : ~SelfWaiting(t)

Singles == \A t \in Transactions : ~Committed(t) => Single(t)

Apart ==
    \A d \in Calls : d.op = "merge" =>
       \A x \in Surfaces : InitialParent[x] = d.surface /\ cached[x] # None =>
          x \notin SurfacesOf(d.tx)

SubsBelow == \A s \in Surfaces : sub[s] => InitialParent[s] # None

LineInv == Lines /\ PrevsMatch /\ Alone /\ Singles /\ Apart /\ SubsBelow

------------------------------------------------------------------------------
(* Walking along a queue                                                    *)

\* A set of numbers with 0 and the successor of each member has all.
LEMMA SetInduction ==
    ASSUME NEW A, 0 \in A, \A n \in Nat : n \in A => n + 1 \in A
    PROVE  Nat \subseteq A
<1> SUFFICES ASSUME Nat \ A # {} PROVE FALSE
  OBVIOUS
<1>1. PICK n \in Nat \ A : \A m \in Nat \ A : n <= m
  BY LeastPlace
<1>2. n # 0 /\ n - 1 \in Nat
  OBVIOUS
<1>3. n - 1 \in A
  BY <1>1, <1>2
<1> QED BY <1>1, <1>2, <1>3

\* The walk from firstTransaction along next.
Walk(s, f) ==
    f = [k \in Nat |-> IF k = 0 THEN first[s]
                       ELSE IF f[k - 1] = None THEN None ELSE NextOf(f[k - 1], s)]

LEMMA ChainWalks ==
    ASSUME NEW s, NEW f, Walk(s, f)
    PROVE  \E g : /\ Walk(s, g)
                  /\ Chain(s) = {g[k] : k \in 0..Cardinality(Transactions)} \ {None}
<1> DEFINE g == CHOOSE node : node = [k \in Nat |->
                   IF k = 0 THEN first[s]
                   ELSE IF node[k - 1] = None THEN None ELSE NextOf(node[k - 1], s)]
<1>1. Chain(s) = {g[k] : k \in 0..Cardinality(Transactions)} \ {None}
  BY DEF Chain
<1>2. Walk(s, g)
  BY DEF Walk
<1> QED BY <1>1, <1>2

LEMMA NextOfLeads ==
    ASSUME TypeOK, NEW t \in Transactions, NEW s, NEW n, Left(t) = DOMAIN entries[t],
           s \in SurfacesOf(t), Leads(t, s, n)
    PROVE  NextOf(t, s) = n
<1>1. PICK T : T = EntriesOf(t, s)
  OBVIOUS
<1>2. T # {} /\ T \in SUBSET Nat
  BY <1>1, EntryFields DEF EntriesOf, SurfacesOf
<1>3. \E i \in T : \A j \in T : i <= j
  BY <1>2, LeastPlace
<1>4. \A i \in T : entries[t][i].next = n
  BY <1>1 DEF Leads, EntriesOf
<1> QED BY <1>1, <1>2, <1>3, <1>4 DEF NextOf

\* The ends of a list are those of the queue.
LEMMA LineEnds ==
    ASSUME TypeOK, Ends, AtEnds, NEW s \in Surfaces, life[s] # "dead",
           NEW n \in Nat, NEW q \in [1..n -> Transactions], Lined(s, n, q)
    PROVE  /\ first[s] = (IF n = 0 THEN None ELSE q[1])
           /\ last[s] = (IF n = 0 THEN None ELSE q[n])
<1> USE ConstantsAssumption
<1>1. /\ \A i, j \in 1..n : q[i] = q[j] => i = j
      /\ \A t \in Transactions : OnQueue(t, s) <=> \E k \in 1..n : q[k] = t
      /\ \A k \in 1..n : Leads(q[k], s, IF k < n THEN q[k + 1] ELSE None)
  BY Zenon DEF Lined
<1>2. first[s] \in Transactions \cup {None} /\ last[s] \in Transactions \cup {None}
  BY DEF TypeOK
<1>3. CASE n = 0
  BY <1>1, <1>2, <1>3 DEF Ends
<1>4. CASE n # 0
  <2>1. 1 \in 1..n /\ n \in 1..n /\ q[1] \in Transactions /\ q[n] \in Transactions
    BY <1>4
  <2>2. first[s] = q[1]
    <3>1. ASSUME NEW u \in Transactions, Behind(q[1], u, s) PROVE FALSE
      <4>1. PICK j \in Left(u) : /\ Committed(u) /\ entries[u][j].surface = s
                                 /\ entries[u][j].next = q[1]
        BY <3>1 DEF Behind
      <4>2. PICK k \in 1..n : q[k] = u
        BY <1>1, <4>1 DEF OnQueue
      <4>3. q[1] = IF k < n THEN q[k + 1] ELSE None
        BY <1>1, <4>1, <4>2 DEF Leads
      <4>4. k < n /\ k + 1 \in 1..n /\ k + 1 # 1
        BY <2>1, <4>3
      <4> QED BY <1>1, <2>1, <4>3, <4>4
    <3>2. OnQueue(q[1], s)
      BY <1>1, <2>1
    <3> QED BY <2>1, <3>1, <3>2 DEF AtEnds, OnQueue
  <2>3. last[s] = q[n]
    <3>1. Committed(q[n]) /\ \E j \in Left(q[n]) : entries[q[n]][j].surface = s
      BY <1>1, <2>1 DEF OnQueue
    <3>2. PICK j \in Left(q[n]) : entries[q[n]][j].surface = s
      BY <3>1
    <3>3. entries[q[n]][j].next = None
      BY <1>1, <2>1, <3>2 DEF Leads
    <3> QED BY <2>1, <3>1, <3>2, <3>3 DEF AtEnds
  <2> QED BY <1>4, <2>2, <2>3
<1> QED BY <1>3, <1>4

LEMMA WalkOfLine ==
    ASSUME TypeOK, Ends, AtEnds, NEW s \in Surfaces, life[s] # "dead",
           \A t \in Transactions : Committed(t) => Left(t) = DOMAIN entries[t],
           NEW n \in Nat, NEW q \in [1..n -> Transactions], Lined(s, n, q),
           NEW f, Walk(s, f)
    PROVE  \A k \in Nat : f[k] = IF k < n THEN q[k + 1] ELSE None
<1> USE ConstantsAssumption
<1>1. /\ \A t \in Transactions : OnQueue(t, s) <=> \E k \in 1..n : q[k] = t
      /\ \A k \in 1..n : Leads(q[k], s, IF k < n THEN q[k + 1] ELSE None)
  BY Zenon DEF Lined
<1>2. PICK g : g = [k \in Nat |-> IF k < n THEN q[k + 1] ELSE None]
  OBVIOUS
<1>9. \A k \in Nat : g[k] = IF k < n THEN q[k + 1] ELSE None
  BY <1>2
<1>3. PICK A : A = {k \in Nat : f[k] = g[k]}
  OBVIOUS
<1>4. /\ f[0] = first[s]
      /\ \A k \in Nat : f[k + 1] = IF f[k] = None THEN None ELSE NextOf(f[k], s)
  <2>1. \A k \in Nat : f[k] = IF k = 0 THEN first[s]
                               ELSE IF f[k - 1] = None THEN None ELSE NextOf(f[k - 1], s)
    BY Zenon DEF Walk
  <2>2. \A k \in Nat : k + 1 \in Nat /\ k + 1 # 0 /\ (k + 1) - 1 = k
    OBVIOUS
  <2> QED BY <2>1, <2>2
<1>5. 0 \in A
  <2>1. first[s] = IF n = 0 THEN None ELSE q[1]
    BY LineEnds
  <2>2. g[0] = IF n = 0 THEN None ELSE q[1]
    <3>1. 0 \in Nat /\ (0 < n <=> n # 0) /\ 0 + 1 = 1
      OBVIOUS
    <3>2. g[0] = IF 0 < n THEN q[0 + 1] ELSE None
      BY <1>9, <3>1
    <3> QED BY <3>1, <3>2
  <2>3. f[0] = g[0]
    BY <1>4, <2>1, <2>2, Zenon
  <2> QED BY <1>3, <2>3
<1>6. ASSUME NEW k \in Nat, k \in A PROVE k + 1 \in A
  <2>1. f[k] = g[k]
    BY <1>3, <1>6
  <2>2. CASE k < n
    <3>1. k + 1 \in 1..n /\ q[k + 1] \in Transactions /\ f[k] = q[k + 1]
      BY <1>2, <2>1, <2>2
    <3>2. OnQueue(q[k + 1], s)
      BY <1>1, <3>1
    <3>3. s \in SurfacesOf(q[k + 1]) /\ Left(q[k + 1]) = DOMAIN entries[q[k + 1]]
      BY <3>1, <3>2 DEF OnQueue, SurfacesOf
    <3>4. Leads(q[k + 1], s, IF k + 1 < n THEN q[(k + 1) + 1] ELSE None)
      BY <1>1, <3>1
    <3>5. NextOf(q[k + 1], s) = IF k + 1 < n THEN q[(k + 1) + 1] ELSE None
      BY <3>1, <3>3, <3>4, NextOfLeads
    <3>6. f[k + 1] = NextOf(q[k + 1], s)
      <4>1. q[k + 1] # None
        BY <3>1
      <4> QED BY <1>4, <3>1, <4>1
    <3>7. f[k + 1] = g[k + 1]
      BY <1>2, <3>5, <3>6
    <3> QED BY <1>3, <3>7
  <2>3. CASE ~(k < n)
    <3>1. f[k] = None /\ ~(k + 1 < n)
      BY <1>2, <2>1, <2>3
    <3>2. f[k + 1] = None
      BY <1>4, <3>1, Zenon
    <3>3. g[k + 1] = None
      BY <1>9, <3>1
    <3> QED BY <1>3, <3>2, <3>3
  <2> QED BY <2>2, <2>3
<1>7. Nat \subseteq A
  BY <1>5, <1>6, SetInduction
<1> QED BY <1>2, <1>3, <1>7

\* A loop along next finds all that is queued for a surface.
LEMMA ChainIsQueue ==
    ASSUME TypeOK, Ends, AtEnds, Lines, IsFiniteSet(Transactions),
           NEW s \in Surfaces, life[s] # "dead",
           \A t \in Transactions : Committed(t) => Left(t) = DOMAIN entries[t]
    PROVE  Chain(s) = {t \in Transactions : OnQueue(t, s)}
<1> USE ConstantsAssumption
<1>0. PICK n \in Nat : \E q \in [1..n -> Transactions] : Lined(s, n, q)
  BY DEF Lines
<1>1. PICK q \in [1..n -> Transactions] : Lined(s, n, q)
  BY <1>0
<1>2. PICK f : Walk(s, f)
  <2>1. PICK f : f = [k \in Nat |-> IF k < n THEN q[k + 1] ELSE None]
    OBVIOUS
  <2>2. /\ \A t \in Transactions : OnQueue(t, s) <=> \E k \in 1..n : q[k] = t
        /\ \A k \in 1..n : Leads(q[k], s, IF k < n THEN q[k + 1] ELSE None)
    BY <1>1, Zenon DEF Lined
  <2>3. first[s] = IF n = 0 THEN None ELSE q[1]
    BY <1>1, LineEnds
  <2>4. ASSUME NEW k \in Nat
        PROVE  f[k] = IF k = 0 THEN first[s]
                      ELSE IF f[k - 1] = None THEN None ELSE NextOf(f[k - 1], s)
    <3>1. CASE k = 0
      BY <2>1, <2>3, <3>1
    <3>2. CASE k # 0 /\ k - 1 < n
      <4>1. k \in 1..n /\ q[k] \in Transactions /\ f[k - 1] = q[k]
        BY <2>1, <3>2
      <4>2. OnQueue(q[k], s)
        BY <2>2, <4>1
      <4>3. s \in SurfacesOf(q[k]) /\ Left(q[k]) = DOMAIN entries[q[k]]
        BY <4>1, <4>2 DEF OnQueue, SurfacesOf
      <4>4. NextOf(q[k], s) = IF k < n THEN q[k + 1] ELSE None
        BY <2>2, <4>1, <4>3, NextOfLeads
      <4> QED BY <2>1, <3>2, <4>1, <4>4
    <3>3. CASE k # 0 /\ ~(k - 1 < n)
      BY <2>1, <3>3
    <3> QED BY <3>1, <3>2, <3>3
  <2>5. f = [k \in Nat |-> IF k = 0 THEN first[s]
                           ELSE IF f[k - 1] = None THEN None ELSE NextOf(f[k - 1], s)]
    BY <2>1, <2>4
  <2> QED BY <2>5 DEF Walk
<1>3. PICK g : /\ Walk(s, g)
               /\ Chain(s) = {g[k] : k \in 0..Cardinality(Transactions)} \ {None}
  BY <1>2, ChainWalks
<1>4. \A k \in Nat : g[k] = IF k < n THEN q[k + 1] ELSE None
  BY <1>1, <1>3, WalkOfLine
<1>5. /\ \A i, j \in 1..n : q[i] = q[j] => i = j
      /\ \A t \in Transactions : OnQueue(t, s) <=> \E k \in 1..n : q[k] = t
  BY <1>1, Zenon DEF Lined
<1>6. Cardinality(Transactions) \in Nat /\ n <= Cardinality(Transactions)
  <2>1. Cardinality(Transactions) \in Nat
    BY FS_CardinalityType
  <2>2. 1 \in Int /\ n \in Int /\ IsFiniteSet(1..n) /\ Cardinality(1..n) = n
    BY FS_Interval
  <2>3. ASSUME Cardinality(Transactions) < Cardinality(1..n) PROVE FALSE
    <3>1. PICK i, j \in 1..n : i # j /\ q[i] = q[j]
      BY <2>2, <2>3, FS_PigeonHole
    <3> QED BY <1>5, <3>1
  <2> QED BY <2>1, <2>2, <2>3
<1>7. ASSUME NEW t, t \in Chain(s) PROVE t \in Transactions /\ OnQueue(t, s)
  <2>1. PICK k \in 0..Cardinality(Transactions) : t = g[k] /\ t # None
    BY <1>3, <1>7
  <2>2. k \in Nat /\ k < n /\ t = q[k + 1]
    BY <1>4, <1>6, <2>1
  <2>3. k + 1 \in 1..n
    BY <2>2
  <2> QED BY <1>5, <2>2, <2>3
<1>8. ASSUME NEW t \in Transactions, OnQueue(t, s) PROVE t \in Chain(s)
  <2>1. PICK k \in 1..n : q[k] = t
    BY <1>5, <1>8
  <2>2. k - 1 \in 0..Cardinality(Transactions) /\ k - 1 \in Nat /\ k - 1 < n /\ (k - 1) + 1 = k
    BY <1>6
  <2>3. g[k - 1] = t
    BY <1>4, <2>1, <2>2
  <2> QED BY <1>3, <2>2, <2>3
<1> QED BY <1>7, <1>8

------------------------------------------------------------------------------
(* The steps keep the lists                                                 *)

LEMMA LinesKept ==
    ASSUME TypeOK, Outside', QueuesSame, Lines, PrevsMatch, Alone
    PROVE  Lines' /\ PrevsMatch' /\ Alone'
<1>1. ASSUME NEW t \in Transactions
      PROVE  /\ Committed(t)' <=> Committed(t)
             /\ status'[t] = "queued" <=> status[t] = "queued"
  BY DEF QueuesSame, Committed
<1>2. ASSUME NEW t \in Transactions, Committed(t)
      PROVE  /\ Left(t)' = Left(t) /\ Left(t) \subseteq DOMAIN entries[t]
             /\ DOMAIN entries'[t] = DOMAIN entries[t]
             /\ \A i \in DOMAIN entries[t] :
                   /\ entries'[t][i].surface = entries[t][i].surface
                   /\ entries'[t][i].prev = entries[t][i].prev
                   /\ entries'[t][i].next = entries[t][i].next
  BY <1>2 DEF QueuesSame, Left
<1>3. ASSUME NEW t \in Transactions, NEW s \in Surfaces
      PROVE  /\ OnQueue(t, s)' <=> OnQueue(t, s)
             /\ \A u \in Transactions : Behind(u, t, s)' <=> Behind(u, t, s)
  BY <1>1, <1>2 DEF OnQueue, Behind
<1>4. \A s \in Surfaces : life'[s] # "dead" => life[s] # "dead"
  BY DEF QueuesSame
<1>5. Lines'
  <2> SUFFICES ASSUME NEW s \in Surfaces, life'[s] # "dead"
               PROVE  \E n \in Nat : \E q \in [1..n -> Transactions] : Lined(s, n, q)'
    BY DEF Lines
  <2>1. PICK n \in Nat : \E q \in [1..n -> Transactions] : Lined(s, n, q)
    BY <1>4 DEF Lines
  <2>2. PICK q \in [1..n -> Transactions] : Lined(s, n, q)
    BY <2>1
  <2>3. /\ \A i, j \in 1..n : q[i] = q[j] => i = j
        /\ \A t \in Transactions : OnQueue(t, s) <=> \E k \in 1..n : q[k] = t
        /\ \A k \in 1..n : Leads(q[k], s, IF k < n THEN q[k + 1] ELSE None)
    BY <2>2, Zenon DEF Lined
  <2>4. \A t \in Transactions : OnQueue(t, s)' <=> \E k \in 1..n : q[k] = t
    BY <1>3, <2>3
  <2>5. ASSUME NEW k \in 1..n, NEW x, Leads(q[k], s, x)
        PROVE  Leads(q[k], s, x)'
    <3>1. q[k] \in Transactions /\ Committed(q[k])
      BY <2>3 DEF OnQueue
    <3> QED BY <1>2, <2>5, <3>1 DEF Leads
  <2>6. \A k \in 1..n : Leads(q[k], s, IF k < n THEN q[k + 1] ELSE None)'
    BY <2>3, <2>5
  <2>7. Lined(s, n, q)'
    BY <2>3, <2>4, <2>6 DEF Lined
  <2> QED BY <2>7
<1>6. PrevsMatch'
  <2> SUFFICES ASSUME NEW t \in Transactions, NEW u \in Transactions,
                      status'[t] = "queued", Committed(u)',
                      NEW i \in DOMAIN entries'[u], life'[entries'[u][i].surface] # "dead"
               PROVE  entries'[u][i].prev = t <=> Behind(u, t, entries[u][i].surface)'
    BY DEF PrevsMatch
  <2>1. /\ status[t] = "queued" /\ Committed(u) /\ i \in DOMAIN entries[u]
        /\ entries'[u][i].surface = entries[u][i].surface
        /\ entries'[u][i].prev = entries[u][i].prev
        /\ entries[u][i].surface \in Surfaces
    BY <1>1, <1>2, EntryFields
  <2>2. PICK s \in Surfaces : s = entries[u][i].surface
    BY <2>1
  <2>3. life[s] # "dead"
    BY <1>4, <2>1, <2>2
  <2>4. entries[u][i].prev = t <=> Behind(u, t, s)
    BY <2>1, <2>2, <2>3 DEF PrevsMatch
  <2>5. Behind(u, t, s)' <=> Behind(u, t, s)
    BY <1>3
  <2>6. Behind(u, t, entries[u][i].surface)' <=> Behind(u, t, s)'
    BY <2>1, <2>2
  <2> QED BY <2>1, <2>4, <2>5, <2>6
<1>7. Alone'
  <2> SUFFICES ASSUME NEW t \in Transactions, NEW i \in DOMAIN entries'[t],
                      entries'[t][i].prev = t
               PROVE  FALSE
    BY DEF Alone, SelfWaiting
  <2>1. CASE Committed(t)
    BY <1>2, <2>1 DEF Alone, SelfWaiting
  <2>2. CASE ~Committed(t)
    BY <1>1, <2>2, ConstantsAssumption DEF Outside
  <2> QED BY <2>1, <2>2
<1> QED BY <1>5, <1>6, <1>7

\* The transaction t, which has one entry for each of its surfaces, joins the
\* queues at their ends.
LEMMA JoinsKeepsLines ==
    ASSUME Settled, TypeOK', NEW t \in Transactions, Joins(t), Single(t),
           Lines, PrevsMatch, Alone
    PROVE  Lines' /\ PrevsMatch' /\ Alone'
<1> USE ConstantsAssumption
<1>1. TypeOK /\ Ends /\ AtEnds
  BY DEF Settled
<1>2. Again(t) = {}
  <2>1. ASSUME NEW i \in Again(t) PROVE FALSE
    <3>1. i \in DOMAIN entries[t] /\ \E j \in DOMAIN entries[t] :
             j < i /\ entries[t][j].surface = entries[t][i].surface
      BY DEF Again
    <3>2. PICK j \in DOMAIN entries[t] : j < i /\ entries[t][j].surface = entries[t][i].surface
      BY <3>1
    <3>3. i \in Nat
      BY <1>1, <3>1, EntryFields
    <3> QED BY <3>1, <3>2, <3>3 DEF Single
  <2> QED BY <2>1
<1>3. /\ ~Committed(t)
      /\ \A u \in Transactions : Committed(u)' <=> (Committed(u) \/ u = t)
      /\ \A u \in Transactions : SurfacesOf(u)' = SurfacesOf(u)
      /\ \A u \in Transactions : \A s \in Surfaces :
            OnQueue(u, s)' <=> (OnQueue(u, s) \/ (u = t /\ s \in SurfacesOf(t)))
      /\ \A u \in Transactions : \A i \in DOMAIN entries[u] :
            entries[u][i].prev # t /\ entries[u][i].next # t
      /\ \A u \in Transactions : status'[u] = IF u = t THEN "queued" ELSE status[u]
      /\ \A u \in Transactions \ {t} : SelfWaiting(u)' <=> SelfWaiting(u)
      /\ SelfWaiting(t)' <=> Again(t) # {}
  BY JoinsFacts
<1>4. \A u \in Transactions :
         /\ Left(u)' = DOMAIN entries[u] /\ Left(u) = DOMAIN entries[u]
         /\ DOMAIN entries'[u] = DOMAIN entries[u]
         /\ \A i \in DOMAIN entries[u] : entries'[u][i].surface = entries[u][i].surface
  BY DEF Joins
<1>5. \A u \in Transactions \ {t} : \A i \in DOMAIN entries[u] :
         /\ entries'[u][i].prev = entries[u][i].prev
         /\ entries'[u][i].next =
               IF Touches(t, entries[u][i].surface) /\ last[entries[u][i].surface] = u
               THEN t ELSE entries[u][i].next
  BY Zenon DEF Joins
<1>6. \A i \in DOMAIN entries[t] :
         /\ entries'[t][i].prev = IF life[entries[t][i].surface] = "dead" THEN None
                                  ELSE last[entries[t][i].surface]
         /\ entries'[t][i].next = None
  BY <1>2 DEF Joins
<1>7. UNCHANGED life
  BY DEF Joins
<1>8. Lines'
  <2> SUFFICES ASSUME NEW s \in Surfaces, life[s] # "dead"
               PROVE  \E n \in Nat : \E q \in [1..n -> Transactions] : Lined(s, n, q)'
    BY <1>7 DEF Lines
  <2>1. PICK n \in Nat : \E q \in [1..n -> Transactions] : Lined(s, n, q)
    BY DEF Lines
  <2>2. PICK q \in [1..n -> Transactions] : Lined(s, n, q)
    BY <2>1
  <2>3. /\ \A i, j \in 1..n : q[i] = q[j] => i = j
        /\ \A u \in Transactions : OnQueue(u, s) <=> \E k \in 1..n : q[k] = u
        /\ \A k \in 1..n : Leads(q[k], s, IF k < n THEN q[k + 1] ELSE None)
    BY <2>2, Zenon DEF Lined
  <2>4. \A k \in 1..n : q[k] \in Transactions /\ q[k] # t
    BY <1>3, <2>3 DEF OnQueue
  <2>5. last[s] = IF n = 0 THEN None ELSE q[n]
    BY <1>1, <2>2, LineEnds
  <2>6. CASE s \notin SurfacesOf(t)
    <3>1. ASSUME NEW k \in 1..n, NEW x, Leads(q[k], s, x)
          PROVE  Leads(q[k], s, x)'
      <4>1. ~Touches(t, s)
        BY <2>6 DEF Touches
      <4> QED BY <1>4, <1>5, <2>4, <3>1, <4>1 DEF Leads
    <3>2. \A k \in 1..n : Leads(q[k], s, IF k < n THEN q[k + 1] ELSE None)'
      BY <2>3, <3>1
    <3>3. \A u \in Transactions : OnQueue(u, s)' <=> \E k \in 1..n : q[k] = u
      BY <1>3, <2>3, <2>6
    <3>4. Lined(s, n, q)'
      BY <2>3, <3>2, <3>3 DEF Lined
    <3> QED BY <3>4
  <2>7. CASE s \in SurfacesOf(t)
    <3>0. Touches(t, s) /\ n + 1 \in Nat
      BY <2>7 DEF Touches
    <3>1. PICK r : r = [k \in 1..(n + 1) |-> IF k <= n THEN q[k] ELSE t]
      OBVIOUS
    <3>2. /\ r \in [1..(n + 1) -> Transactions]
          /\ \A k \in 1..n : k \in 1..(n + 1) /\ r[k] = q[k]
          /\ n + 1 \in 1..(n + 1) /\ r[n + 1] = t
          /\ \A k \in 1..(n + 1) : k \in 1..n \/ k = n + 1
      BY <2>4, <3>1
    <3>3. \A i, j \in 1..(n + 1) : r[i] = r[j] => i = j
      BY <2>3, <2>4, <3>2
    <3>4. \A u \in Transactions : OnQueue(u, s)' <=> \E k \in 1..(n + 1) : r[k] = u
      <4>1. \A u \in Transactions : OnQueue(u, s)' <=> (\E k \in 1..n : q[k] = u) \/ u = t
        BY <1>3, <2>3, <2>7, Zenon
      <4>2. \A u : (\E k \in 1..(n + 1) : r[k] = u) <=> (\E k \in 1..n : q[k] = u) \/ u = t
        BY <3>2, SMT
      <4> QED BY <4>1, <4>2, Zenon
    <3>5. ASSUME NEW k \in 1..(n + 1)
          PROVE  Leads(r[k], s, IF k < n + 1 THEN r[k + 1] ELSE None)'
      <4>1. CASE k = n + 1
        BY <1>4, <1>6, <3>2, <4>1 DEF Leads
      <4>2. CASE k = n /\ n # 0
        <5>1. /\ k < n + 1 /\ r[k + 1] = t /\ r[k] = q[n] /\ last[s] = q[n]
              /\ q[n] \in Transactions \ {t}
          BY <2>4, <2>5, <3>2, <4>2
        <5>2. Leads(q[n], s, t)'
          BY <1>4, <1>5, <3>0, <5>1 DEF Leads
        <5> QED BY <5>1, <5>2
      <4>3. CASE k < n
        <5>1. /\ k \in 1..n /\ n \in 1..n /\ k + 1 \in 1..n /\ k < n + 1
              /\ r[k + 1] = q[k + 1] /\ r[k] = q[k]
          BY <3>2, <4>3
        <5>2. q[k] # last[s] /\ q[k] \in Transactions \ {t}
          BY <2>3, <2>4, <2>5, <4>3, <5>1
        <5>3. Leads(q[k], s, q[k + 1])
          BY <2>3, <4>3, <5>1
        <5>4. Leads(q[k], s, q[k + 1])'
          BY <1>4, <1>5, <5>2, <5>3 DEF Leads
        <5> QED BY <5>1, <5>4
      <4> QED BY <3>2, <4>1, <4>2, <4>3
    <3>6. Lined(s, n + 1, r)'
      BY <3>3, <3>4, <3>5 DEF Lined
    <3> QED BY <3>0, <3>2, <3>6
  <2> QED BY <2>6, <2>7
<1>9. PrevsMatch'
  <2> SUFFICES ASSUME NEW v \in Transactions, NEW u \in Transactions,
                      status'[v] = "queued", Committed(u)',
                      NEW i \in DOMAIN entries'[u], life'[entries'[u][i].surface] # "dead"
               PROVE  entries'[u][i].prev = v <=> Behind(u, v, entries[u][i].surface)'
    BY DEF PrevsMatch
  <2>1. i \in DOMAIN entries[u] /\ entries'[u][i].surface = entries[u][i].surface
    BY <1>4
  <2>2. PICK s \in Surfaces : s = entries[u][i].surface
    BY <1>1, <2>1, EntryFields
  <2>3. life[s] # "dead" /\ s \in SurfacesOf(u)
    BY <1>7, <2>1, <2>2 DEF SurfacesOf
  <2>4. Behind(u, v, entries[u][i].surface)' <=> Behind(u, v, s)'
    BY <2>1, <2>2
  <2>5. Behind(u, t, s)' <=> FALSE
    BY <1>4, <1>6 DEF Behind
  <2>6. CASE u # t /\ v = t
    BY <1>3, <1>5, <2>1, <2>4, <2>5, <2>6
  <2>7. CASE u # t /\ v # t
    <3>1. status[v] = "queued" /\ Committed(u) /\ Committed(v)
      BY <1>3, <2>7 DEF Committed
    <3>2. entries[u][i].prev = v <=> Behind(u, v, s)
      BY <2>1, <2>2, <2>3, <3>1 DEF PrevsMatch
    <3>3. ASSUME Behind(u, v, s) PROVE Behind(u, v, s)'
      <4>1. PICK j \in Left(v) : entries[v][j].surface = s /\ entries[v][j].next = u
        BY <3>3 DEF Behind
      <4>2. last[s] # v
        <5>1. ASSUME last[s] = v PROVE FALSE
          <6>1. u = v
            BY <1>1, <4>1, <5>1 DEF Ends
          <6>2. SelfWaiting(u)
            BY <2>1, <3>2, <3>3, <6>1 DEF SelfWaiting
          <6> QED BY <6>2 DEF Alone
        <5> QED BY <5>1
      <4>3. j \in Left(v)' /\ j \in DOMAIN entries[v]
        BY <1>4, <4>1
      <4>4. entries'[v][j].surface = s /\ entries'[v][j].next = u
        BY <1>4, <1>5, <2>7, <4>1, <4>2, <4>3
      <4> QED BY <1>3, <3>1, <4>3, <4>4 DEF Behind
    <3>4. ASSUME Behind(u, v, s)' PROVE Behind(u, v, s)
      <4>1. PICK j \in Left(v)' : entries'[v][j].surface = s /\ entries'[v][j].next = u
        BY <3>4 DEF Behind
      <4>2. j \in DOMAIN entries[v] /\ j \in Left(v)
        BY <1>4, <4>1
      <4>3. entries[v][j].surface = s /\ entries[v][j].next = u
        BY <1>4, <1>5, <2>7, <4>1, <4>2
      <4> QED BY <3>1, <4>2, <4>3 DEF Behind
    <3> QED BY <1>5, <2>1, <2>4, <2>7, <3>2, <3>3, <3>4
  <2>8. CASE u = t /\ v = t
    <3>1. last[s] # t
      BY <1>1, <1>3, <2>8 DEF Ends, OnQueue
    <3>2. entries'[u][i].prev = last[s]
      BY <1>6, <2>1, <2>2, <2>3, <2>8
    <3> QED BY <2>4, <2>5, <2>8, <3>1, <3>2
  <2>9. CASE u = t /\ v # t
    <3>1. entries'[u][i].prev = last[s]
      BY <1>6, <2>1, <2>2, <2>3, <2>9
    <3>2. Committed(v) /\ Touches(t, s)
      BY <1>3, <2>3, <2>9 DEF Committed, Touches
    <3>3. ASSUME last[s] = v PROVE Behind(u, v, s)'
      <4>1. OnQueue(v, s)
        BY <1>1, <3>3 DEF Ends
      <4>2. PICK j \in Left(v) : entries[v][j].surface = s
        BY <4>1 DEF OnQueue
      <4>3. j \in Left(v)' /\ j \in DOMAIN entries[v]
        BY <1>4
      <4>4. entries'[v][j].surface = s /\ entries'[v][j].next = t
        BY <1>4, <1>5, <2>9, <3>2, <3>3, <4>2, <4>3
      <4> QED BY <1>3, <2>9, <3>2, <4>3, <4>4 DEF Behind
    <3>4. ASSUME Behind(u, v, s)' PROVE last[s] = v
      <4>1. PICK j \in Left(v)' : entries'[v][j].surface = s /\ entries'[v][j].next = t
        BY <2>9, <3>4 DEF Behind
      <4>2. j \in DOMAIN entries[v] /\ entries[v][j].surface = s /\ entries[v][j].next # t
        BY <1>3, <1>4, <4>1
      <4> QED BY <1>5, <2>9, <4>1, <4>2
    <3> QED BY <2>4, <3>1, <3>3, <3>4
  <2> QED BY <2>6, <2>7, <2>8, <2>9
<1>10. Alone'
  BY <1>2, <1>3 DEF Alone
<1> QED BY <1>8, <1>9, <1>10

LEMMA BeginsKeepsLines ==
    ASSUME Settled, TypeOK', NEW t \in Transactions, NEW p, Begins(t, p),
           Lines, PrevsMatch, Alone
    PROVE  Lines' /\ PrevsMatch' /\ Alone'
<1> USE ConstantsAssumption
<1>1. TypeOK
  BY DEF Settled
<1>2. /\ DOMAIN entries'[t] = DOMAIN entries[t]
      /\ \A i \in DOMAIN entries[t] : p[i] \in DOMAIN entries[t]
      /\ \A i \in DOMAIN entries[t] : entries'[t][i] = entries[t][p[i]]
      /\ \A k \in DOMAIN entries[t] : \E i \in DOMAIN entries[t] : p[i] = k
      /\ \A u \in Transactions : u # t => entries'[u] = entries[u]
      /\ \A u \in Transactions : u # t => status'[u] = status[u]
      /\ status'[t] = "applying"
      /\ \A u \in Transactions : Committed(u)' = Committed(u)
  BY BeginsFacts
<1>3. /\ \A u \in Transactions : Left(u)' = Left(u)
      /\ Left(t) = DOMAIN entries[t]
      /\ \A i \in DOMAIN entries[t] : entries[t][i].prev = None
      /\ UNCHANGED life
  BY Zenon DEF Begins
<1>8. /\ \A i \in DOMAIN entries[t] : \E k \in DOMAIN entries[t] : entries'[t][i] = entries[t][k]
      /\ \A k \in DOMAIN entries[t] : \E i \in DOMAIN entries[t] : entries'[t][i] = entries[t][k]
  <2>1. \A i \in DOMAIN entries[t] : \E k \in DOMAIN entries[t] : entries'[t][i] = entries[t][k]
    BY <1>2
  <2>2. ASSUME NEW k \in DOMAIN entries[t]
        PROVE  \E i \in DOMAIN entries[t] : entries'[t][i] = entries[t][k]
    <3>1. PICK i \in DOMAIN entries[t] : p[i] = k
      BY <1>2
    <3> QED BY <1>2, <3>1
  <2> QED BY <2>1, <2>2
<1>4. ASSUME NEW u \in Transactions, NEW s
      PROVE  /\ OnQueue(u, s)' <=> OnQueue(u, s)
             /\ \A x : Leads(u, s, x) => Leads(u, s, x)'
             /\ \A v : Behind(v, u, s)' <=> Behind(v, u, s)
  <2>1. CASE u = t
    <3>1. Left(t)' = DOMAIN entries[t] /\ Left(t) = DOMAIN entries[t]
      BY <1>3
    <3>2. Committed(t)' <=> Committed(t)
      BY <1>2
    <3>3. OnQueue(t, s)' <=> OnQueue(t, s)
      <4>1. (\E i \in DOMAIN entries[t] : entries'[t][i].surface = s)
               <=> \E k \in DOMAIN entries[t] : entries[t][k].surface = s
        BY <1>8, ZenonT(60)
      <4> QED BY <3>1, <3>2, <4>1 DEF OnQueue
    <3>4. ASSUME NEW x, Leads(t, s, x) PROVE Leads(t, s, x)'
      BY <1>8, <3>1, <3>4, SMTT(60) DEF Leads
    <3>5. ASSUME NEW v PROVE Behind(v, t, s)' <=> Behind(v, t, s)
      <4>1. (\E i \in DOMAIN entries[t] : entries'[t][i].surface = s /\ entries'[t][i].next = v)
               <=> \E k \in DOMAIN entries[t] : entries[t][k].surface = s /\ entries[t][k].next = v
        BY <1>8, SMTT(60)
      <4> QED BY <3>1, <3>2, <4>1 DEF Behind
    <3> QED BY <2>1, <3>3, <3>4, <3>5
  <2>2. CASE u # t
    <3>1. entries'[u] = entries[u] /\ Left(u)' = Left(u) /\ (Committed(u)' <=> Committed(u))
      BY <1>2, <1>3, <2>2
    <3> QED BY <3>1 DEF OnQueue, Leads, Behind
  <2> QED BY <2>1, <2>2
<1>5. Lines'
  <2> SUFFICES ASSUME NEW s \in Surfaces, life[s] # "dead"
               PROVE  \E n \in Nat : \E q \in [1..n -> Transactions] : Lined(s, n, q)'
    BY <1>3 DEF Lines
  <2>1. PICK n \in Nat : \E q \in [1..n -> Transactions] : Lined(s, n, q)
    BY DEF Lines
  <2>2. PICK q \in [1..n -> Transactions] : Lined(s, n, q)
    BY <2>1
  <2>3. /\ \A i, j \in 1..n : q[i] = q[j] => i = j
        /\ \A u \in Transactions : OnQueue(u, s) <=> \E k \in 1..n : q[k] = u
        /\ \A k \in 1..n : Leads(q[k], s, IF k < n THEN q[k + 1] ELSE None)
    BY <2>2, Zenon DEF Lined
  <2>4. \A k \in 1..n : Leads(q[k], s, IF k < n THEN q[k + 1] ELSE None)'
    BY <1>4, <2>3
  <2>5. \A u \in Transactions : OnQueue(u, s)' <=> \E k \in 1..n : q[k] = u
    BY <1>4, <2>3
  <2>6. Lined(s, n, q)'
    BY <2>3, <2>4, <2>5 DEF Lined
  <2> QED BY <2>6
<1>6. PrevsMatch'
  <2> SUFFICES ASSUME NEW v \in Transactions, NEW u \in Transactions,
                      status'[v] = "queued", Committed(u)',
                      NEW i \in DOMAIN entries'[u], life'[entries'[u][i].surface] # "dead"
               PROVE  entries'[u][i].prev = v <=> Behind(u, v, entries[u][i].surface)'
    BY DEF PrevsMatch
  <2>1. PICK s : s = entries'[u][i].surface
    OBVIOUS
  <2>2. \E k \in DOMAIN entries[u] : entries'[u][i] = entries[u][k]
    <3>1. CASE u = t
      BY <1>2, <3>1
    <3>2. CASE u # t
      BY <1>2, <3>2
    <3> QED BY <3>1, <3>2
  <2>3. PICK k \in DOMAIN entries[u] : entries'[u][i] = entries[u][k]
    BY <2>2
  <2>4. status[v] = "queued" /\ Committed(u) /\ life[s] # "dead" /\ s = entries[u][k].surface
    <3>1. status[v] = "queued"
      BY <1>2
    <3> QED BY <1>2, <1>3, <2>1, <2>3, <3>1
  <2>5. entries[u][k].prev = v <=> Behind(u, v, s)
    BY <2>4 DEF PrevsMatch
  <2>6. Behind(u, v, entries[u][i].surface)' <=> Behind(u, v, s)'
    BY <2>1
  <2> QED BY <1>4, <2>3, <2>5, <2>6
<1>7. Alone'
  <2> SUFFICES ASSUME NEW u \in Transactions, NEW i \in DOMAIN entries'[u],
                      entries'[u][i].prev = u
               PROVE  FALSE
    BY DEF Alone, SelfWaiting
  <2>1. CASE u = t
    <3>1. i \in DOMAIN entries[t]
      BY <1>2, <2>1
    <3>2. PICK k \in DOMAIN entries[t] : entries'[t][i] = entries[t][k]
      BY <1>8, <3>1
    <3> QED BY <1>3, <2>1, <3>2
  <2>2. CASE u # t
    BY <1>2, <2>2 DEF Alone, SelfWaiting
  <2> QED BY <2>1, <2>2
<1> QED BY <1>5, <1>6, <1>7

\* The transaction t, which comes behind none, leaves the queue of s.
LEMMA LeavesKeepsLines ==
    ASSUME Settled, TypeOK', NEW t \in Transactions, NEW i, NEW s, NEW n,
           Leaves(t, i, s, n), Lines, PrevsMatch, Alone,
           \A u \in Transactions : Committed(u) => \A k \in Left(u) : entries[u][k].next # t
    PROVE  Lines' /\ PrevsMatch' /\ Alone'
<1> USE ConstantsAssumption
<1>1. TypeOK /\ OneEntryEach
  BY DEF Settled
<1>2. /\ Committed(t) /\ i \in DOMAIN entries[t] /\ s \in Surfaces
      /\ \A u \in Transactions : DOMAIN entries'[u] = DOMAIN entries[u]
      /\ \A u \in Transactions : \A k \in DOMAIN entries[u] :
            /\ entries'[u][k].surface = entries[u][k].surface
            /\ entries'[u][k].state = entries[u][k].state
            /\ entries'[u][k].next = entries[u][k].next
      /\ \A u \in Transactions \ {n} : entries'[u] = entries[u]
      /\ n = None \/ \E j \in Prevs(n, t) : \A k \in DOMAIN entries[n] :
            entries'[n][k].prev = IF k = j THEN None ELSE entries[n][k].prev
  BY LeavesFacts
<1>3. /\ status[t] = "applying" /\ s = entries[t][i].surface /\ i \in Left(t)
      /\ UNCHANGED <<status, life>>
      /\ Left(t)' = Left(t) \ {i}
      /\ \A u \in Transactions \ {t} : Left(u)' = Left(u)
  BY Zenon DEF Leaves
<1>4. \A u \in Transactions : Committed(u)' <=> Committed(u)
  BY <1>3 DEF Committed
\* The only predecessor that is forgotten is t.
<1>5. ASSUME NEW u \in Transactions, NEW k \in DOMAIN entries[u]
      PROVE  entries'[u][k].prev \in {entries[u][k].prev, None}
             /\ (entries[u][k].prev # t => entries'[u][k].prev = entries[u][k].prev)
  <2>1. CASE u = n /\ n # None
    <3>1. PICK j \in Prevs(n, t) : \A l \in DOMAIN entries[n] :
             entries'[n][l].prev = IF l = j THEN None ELSE entries[n][l].prev
      BY <1>2, <2>1
    <3> QED BY <2>1, <3>1 DEF Prevs
  <2>2. CASE u # n
    BY <1>2, <2>2
  <2> QED BY <2>1, <2>2
<1>6. ASSUME NEW u \in Transactions, NEW y
      PROVE  /\ u # t \/ y # s => (OnQueue(u, y)' <=> OnQueue(u, y))
             /\ \A x : Leads(u, y, x) => Leads(u, y, x)'
             /\ u # t => \A v : Behind(v, u, y)' <=> Behind(v, u, y)
  <2>1. Left(u) \subseteq DOMAIN entries[u] /\ Left(u)' \subseteq Left(u)
    BY <1>3 DEF Left
  <2>2. u # t \/ y # s => (OnQueue(u, y)' <=> OnQueue(u, y))
    BY <1>2, <1>3, <1>4, <2>1 DEF OnQueue
  <2>3. ASSUME NEW x, Leads(u, y, x) PROVE Leads(u, y, x)'
    BY <1>2, <2>1, <2>3 DEF Leads
  <2>4. ASSUME u # t, NEW v PROVE Behind(v, u, y)' <=> Behind(v, u, y)
    <3>1. Left(u)' = Left(u) /\ (Committed(u)' <=> Committed(u))
      BY <1>3, <1>4, <2>4
    <3> QED BY <1>2, <2>1, <3>1 DEF Behind
  <2> QED BY <2>2, <2>3, <2>4
<1>7. Lines'
  <2> SUFFICES ASSUME NEW y \in Surfaces, life[y] # "dead"
               PROVE  \E m \in Nat : \E q \in [1..m -> Transactions] : Lined(y, m, q)'
    BY <1>3 DEF Lines
  <2>1. PICK m \in Nat : \E q \in [1..m -> Transactions] : Lined(y, m, q)
    BY DEF Lines
  <2>2. PICK q \in [1..m -> Transactions] : Lined(y, m, q)
    BY <2>1
  <2>3. /\ \A k, l \in 1..m : q[k] = q[l] => k = l
        /\ \A u \in Transactions : OnQueue(u, y) <=> \E k \in 1..m : q[k] = u
        /\ \A k \in 1..m : Leads(q[k], y, IF k < m THEN q[k + 1] ELSE None)
    BY <2>2, Zenon DEF Lined
  <2>4. CASE y # s
    <3>1. \A k \in 1..m : Leads(q[k], y, IF k < m THEN q[k + 1] ELSE None)'
      BY <1>6, <2>3
    <3>2. \A u \in Transactions : OnQueue(u, y)' <=> \E k \in 1..m : q[k] = u
      BY <1>6, <2>3, <2>4
    <3>3. Lined(y, m, q)'
      BY <2>3, <3>1, <3>2 DEF Lined
    <3> QED BY <3>3
  <2>5. CASE y = s
    <3>1. OnQueue(t, s)
      BY <1>2, <1>3 DEF OnQueue
    <3>2. PICK a \in 1..m : q[a] = t
      BY <2>3, <2>5, <3>1
    <3>3. a = 1
      <4>1. ASSUME a # 1 PROVE FALSE
        <5>1. a - 1 \in 1..m /\ a - 1 < m /\ (a - 1) + 1 = a
          BY <4>1
        <5>2. Leads(q[a - 1], s, t)
          BY <2>3, <2>5, <3>2, <5>1
        <5>3. OnQueue(q[a - 1], s) /\ q[a - 1] \in Transactions
          BY <2>3, <2>5, <5>1
        <5> QED BY <5>2, <5>3 DEF OnQueue, Leads
      <4> QED BY <4>1
    <3>4. ~OnQueue(t, s)'
      <4>1. ASSUME NEW k \in Left(t)', entries'[t][k].surface = s PROVE FALSE
        <5>1. k \in DOMAIN entries[t] /\ k # i /\ entries[t][k].surface = s
          BY <1>2, <1>3, <4>1 DEF Left
        <5>2. ~SelfWaiting(t)
          BY DEF Alone
        <5> QED BY <1>1, <1>2, <1>3, <2>5, <5>1, <5>2 DEF OneEntryEach
      <4> QED BY <4>1 DEF OnQueue
    <3>5. PICK r : r = [k \in 1..(m - 1) |-> q[k + 1]]
      OBVIOUS
    <3>6. /\ m - 1 \in Nat /\ 1 \in 1..m
          /\ \A k \in 1..(m - 1) : k \in 1..m /\ k + 1 \in 1..m /\ r[k] = q[k + 1]
          /\ r \in [1..(m - 1) -> Transactions]
          /\ \A k \in 1..m : k # 1 => k - 1 \in 1..(m - 1) /\ r[k - 1] = q[k]
      BY <3>2, <3>5
    <3>7. \A k, l \in 1..(m - 1) : r[k] = r[l] => k = l
      <4> SUFFICES ASSUME NEW k \in 1..(m - 1), NEW l \in 1..(m - 1), r[k] = r[l]
                   PROVE  k = l
        OBVIOUS
      <4>1. k + 1 = l + 1
        BY <2>3, <3>6
      <4> QED BY <4>1
    <3>8. ASSUME NEW u \in Transactions
          PROVE  OnQueue(u, s)' <=> \E k \in 1..(m - 1) : r[k] = u
      <4>1. CASE u = t
        <5>1. ASSUME NEW k \in 1..(m - 1), r[k] = t PROVE FALSE
          <6>1. q[k + 1] = q[1] /\ k + 1 \in 1..m /\ k + 1 # 1
            BY <3>2, <3>3, <3>6, <5>1
          <6> QED BY <2>3, <3>6, <6>1
        <5> QED BY <3>4, <4>1, <5>1
      <4>2. CASE u # t
        <5>1. OnQueue(u, s)' <=> \E k \in 1..m : q[k] = u
          BY <1>6, <2>3, <2>5, <4>2
        <5>2. ASSUME NEW k \in 1..m, q[k] = u
              PROVE  \E l \in 1..(m - 1) : r[l] = u
          BY <3>2, <3>3, <3>6, <4>2, <5>2
        <5>3. ASSUME NEW k \in 1..(m - 1), r[k] = u
              PROVE  \E l \in 1..m : q[l] = u
          BY <3>6, <5>3
        <5> QED BY <5>1, <5>2, <5>3
      <4> QED BY <4>1, <4>2
    <3>9. ASSUME NEW k \in 1..(m - 1)
          PROVE  Leads(r[k], s, IF k < m - 1 THEN r[k + 1] ELSE None)'
      <4>1. q[k + 1] \in Transactions /\ k + 1 \in 1..m /\ r[k] = q[k + 1]
        BY <3>6
      <4>2. Leads(q[k + 1], s, IF k + 1 < m THEN q[(k + 1) + 1] ELSE None)
        BY <2>3, <2>5, <4>1
      <4>3. CASE k < m - 1
        <5>1. k + 1 \in 1..(m - 1) /\ k + 1 < m /\ r[k + 1] = q[(k + 1) + 1]
          BY <3>6, <4>3
        <5>2. Leads(q[k + 1], s, r[k + 1])
          BY <4>2, <5>1
        <5>3. Leads(q[k + 1], s, r[k + 1])'
          BY <1>6, <4>1, <5>2
        <5> QED BY <4>1, <4>3, <5>3
      <4>4. CASE ~(k < m - 1)
        <5>1. ~(k + 1 < m)
          BY <3>6, <4>4
        <5>2. Leads(q[k + 1], s, None)
          BY <4>2, <5>1
        <5>3. Leads(q[k + 1], s, None)'
          BY <1>6, <4>1, <5>2
        <5> QED BY <4>1, <4>4, <5>3
      <4> QED BY <4>3, <4>4
    <3>10. Lined(s, m - 1, r)'
      BY <3>7, <3>8, <3>9 DEF Lined
    <3> QED BY <2>5, <3>6, <3>10
  <2> QED BY <2>4, <2>5
<1>8. PrevsMatch'
  <2> SUFFICES ASSUME NEW v \in Transactions, NEW u \in Transactions,
                      status'[v] = "queued", Committed(u)',
                      NEW k \in DOMAIN entries'[u], life'[entries'[u][k].surface] # "dead"
               PROVE  entries'[u][k].prev = v <=> Behind(u, v, entries[u][k].surface)'
    BY DEF PrevsMatch
  <2>1. k \in DOMAIN entries[u] /\ entries'[u][k].surface = entries[u][k].surface
    BY <1>2
  <2>2. PICK y : y = entries[u][k].surface
    OBVIOUS
  <2>3. status[v] = "queued" /\ Committed(u) /\ life[y] # "dead" /\ v # t /\ v # None
    BY <1>3, <1>4, <2>1, <2>2
  <2>4. entries[u][k].prev = v <=> Behind(u, v, y)
    BY <2>1, <2>2, <2>3 DEF PrevsMatch
  <2>5. entries'[u][k].prev = v <=> entries[u][k].prev = v
    BY <1>5, <2>1, <2>3
  <2>6. Behind(u, v, entries[u][k].surface)' <=> Behind(u, v, y)'
    BY <2>1, <2>2
  <2> QED BY <1>6, <2>3, <2>4, <2>5, <2>6
<1>9. Alone'
  <2> SUFFICES ASSUME NEW u \in Transactions, NEW k \in DOMAIN entries'[u],
                      entries'[u][k].prev = u
               PROVE  FALSE
    BY DEF Alone, SelfWaiting
  <2>1. k \in DOMAIN entries[u] /\ entries[u][k].prev = u
    BY <1>2, <1>5
  <2> QED BY <2>1 DEF Alone, SelfWaiting
<1> QED BY <1>7, <1>8, <1>9

\* A transaction that has left all queues is deleted.
LEMMA DeletedKeepsLines ==
    ASSUME TypeOK, NEW t \in Transactions, status[t] = "applying", Left(t) = {},
           entries' = [entries EXCEPT ![t] = <<>>],
           status' = [status EXCEPT ![t] = "free"], UNCHANGED life,
           \A u \in Transactions \ {t} : Left(u)' = Left(u),
           Lines, PrevsMatch, Alone
    PROVE  Lines' /\ PrevsMatch' /\ Alone'
<1> USE ConstantsAssumption
<1>1. /\ status'[t] = "free" /\ entries'[t] = <<>>
      /\ \A u \in Transactions \ {t} : /\ entries'[u] = entries[u] /\ status'[u] = status[u]
                                       /\ Left(u)' = Left(u)
  BY DEF TypeOK
<1>2. ~Committed(t)'
  BY <1>1 DEF Committed
<1>3. \A u \in Transactions \ {t} : Committed(u)' <=> Committed(u)
  BY <1>1 DEF Committed
<1>4. \A s : ~OnQueue(t, s) /\ ~OnQueue(t, s)'
  BY <1>2 DEF OnQueue
<1>5. ASSUME NEW u \in Transactions \ {t}, NEW s
      PROVE  /\ OnQueue(u, s)' <=> OnQueue(u, s)
             /\ \A x : Leads(u, s, x)' <=> Leads(u, s, x)
             /\ \A v : Behind(v, u, s)' <=> Behind(v, u, s)
  BY <1>1, <1>3 DEF OnQueue, Leads, Behind
<1>6. Lines'
  <2> SUFFICES ASSUME NEW s \in Surfaces, life[s] # "dead"
               PROVE  \E n \in Nat : \E q \in [1..n -> Transactions] : Lined(s, n, q)'
    BY DEF Lines
  <2>1. PICK n \in Nat : \E q \in [1..n -> Transactions] : Lined(s, n, q)
    BY DEF Lines
  <2>2. PICK q \in [1..n -> Transactions] : Lined(s, n, q)
    BY <2>1
  <2>3. /\ \A i, j \in 1..n : q[i] = q[j] => i = j
        /\ \A u \in Transactions : OnQueue(u, s) <=> \E k \in 1..n : q[k] = u
        /\ \A k \in 1..n : Leads(q[k], s, IF k < n THEN q[k + 1] ELSE None)
    BY <2>2, Zenon DEF Lined
  <2>4. \A k \in 1..n : q[k] \in Transactions \ {t}
    BY <1>4, <2>3
  <2>5. \A k \in 1..n : Leads(q[k], s, IF k < n THEN q[k + 1] ELSE None)'
    BY <1>5, <2>3, <2>4
  <2>6. \A u \in Transactions : OnQueue(u, s)' <=> \E k \in 1..n : q[k] = u
    BY <1>4, <1>5, <2>3
  <2>7. Lined(s, n, q)'
    BY <2>3, <2>5, <2>6 DEF Lined
  <2> QED BY <2>7
<1>7. PrevsMatch'
  <2> SUFFICES ASSUME NEW v \in Transactions, NEW u \in Transactions,
                      status'[v] = "queued", Committed(u)',
                      NEW i \in DOMAIN entries'[u], life'[entries'[u][i].surface] # "dead"
               PROVE  entries'[u][i].prev = v <=> Behind(u, v, entries[u][i].surface)'
    BY DEF PrevsMatch
  <2>1. u # t /\ v # t
    BY <1>1, <1>2
  <2>2. entries'[u] = entries[u] /\ Committed(u) /\ status[v] = "queued"
    BY <1>1, <1>3, <2>1
  <2>3. PICK s : s = entries[u][i].surface
    OBVIOUS
  <2>4. entries[u][i].prev = v <=> Behind(u, v, s)
    BY <2>2, <2>3 DEF PrevsMatch
  <2>5. Behind(u, v, entries[u][i].surface)' <=> Behind(u, v, s)'
    BY <2>2, <2>3
  <2> QED BY <1>5, <2>1, <2>2, <2>4, <2>5
<1>8. Alone'
  <2> SUFFICES ASSUME NEW u \in Transactions, NEW i \in DOMAIN entries'[u],
                      entries'[u][i].prev = u
               PROVE  FALSE
    BY DEF Alone, SelfWaiting
  <2>1. u # t
    BY <1>1
  <2> QED BY <1>1, <2>1 DEF Alone, SelfWaiting
<1> QED BY <1>6, <1>7, <1>8

------------------------------------------------------------------------------
(* The steps that leave the queues alone                                    *)

\* QueuesSame, but for what apply() has yet to do.
LinksSame ==
    /\ \A t \in Transactions :
          /\ status'[t] = status[t] \/ (~Committed(t) /\ ~Committed(t)')
          /\ Committed(t) =>
                /\ DOMAIN entries'[t] = DOMAIN entries[t]
                /\ \A i \in DOMAIN entries[t] :
                      /\ entries'[t][i].surface = entries[t][i].surface
                      /\ entries'[t][i].prev = entries[t][i].prev
                      /\ entries'[t][i].next = entries[t][i].next
    /\ \A s \in Surfaces :
          \/ life'[s] = "dead" /\ first'[s] = None /\ last'[s] = None
          \/ life[s] # "dead" /\ life'[s] # "dead"
               /\ first'[s] = first[s] /\ last'[s] = last[s]

\* What is not yet committed keeps the surfaces of its entries, or is deleted.
SurfacesStay ==
    \A t \in Transactions : ~Committed(t) =>
       \/ entries'[t] = <<>>
       \/ /\ DOMAIN entries'[t] = DOMAIN entries[t]
          /\ \A i \in DOMAIN entries[t] : entries'[t][i].surface = entries[t][i].surface

LEMMA LinksUnchanged ==
    ASSUME Ends, UNCHANGED <<status, first, last>>,
           \A s \in Surfaces : life'[s] = "dead" <=> life[s] = "dead",
           \A t \in Transactions : DOMAIN entries'[t] = DOMAIN entries[t],
           \A t \in Transactions : \A i \in DOMAIN entries[t] :
              /\ entries'[t][i].surface = entries[t][i].surface
              /\ entries'[t][i].prev = entries[t][i].prev
              /\ entries'[t][i].next = entries[t][i].next
    PROVE  LinksSame /\ SurfacesStay
<1>1. \A s \in Surfaces : life[s] = "dead" => first[s] = None /\ last[s] = None
  BY DEF Ends
<1> QED BY <1>1 DEF LinksSame, SurfacesStay

\* A wl_subsurface goes, and its cached transaction with it.
LEMMA LeavesTreeLinks ==
    ASSUME Settled, NEW s \in Surfaces, LeavesTree(s),
           \A x \in Surfaces :
              \/ life'[x] = "dead" /\ first'[x] = None /\ last'[x] = None
              \/ life'[x] = life[x] /\ first'[x] = first[x] /\ last'[x] = last[x]
    PROVE  LinksSame /\ SurfacesStay
<1> USE ConstantsAssumption
<1>1. /\ cached[s] # None => status[cached[s]] = "pending"
      /\ \A x \in Surfaces : life[x] = "dead" => first[x] = None /\ last[x] = None
  BY DEF Settled, Subtrees, Ends
<1>2. ASSUME NEW t \in Transactions, t = cached[s]
      PROVE  /\ ~Committed(t) /\ ~Committed(t)' /\ entries'[t] = <<>>
  <2>1. status[t] = "pending" /\ status'[t] = "free" /\ entries'[t] = <<>>
    BY <1>1, <1>2 DEF LeavesTree
  <2> QED BY <2>1 DEF Committed
<1>3. ASSUME NEW t \in Transactions, t # cached[s]
      PROVE  /\ status'[t] = status[t] /\ DOMAIN entries'[t] = DOMAIN entries[t]
             /\ \A i \in DOMAIN entries[t] :
                   /\ entries'[t][i].surface = entries[t][i].surface
                   /\ entries'[t][i].prev = entries[t][i].prev
                   /\ entries'[t][i].next = entries[t][i].next
  BY <1>3, ZenonT(60) DEF LeavesTree
<1>4. SurfacesStay
  BY <1>2, <1>3 DEF SurfacesStay
<1>5. LinksSame
  BY <1>1, <1>2, <1>3 DEF LinksSame
<1> QED BY <1>4, <1>5

LEMMA OthersKeepLinks ==
    ASSUME Reparented = {}, QueueInv, TypeOK', Next, ~Commit, ~Unlink,
           ~(TryApply /\ IsReady(Head(stack).tx))
    PROVE  LinksSame /\ (MergeChild \/ AddSurface \/ SurfacesStay)
<1> USE ConstantsAssumption
<1>1. TypeOK /\ Nesting /\ Settled /\ Ends
  BY DEF QueueInv, Settled
<1>2. ASSUME UNCHANGED queue, \A s \in Surfaces : life'[s] = "dead" <=> life[s] = "dead"
      PROVE  LinksSame /\ SurfacesStay
  <2>1. UNCHANGED <<status, first, last, entries>>
    BY <1>2 DEF queue
  <2> QED BY <1>1, <1>2, <2>1, LinksUnchanged
<1>3. CASE Request
  <2>1. ASSUME NEW s \in Surfaces, NEW shape \in CommitShapes, SurfaceCommit(s, shape)
        PROVE  LinksSame /\ SurfacesStay
    <3>0. PICK sync : sync = Synchronized(s)
      OBVIOUS
    <3>1. PICK t \in Transactions : \E m, d, c :
             Prepares(s, t, Synchronized(s), m, d, c) /\ d.state.content = commits[s] + 1
      BY <2>1, SurfaceCommitPrepares
    <3>2. /\ status[t] = "free" \/ cached[s] = t
          /\ status' = [status EXCEPT ![t] = "pending"]
          /\ UNCHANGED <<life, first, last, entries>>
      BY <3>1, Zenon DEF Prepares
    <3>3. status[t] \in {"free", "pending"}
      BY <1>1, <3>2 DEF Settled, Subtrees
    <3>4. \A u \in Transactions : status'[u] = IF u = t THEN "pending" ELSE status[u]
      BY <1>1, <3>2 DEF TypeOK
    <3>5. ~Committed(t) /\ ~Committed(t)'
      BY <3>3, <3>4 DEF Committed
    <3>6. \A x \in Surfaces : life[x] = "dead" => first[x] = None /\ last[x] = None
      BY <1>1 DEF Ends
    <3> QED BY <3>2, <3>4, <3>5, <3>6 DEF LinksSame, SurfacesStay
  <2>2. ASSUME NEW s \in Surfaces, SetSync(s) \/ SetDesync(s) \/ ToggleRole(s)
        PROVE  UNCHANGED <<queue, life>>
    BY <2>2, Zenon DEF SetSync, SetDesync, ToggleRole
  <2>3. ASSUME NEW s \in Surfaces, DestroySurface(s) PROVE LinksSame /\ SurfacesStay
    <3>1. UNCHANGED queue /\ life' = [life EXCEPT ![s] = "dying"] /\ life[s] = "live"
      BY <2>3, Zenon DEF DestroySurface
    <3>2. \A x \in Surfaces : life'[x] = IF x = s THEN "dying" ELSE life[x]
      BY <1>1, <3>1 DEF TypeOK
    <3> QED BY <1>2, <3>1, <3>2
  <2>4. ASSUME NEW s \in Surfaces, NEW p \in Surfaces, GetSubsurface(s, p)
        PROVE  FALSE
    BY <2>4 DEF GetSubsurface
  <2>5. ASSUME NEW s \in Surfaces, DestroySubsurface(s) PROVE LinksSame /\ SurfacesStay
    <3>1. Unlinked(s) /\ UNCHANGED <<life, first, last>>
      BY <2>5, Zenon DEF DestroySubsurface
    <3>2. LeavesTree(s)
      BY <1>1, <3>1, UnlinkedFacts
    <3> QED BY <1>1, <3>1, <3>2, LeavesTreeLinks
  <2>6. Disconnect => UNCHANGED <<queue, life>>
    BY DEF Disconnect
  <2> QED BY <1>2, <1>3, <2>1, <2>2, <2>3, <2>4, <2>5, <2>6 DEF Request
<1>4. CASE Call
  <2>1. ASSUME LoopDone \/ ApplyState \/ UpdateMapped \/ ClearUnmapped
        PROVE  UNCHANGED <<queue, life>>
    BY <2>1, Zenon DEF LoopDone, ApplyState, UpdateMapped, ClearUnmapped
  <2>2. ASSUME TryChildren \/ TryFirst \/ ParentDesynchronized \/ DesynchronizeChildren
        PROVE  UNCHANGED <<queue, life>>
    BY <2>2, Zenon DEF TryChildren, TryFirst, ParentDesynchronized, DesynchronizeChildren
  <2>3. ASSUME TryApply PROVE UNCHANGED <<queue, life>>
    <3>1. UNCHANGED <<entries, status, first, last, life>>
      BY <2>3, Zenon DEF TryApply
    <3> QED BY <3>1 DEF queue
  <2>4. ASSUME MergeChild PROVE LinksSame
    <3>1. PICK h : h = Head(stack)
      OBVIOUS
    <3>2. /\ h.tx \in Transactions /\ status[h.tx] = "pending"
      BY <1>1, <2>4, <3>1, MergeCallFacts DEF MergeChild
    <3>3. PICK t : t = h.tx
      OBVIOUS
    <3>4. CASE UNCHANGED <<status, entries>>
      <4>1. UNCHANGED <<queue, life>>
        BY <2>4, <3>4, Zenon DEF MergeChild, queue
      <4> QED BY <1>2, <4>1
    <3>5. ASSUME NEW c, cached[c] # None, c \in Surfaces,
                 entries' = [entries EXCEPT ![t] = @ \o entries[cached[c]],
                                            ![cached[c]] = <<>>],
                 status' = [status EXCEPT ![cached[c]] = "free"]
          PROVE  LinksSame
      <4>1. PICK v : v = cached[c]
        OBVIOUS
      <4>2. v \in Transactions /\ status[v] = "pending"
        BY <1>1, <3>5, <4>1 DEF TypeOK, Settled, Subtrees
      <4>3. /\ \A u \in Transactions : u # t /\ u # v => entries'[u] = entries[u]
            /\ \A u \in Transactions : u # v => status'[u] = status[u]
            /\ status'[v] = "free"
        BY <1>1, <3>2, <3>3, <3>5, <4>1, <4>2 DEF TypeOK
      <4>4. ~Committed(t) /\ ~Committed(v) /\ ~Committed(v)'
        BY <3>2, <3>3, <4>2, <4>3 DEF Committed
      <4>5. UNCHANGED <<life, first, last>>
        BY <2>4, Zenon DEF MergeChild
      <4>6. \A x \in Surfaces : life[x] = "dead" => first[x] = None /\ last[x] = None
        BY <1>1 DEF Ends
      <4> QED BY <4>3, <4>4, <4>5, <4>6 DEF LinksSame
    <3>6. PICK holders :
             /\ holders = {c \in children[h.surface] : cached[c] # None}
             /\ IF holders = {} THEN UNCHANGED <<status, entries>>
                ELSE LET c == CHOOSE x \in holders : TRUE
                     IN  /\ entries' = [entries EXCEPT ![t] = @ \o entries[cached[c]],
                                                       ![cached[c]] = <<>>]
                         /\ status' = [status EXCEPT ![cached[c]] = "free"]
      BY <2>4, <3>1, <3>3, Zenon DEF MergeChild
    <3>7. CASE holders = {}
      BY <3>4, <3>6, <3>7
    <3>8. CASE holders # {}
      <4>1. PICK c : c = CHOOSE x \in holders : TRUE
        OBVIOUS
      <4>2. c \in holders
        BY <3>8, <4>1, SMTT(60)
      <4>3. h.surface \in Surfaces
        BY <1>1, <2>4, <3>1, MergeCallFacts DEF MergeChild
      <4>4. c \in Surfaces /\ cached[c] # None
        BY <1>1, <3>6, <4>2, <4>3 DEF TypeOK
      <4> QED BY <3>5, <3>6, <3>8, <4>1, <4>4
    <3> QED BY <3>7, <3>8
  <2>5. ASSUME AddSurface PROVE LinksSame
    <3>1. PICK h : h = Head(stack)
      OBVIOUS
    <3>2. h \in Calls /\ h.op = "add" /\ h.tx \in Transactions
      <4>1. stack # <<>> /\ h \in CallType /\ h.op = "add"
        BY <1>1, <2>5, <3>1, RunningCall DEF AddSurface
      <4> QED BY <1>1, <3>1, <4>1, CallPlaces, CallFields
    <3>3. status[h.tx] = "pending"
      BY <1>1, <3>2 DEF Settled, Building, BuiltBy
    <3>4. PICK w : entries' = [entries EXCEPT ![h.tx] = w]
      BY <2>5, <3>1, Zenon DEF AddSurface
    <3>5. \A u \in Transactions : u # h.tx => entries'[u] = entries[u]
      BY <1>1, <3>4 DEF TypeOK
    <3>6. UNCHANGED <<status, life, first, last>>
      BY <2>5, Zenon DEF AddSurface
    <3>7. ~Committed(h.tx)
      BY <3>3 DEF Committed
    <3>8. \A x \in Surfaces : life[x] = "dead" => first[x] = None /\ last[x] = None
      BY <1>1 DEF Ends
    <3> QED BY <3>5, <3>6, <3>7, <3>8 DEF LinksSame
  <2>6. ASSUME LinkSubsurface PROVE FALSE
    <3>1. stack # <<>> /\ Head(stack).op = "addChild"
      BY <1>1, <2>6, RunningCall DEF LinkSubsurface
    <3> QED BY <1>1, <3>1, CallPlaces DEF Nesting, NestedIn
  <2>7. ASSUME Destroyed PROVE LinksSame /\ SurfacesStay
    <3>1. PICK s \in Head(stack).todo :
             /\ Unlinked(s) /\ life' = [life EXCEPT ![s] = "dead"]
             /\ first' = [first EXCEPT ![s] = None] /\ last' = [last EXCEPT ![s] = None]
      BY <2>7, Zenon DEF Destroyed
    <3>2. Running("destroyed") /\ "destroyed" \in SurfaceCalls
      BY <2>7 DEF Destroyed, SurfaceCalls
    <3>3. s \in Surfaces
      BY <3>1, <3>2, LoopFacts
    <3>4. \A x \in Surfaces :
             /\ life'[x] = IF x = s THEN "dead" ELSE life[x]
             /\ first'[x] = IF x = s THEN None ELSE first[x]
             /\ last'[x] = IF x = s THEN None ELSE last[x]
      BY <1>1, <3>1, <3>3 DEF TypeOK
    <3>5. LeavesTree(s)
      BY <1>1, <3>1, <3>3, UnlinkedFacts
    <3> QED BY <1>1, <3>3, <3>4, <3>5, LeavesTreeLinks
  <2> QED BY <1>2, <1>4, <2>1, <2>2, <2>3, <2>4, <2>5, <2>6, <2>7 DEF Call
<1>5. CASE SomeFenceSignaled
  <2>1. PICK t \in Transactions : \E i \in DOMAIN entries[t] : FenceSignaled(t, i)
    BY <1>5 DEF SomeFenceSignaled
  <2>2. PICK i \in DOMAIN entries[t] : FenceSignaled(t, i)
    BY <2>1
  <2>3. /\ entries' = [entries EXCEPT ![t][i].fence = FALSE]
        /\ UNCHANGED <<life, first, last, status>>
    BY <2>2, Zenon DEF FenceSignaled
  <2>4. ASSUME NEW u \in Transactions
        PROVE  /\ DOMAIN entries'[u] = DOMAIN entries[u]
               /\ \A k \in DOMAIN entries[u] :
                     /\ entries'[u][k].surface = entries[u][k].surface
                     /\ entries'[u][k].prev = entries[u][k].prev
                     /\ entries'[u][k].next = entries[u][k].next
    <3>1. /\ entries \in [Transactions -> Seq(EntryType)]
          /\ \A k \in DOMAIN entries[u] : entries[u][k] \in EntryType
      BY <1>1, EntryFields DEF TypeOK
    <3> QED BY <2>3, <3>1 DEF EntryType
  <2> QED BY <1>1, <2>3, <2>4, LinksUnchanged
<1>6. CASE SomeBarrierCleared
  <2>1. UNCHANGED <<queue, life>>
    BY <1>6, Zenon DEF SomeBarrierCleared, ClearFifoBarrier
  <2> QED BY <1>2, <2>1
<1> QED BY <1>3, <1>4, <1>5, <1>6 DEF Next

\* What apply() has yet to do stays as it was, unless it is what runs.
LEMMA OthersKeepLeft ==
    ASSUME QueueInv, QueueInv', Next, ~Commit, ~Unlink,
           ~(TryApply /\ IsReady(Head(stack).tx)), LinksSame,
           NEW t \in Transactions, Committed(t)
    PROVE  Left(t)' = Left(t)
<1>1. /\ TypeOK /\ Nesting /\ TypeOK' /\ Nesting'
      /\ DOMAIN entries'[t] = DOMAIN entries[t] /\ status'[t] = status[t]
  BY DEF QueueInv, Settled, LinksSame
<1>2. CASE status[t] = "queued"
  <2>1. Left(t) = DOMAIN entries[t]
    BY <1>1, <1>2, QueuedIsWhole
  <2>3. \A d \in Calls' : d.op = "unlink" => d.tx # t
    <3> SUFFICES ASSUME NEW d \in Calls', d.op = "unlink", d.tx = t PROVE FALSE
      OBVIOUS
    <3>1. PICK k \in DOMAIN stack' : stack'[k] = d
      BY DEF Calls
    <3>2. status'[t] = "applying"
      BY <1>1, <3>1 DEF Nesting, NestedIn, ApplyCalls
    <3> QED BY <1>1, <1>2, <3>2
  <2>4. Left(t)' = DOMAIN entries'[t]
    BY <2>3 DEF Left
  <2> QED BY <1>1, <2>1, <2>4
<1>3. CASE status[t] = "applying"
  <2>1. /\ stack # <<>>
        /\ Head(stack).op \notin BuildOps \cup DesyncOps \cup {"destroyed", "addChild"}
    <3>1. stack # <<>> => \/ Head(stack).op \in ApplyCalls
                          \/ CallersOf(Head(stack).op) \cap ApplyCalls # {}
      BY <1>1, <1>3, OuterApplying
    <3>2. stack # <<>>
      BY <1>1, <1>3, OuterApplying
    <3>3. Head(stack).op # "addChild"
      BY <1>1, <3>2, CallPlaces DEF Nesting, NestedIn
    <3> QED BY <3>1, <3>2, <3>3, CallersFacts DEF BuildOps, DesyncOps, ApplyCalls
  <2>2. \A op : Running(op) => op \notin BuildOps \cup DesyncOps \cup {"destroyed", "addChild"}
    BY <2>1 DEF Running
  <2>3. LoopDone \/ TryApply \/ ApplyState \/ UpdateMapped \/ ClearUnmapped
          \/ TryChildren \/ TryFirst
    <3>1. ~Idle
      BY <2>1 DEF Idle
    <3>2. ~Request
      BY <3>1, Zenon DEF Request, SurfaceCommit, SetSync, SetDesync, GetSubsurface,
         DestroySubsurface, DestroySurface, ToggleRole, Disconnect
    <3>3. ~SomeFenceSignaled /\ ~SomeBarrierCleared
      BY <3>1, Zenon DEF SomeFenceSignaled, FenceSignaled, SomeBarrierCleared,
         ClearFifoBarrier, EventLoop
    <3>4. /\ ~Running("merge") /\ ~Running("add") /\ ~Running("destroyed")
          /\ ~Running("addChild") /\ ~Running("parentDesynchronized")
          /\ ~Running("desynchronizeChildren")
      BY <2>2 DEF BuildOps, DesyncOps
    <3>5. ~MergeChild /\ ~AddSurface /\ ~LinkSubsurface /\ ~Destroyed
      BY <3>4, Zenon DEF MergeChild, AddSurface, LinkSubsurface, Destroyed
    <3>6. ~ParentDesynchronized /\ ~DesynchronizeChildren
      BY <3>4, Zenon DEF ParentDesynchronized, DesynchronizeChildren
    <3> QED BY <3>2, <3>3, <3>5, <3>6, Zenon DEF Next, Call
  <2>4. ASSUME ReturnVia(<<>>), Head(stack).op # "unlink"
        PROVE  \E cs : Replaced(stack, cs, stack') /\ QuietCalls(cs)
    <3>1. PICK cs : cs = <<>>
      OBVIOUS
    <3>2. cs \in Seq(CallType) /\ DOMAIN cs = {}
      BY <3>1, EmptySeq
    <3>3. Replaced(stack, cs, stack')
      BY <1>1, <2>1, <2>4, <3>1, <3>2, ReturnReplaces
    <3>4. QuietCalls(cs)
      BY <2>1, <2>4, <3>2 DEF QuietCalls
    <3> QED BY <3>3, <3>4
  <2>5. ASSUME LoopDone PROVE \E cs : Replaced(stack, cs, stack') /\ QuietCalls(cs)
    <3>1. ReturnVia(<<>>) /\ Head(stack).op # "unlink"
      BY <2>5 DEF LoopDone, SurfaceCalls
    <3> QED BY <2>4, <3>1
  <2>6. ASSUME TryApply PROVE \E cs : Replaced(stack, cs, stack') /\ QuietCalls(cs)
    <3>1. ReturnVia(<<>>)
      BY <2>6, Zenon DEF TryApply
    <3>2. Running("tryApply")
      BY <2>6, Zenon DEF TryApply
    <3> QED BY <2>4, <3>1, <3>2 DEF Running
  <2>7. ASSUME ApplyState PROVE \E cs : Replaced(stack, cs, stack') /\ QuietCalls(cs)
    BY <2>7, ApplyCallsMade
  <2>8. ASSUME NEW op \in SurfaceCalls, Running(op), op \notin DesyncOps, NEW s,
               \/ VisitVia(s, <<>>)
               \/ \E a \in CallType : /\ VisitVia(s, <<a>>)
                                      /\ a.op \in {"updateMapped", "tryFirst", "tryApply"}
        PROVE  \E cs : Replaced(stack, cs, stack') /\ QuietCalls(cs)
    <3>1. \A a : a.op \in {"updateMapped", "tryFirst", "tryApply"}
                   => a.op \notin BuildOps \cup ApplyCalls \cup DesyncOps
      BY DEF BuildOps, ApplyCalls, DesyncOps
    <3>2. \/ VisitVia(s, <<>>)
          \/ \E a \in CallType : /\ VisitVia(s, <<a>>)
                                 /\ a.op \notin BuildOps \cup ApplyCalls \cup DesyncOps
      <4>1. CASE VisitVia(s, <<>>)
        BY <4>1
      <4>2. ASSUME NEW a \in CallType, VisitVia(s, <<a>>),
                   a.op \in {"updateMapped", "tryFirst", "tryApply"}
            PROVE  \E b \in CallType : /\ VisitVia(s, <<b>>)
                                       /\ b.op \notin BuildOps \cup ApplyCalls \cup DesyncOps
        <5>1. a.op \notin BuildOps \cup ApplyCalls \cup DesyncOps
          BY <3>1, <4>2
        <5> QED BY <4>2, <5>1, Zenon
      <4> QED BY <2>8, <4>1, <4>2, Zenon
    <3>3. QueueInv /\ op \in SurfaceCalls /\ Running(op) /\ op \notin DesyncOps
      BY <2>8
    <3>4. \E cs : /\ Replaced(stack, cs, stack') /\ QuietCalls(cs)
                 /\ \A k \in DOMAIN cs : cs[k].op \notin DesyncOps
      BY <3>2, <3>3, VisitCalls, Zenon
    <3> QED BY <3>4
  <2>9. \A s \in Surfaces : current[s].children \in SUBSET Surfaces
    BY <1>1 DEF TypeOK, StateType
  <2>10. ASSUME NEW op \in SurfaceCalls, Running(op) PROVE Head(stack).todo \subseteq Surfaces
    BY <2>10, LoopFacts
  <2>11. ASSUME UpdateMapped PROVE \E cs : Replaced(stack, cs, stack') /\ QuietCalls(cs)
    <3>1. Running("updateMapped") /\ "updateMapped" \in SurfaceCalls
      BY <2>11 DEF UpdateMapped, SurfaceCalls
    <3>2. PICK s \in Head(stack).todo :
             \/ VisitVia(s, <<>>)
             \/ VisitVia(s, <<OnSurfaces("updateMapped", current[s].children)>>)
      BY <2>11 DEF UpdateMapped
    <3>3. PICK a : a = OnSurfaces("updateMapped", current[s].children)
      OBVIOUS
    <3>4. s \in Surfaces
      BY <2>10, <3>1, <3>2
    <3>5. a \in CallType /\ a.op = "updateMapped"
      BY <2>9, <3>1, <3>3, <3>4, CallsTyped DEF OnSurfaces
    <3> QED BY <2>8, <3>1, <3>2, <3>3, <3>5 DEF DesyncOps
  <2>12. ASSUME ClearUnmapped PROVE \E cs : Replaced(stack, cs, stack') /\ QuietCalls(cs)
    <3>1. Running("clearUnmapped") /\ "clearUnmapped" \in SurfaceCalls
      BY <2>12 DEF ClearUnmapped, SurfaceCalls
    <3>2. PICK s : VisitVia(s, <<>>)
      BY <2>12 DEF ClearUnmapped
    <3> QED BY <2>8, <3>1, <3>2 DEF DesyncOps
  <2>13. ASSUME TryChildren PROVE \E cs : Replaced(stack, cs, stack') /\ QuietCalls(cs)
    <3>1. Running("tryChildren") /\ {"tryChildren", "tryFirst"} \subseteq SurfaceCalls
      BY <2>13 DEF TryChildren, SurfaceCalls
    <3>2. PICK s \in Head(stack).todo :
             \/ VisitVia(s, <<>>)
             \/ VisitVia(s, <<OnSurfaces("tryFirst", current[s].children)>>)
      BY <2>13 DEF TryChildren
    <3>3. PICK a : a = OnSurfaces("tryFirst", current[s].children)
      OBVIOUS
    <3>4. s \in Surfaces
      BY <2>10, <3>1, <3>2
    <3>5. a \in CallType /\ a.op = "tryFirst"
      BY <2>9, <3>1, <3>3, <3>4, CallsTyped DEF OnSurfaces
    <3> QED BY <2>8, <3>1, <3>2, <3>3, <3>5 DEF DesyncOps
  <2>14. ASSUME TryFirst PROVE \E cs : Replaced(stack, cs, stack') /\ QuietCalls(cs)
    <3>1. Running("tryFirst") /\ "tryFirst" \in SurfaceCalls
      BY <2>14 DEF TryFirst, SurfaceCalls
    <3>2. PICK s \in Head(stack).todo : VisitVia(s, CallOnTx("tryApply", first[s]))
      BY <2>14 DEF TryFirst
    <3>3. PICK a : a = OnTx("tryApply", first[s])
      OBVIOUS
    <3>4. first[s] # None => a \in CallType /\ a.op = "tryApply"
      <4>1. first[s] # None => first[s] \in Transactions
        BY <1>1, <2>10, <3>1, <3>2 DEF TypeOK
      <4> QED BY <3>3, <4>1, CallsTyped DEF OnTx
    <3>5. VisitVia(s, <<>>) \/ (first[s] # None /\ VisitVia(s, <<a>>))
      BY <3>2, <3>3 DEF CallOnTx
    <3> QED BY <2>8, <3>1, <3>4, <3>5 DEF DesyncOps
  <2>15. PICK cs : Replaced(stack, cs, stack') /\ QuietCalls(cs)
    BY <2>3, <2>5, <2>6, <2>7, <2>11, <2>12, <2>13, <2>14
  <2> QED BY <1>1, <2>15, LeftKept
<1> QED BY <1>2, <1>3 DEF Committed

------------------------------------------------------------------------------
(* One entry for each surface                                               *)

\* A sub-surface of a main surface gathers its own commits.
LEMMA LeafGathered ==
    ASSUME TwoLevels, NEW c \in Surfaces, InitialParent[c] # None, NEW t, Gathered(t, c)
    PROVE  SurfacesOf(t) \subseteq {c}
<1> USE ConstantsAssumption
<1>1. ASSUME NEW x \in Below(c) PROVE FALSE
  <2>1. /\ x \in Surfaces /\ InitialParent[x] \in Below(c) \cup {c}
        /\ Below(c) \subseteq Surfaces
        /\ \A y \in Below(c) : InitialParent[y] \in Below(c) \cup {c}
    BY BelowFacts
  <2>2. PICK y : y = InitialParent[x]
    OBVIOUS
  <2>3. y \in Surfaces /\ InitialParent[y] \in Surfaces \cup {None} /\ y # None
    BY <2>1, <2>2
  <2>4. InitialParent[y] = None
    BY <2>1, <2>2, <2>3 DEF TwoLevels
  <2>5. y # c
    BY <2>4
  <2>6. InitialParent[y] \in Surfaces
    BY <2>1, <2>2, <2>5
  <2> QED BY <2>4, <2>6
<1> QED BY <1>1 DEF Gathered

LEMMA MergedOnce ==
    ASSUME NEW es \in Seq(EntryType), NEW fs \in Seq(EntryType), NEW w, w = es \o fs,
           \A i, j \in DOMAIN es : es[i].surface = es[j].surface => i = j,
           \A i, j \in DOMAIN fs : fs[i].surface = fs[j].surface => i = j,
           \A i \in DOMAIN es : \A j \in DOMAIN fs : es[i].surface # fs[j].surface
    PROVE  \A i, j \in DOMAIN w : w[i].surface = w[j].surface => i = j
<1>1. PICK m, n : m = Len(es) /\ n = Len(fs)
  OBVIOUS
<1>2. m \in Nat /\ n \in Nat /\ DOMAIN es = 1..m /\ DOMAIN fs = 1..n
  BY <1>1, LenProperties
<1>3. /\ w \in Seq(EntryType) /\ Len(w) = m + n
      /\ \A i \in 1..(m + n) : w[i] = IF i <= m THEN es[i] ELSE fs[i - m]
  BY <1>1, ConcatProperties
<1>4. DOMAIN w = 1..(m + n)
  BY <1>3, LenProperties
<1>5. ASSUME NEW i \in DOMAIN w
      PROVE  \/ i <= m /\ i \in DOMAIN es /\ w[i] = es[i]
             \/ ~(i <= m) /\ i - m \in DOMAIN fs /\ w[i] = fs[i - m]
  BY <1>2, <1>3, <1>4
<1> SUFFICES ASSUME NEW i \in DOMAIN w, NEW j \in DOMAIN w, w[i].surface = w[j].surface
             PROVE  i = j
  OBVIOUS
<1>6. CASE i <= m /\ j <= m
  BY <1>5, <1>6
<1>7. CASE ~(i <= m) /\ ~(j <= m)
  <2>1. i - m = j - m
    BY <1>5, <1>7
  <2> QED BY <1>2, <1>4, <2>1
<1>8. CASE (i <= m /\ ~(j <= m)) \/ (~(i <= m) /\ j <= m)
  BY <1>5, <1>8
<1> QED BY <1>6, <1>7, <1>8

\* merge() takes over what a child has cached, or returns.
LEMMA MergeTakes ==
    ASSUME QueueInv, MergeChild, NEW h, h = Head(stack)
    PROVE  \/ UNCHANGED <<cached, status, entries>>
           \/ /\ stack' = stack
              /\ \E v, c : v # None /\ Takes(h.tx, v, c) /\ InitialParent[c] = h.surface
<1> DEFINE holders == {c \in children[h.surface] : cached[c] # None}
<1>1. TypeOK /\ Nesting /\ Settled /\ Children /\ Running("merge")
  BY DEF QueueInv, Settled, MergeChild
<1>2. h.surface \in Surfaces
  BY <1>1, MergeCallFacts
<1>3. UNCHANGED <<life, clientGone, sub, parent, children, current, first, last>>
  BY DEF MergeChild, tree, shown
<1>4. CASE holders = {}
  BY <1>4, Zenon DEF MergeChild
<1>5. CASE holders # {}
  <2>1. PICK c : c = CHOOSE x \in holders : TRUE
    OBVIOUS
  <2>2. /\ entries' = [entries EXCEPT ![h.tx] = @ \o entries[cached[c]],
                                      ![cached[c]] = <<>>]
        /\ status' = [status EXCEPT ![cached[c]] = "free"]
        /\ cached' = [cached EXCEPT ![c] = None]
        /\ UNCHANGED stack
    BY <1>5, <2>1, Zenon DEF MergeChild
  <2>3. c \in children[h.surface] /\ cached[c] # None
    BY <1>5, <2>1
  <2>4. c \in Surfaces /\ InitialParent[c] = h.surface
    BY <1>1, <1>2, <2>3 DEF TypeOK, Children
  <2>5. PICK v : v = cached[c]
    OBVIOUS
  <2>6. Takes(h.tx, v, c)
    BY <1>3, <2>2, <2>4, <2>5 DEF Takes
  <2> QED BY <2>2, <2>3, <2>4, <2>5, <2>6
<1> QED BY <1>4, <1>5, SMTT(60)

LEMMA MergeKeepsSingles ==
    ASSUME TwoLevels, QueueInv, MergeChild, Singles, Apart
    PROVE  Singles' /\ Apart'
<1> USE ConstantsAssumption
<1>1. TypeOK /\ Nesting /\ Settled /\ Running("merge")
  BY DEF QueueInv, Settled, MergeChild
<1>2. PICK h : h = Head(stack)
  OBVIOUS
<1>3. /\ stack # <<>> /\ h \in Calls /\ h.op = "merge"
      /\ h.tx \in Transactions /\ h.surface \in Surfaces /\ status[h.tx] = "pending"
      /\ \A x \in Surfaces : cached[x] = h.tx => x = h.surface
      /\ \A d \in Calls : d.op = "merge" => d = h
  BY <1>1, <1>2, MergeCallFacts
<1>4. \A d \in Calls' : d.op = "merge" => d = h
  <2>1. ReturnVia(<<>>) \/ UNCHANGED stack
    BY Zenon DEF MergeChild
  <2>2. CASE UNCHANGED stack
    BY <1>3, <2>2 DEF Calls
  <2>3. CASE ReturnVia(<<>>)
    <3>1. PICK cs : cs = <<>>
      OBVIOUS
    <3>2. cs \in Seq(CallType) /\ DOMAIN cs = {}
      BY <3>1, EmptySeq
    <3>3. Replaced(stack, cs, stack')
      BY <1>1, <1>3, <2>3, <3>1, <3>2, ReturnReplaces
    <3>4. \A d \in Calls' : d \in Calls
      BY <1>1, <3>2, <3>3, CallsAfter DEF Calls
    <3> QED BY <1>3, <3>4
  <2> QED BY <2>1, <2>2, <2>3
<1>5. CASE UNCHANGED <<cached, status, entries>>
  <2>1. Singles'
    BY <1>5 DEF Singles, Single, Committed
  <2>2. \A t : SurfacesOf(t)' = SurfacesOf(t)
    BY <1>5 DEF SurfacesOf
  <2>3. Apart'
    BY <1>3, <1>4, <1>5, <2>2 DEF Apart
  <2> QED BY <2>1, <2>3
<1>6. ASSUME NEW v, NEW c, v # None, Takes(h.tx, v, c), InitialParent[c] = h.surface
      PROVE  Singles' /\ Apart'
  <2>1. PICK t, s : t = h.tx /\ s = h.surface
    OBVIOUS
  <2>2. /\ c \in Surfaces /\ cached[c] = v /\ v \in Transactions
        /\ InitialParent[c] = s /\ s \in Surfaces /\ t \in Transactions
    BY <1>1, <1>3, <1>6, <2>1 DEF Takes, TypeOK
  <2>3. status[v] = "pending" /\ Gathered(v, c)
    BY <1>1, <1>6, <2>2 DEF Settled, Subtrees
  <2>4. SurfacesOf(v) \subseteq {c} /\ c # s
    <3>1. InitialParent[c] # None /\ (InitialParent[c] # None => InitialParent[s] = None)
      BY <2>2 DEF TwoLevels
    <3>2. SurfacesOf(v) \subseteq {c}
      BY <2>2, <2>3, <3>1, LeafGathered
    <3> QED BY <2>2, <3>1, <3>2
  <2>5. c \notin SurfacesOf(t)
    BY <1>3, <1>6, <2>1, <2>2 DEF Apart
  <2>6. t # v
    BY <1>3, <2>1, <2>2, <2>4
  <2>7. PICK es, fs, w : es = entries[t] /\ fs = entries[v] /\ w = es \o fs
    OBVIOUS
  <2>8. es \in Seq(EntryType) /\ fs \in Seq(EntryType)
    BY <1>1, <2>2, <2>7 DEF TypeOK
  <2>9. /\ entries'[t] = w /\ entries'[v] = <<>>
        /\ \A u \in Transactions : u # t /\ u # v => entries'[u] = entries[u]
        /\ status'[v] = "free"
        /\ \A u \in Transactions : u # v => status'[u] = status[u]
    BY <1>1, <1>6, <2>1, <2>2, <2>6, <2>7 DEF TypeOK, Takes
  <2>10. ~Committed(t) /\ ~Committed(v)
    BY <1>3, <2>1, <2>3 DEF Committed
  <2>11. Single(t) /\ Single(v)
    BY <2>2, <2>10 DEF Singles
  <2>12. \A i, j \in DOMAIN w : w[i].surface = w[j].surface => i = j
    <3>1. \A i \in DOMAIN es : es[i].surface # c
      BY <2>5, <2>7 DEF SurfacesOf
    <3>2. \A j \in DOMAIN fs : fs[j].surface = c
      BY <2>4, <2>7 DEF SurfacesOf
    <3>3. /\ \A i, j \in DOMAIN es : es[i].surface = es[j].surface => i = j
          /\ \A i, j \in DOMAIN fs : fs[i].surface = fs[j].surface => i = j
      BY <2>7, <2>11 DEF Single
    <3>4. \A i \in DOMAIN es : \A j \in DOMAIN fs : es[i].surface # fs[j].surface
      BY <3>1, <3>2
    <3>5. w = es \o fs
      BY <2>7
    <3> QED BY <2>8, <3>3, <3>4, <3>5, MergedOnce, ZenonT(60)
  <2>13. Singles'
    <3> SUFFICES ASSUME NEW u \in Transactions, ~Committed(u)' PROVE Single(u)'
      BY DEF Singles
    <3>1. CASE u = t
      BY <2>9, <2>12, <3>1 DEF Single
    <3>2. CASE u = v
      BY <2>9, <3>2 DEF Single
    <3>3. CASE u # t /\ u # v
      BY <2>9, <3>3 DEF Singles, Single, Committed
    <3> QED BY <3>1, <3>2, <3>3
  <2>14. SurfacesOf(t)' \subseteq SurfacesOf(t) \cup {c}
    <3>1. Merged(es, fs, w)
      BY <2>7, <2>8, MergedEntries
    <3>2. \A i \in DOMAIN w : w[i].surface \in SurfacesOf(t) \cup SurfacesOf(v)
      <4> SUFFICES ASSUME NEW i \in DOMAIN w
                   PROVE  w[i].surface \in SurfacesOf(t) \cup SurfacesOf(v)
        OBVIOUS
      <4>1. (\E k \in DOMAIN es : w[i] = es[k]) \/ (\E k \in DOMAIN fs : w[i] = fs[k])
        BY <3>1, Zenon DEF Merged
      <4>2. ASSUME NEW k \in DOMAIN es, w[i] = es[k] PROVE w[i].surface \in SurfacesOf(t)
        BY <2>7, <4>2 DEF SurfacesOf
      <4>3. ASSUME NEW k \in DOMAIN fs, w[i] = fs[k] PROVE w[i].surface \in SurfacesOf(v)
        BY <2>7, <4>3 DEF SurfacesOf
      <4> QED BY <4>1, <4>2, <4>3
    <3>3. SurfacesOf(t)' = {w[i].surface : i \in DOMAIN w}
      BY <2>9, Zenon DEF SurfacesOf
    <3>4. \A i \in DOMAIN w : w[i].surface \in SurfacesOf(t) \cup {c}
      BY <2>4, <3>2
    <3> QED BY <3>3, <3>4
  <2>15. Apart'
    <3> SUFFICES ASSUME NEW d \in Calls', d.op = "merge", NEW x \in Surfaces,
                        InitialParent[x] = d.surface, cached'[x] # None
                 PROVE  x \notin SurfacesOf(d.tx)'
      BY DEF Apart
    <3>1. d = h
      BY <1>4
    <3>2. cached' = [cached EXCEPT ![c] = None]
      BY <1>6 DEF Takes
    <3>3. x # c /\ cached[x] # None
      BY <1>1, <2>2, <3>2 DEF TypeOK
    <3>4. x \notin SurfacesOf(h.tx)
      BY <1>3, <3>1, <3>3 DEF Apart
    <3> QED BY <2>1, <2>14, <3>1, <3>3, <3>4
  <2> QED BY <2>13, <2>15
<1> QED BY <1>2, <1>5, <1>6, MergeTakes, SMTT(60)

LEMMA AddKeepsSingles ==
    ASSUME QueueInv, AddSurface, Singles
    PROVE  Singles'
<1>1. TypeOK /\ Running("add")
  BY DEF QueueInv, Settled, AddSurface
<1>2. PICK h : h = Head(stack)
  OBVIOUS
<1>3. h \in Calls /\ h.tx \in Transactions /\ h.surface \in Surfaces /\ h.state \in StateType
  BY <1>1, <1>2, RunningCall, CallFields, CallPlaces
<1>4. PICK t, s, state : t = h.tx /\ s = h.surface /\ state = h.state
  OBVIOUS
<1>5. PICK w : w = WithState(t, s, state)
  OBVIOUS
<1>6. entries' = [entries EXCEPT ![t] = w] /\ UNCHANGED status
  BY <1>2, <1>4, <1>5 DEF AddSurface
<1>7. /\ \A u \in Transactions : u # t => entries'[u] = entries[u]
      /\ entries'[t] = w
  BY <1>1, <1>3, <1>4, <1>6 DEF TypeOK
<1>8. PICK fresh : fresh = [surface |-> s, state |-> state, fence |-> FALSE,
                            prev |-> None, next |-> None]
  OBVIOUS
<1>9. PICK es : es = entries[t]
  OBVIOUS
<1>10. /\ es \in Seq(EntryType) /\ DOMAIN es = 1..Len(es) /\ Len(es) \in Nat
       /\ \A i \in DOMAIN es : es[i] \in EntryType
  BY <1>1, <1>3, <1>4, <1>9, LenProperties, ElementOfSeq DEF TypeOK
<1>11. ASSUME Single(t) PROVE \A i, j \in DOMAIN w : w[i].surface = w[j].surface => i = j
  <2>1. \A i, j \in DOMAIN es : es[i].surface = es[j].surface => i = j
    BY <1>9, <1>11 DEF Single
  <2>2. PICK same : same = EntriesOf(t, s)
    OBVIOUS
  <2>3. same = {i \in DOMAIN es : es[i].surface = s}
    BY <1>9, <2>2 DEF EntriesOf
  <2>4. CASE same = {}
    <3>1. w = Append(es, fresh)
      BY <1>5, <1>8, <1>9, <2>2, <2>4 DEF WithState
    <3>2. fresh.surface = s /\ fresh \in EntryType
      BY <1>3, <1>4, <1>8, ConstantsAssumption DEF EntryType
    <3>3. /\ w \in Seq(EntryType) /\ Len(w) = Len(es) + 1
          /\ \A i \in 1..Len(es) : w[i] = es[i]
          /\ w[Len(es) + 1] = fresh
      BY <1>10, <3>1, <3>2, AppendProperties
    <3>4. DOMAIN w = 1..(Len(es) + 1)
      BY <3>3, LenProperties
    <3>5. \A i \in DOMAIN w : \/ i \in DOMAIN es /\ w[i] = es[i] /\ w[i].surface # s
                              \/ i = Len(es) + 1 /\ w[i].surface = s
      BY <1>10, <2>3, <2>4, <3>2, <3>3, <3>4
    <3> QED BY <2>1, <3>5
  <2>5. CASE same # {}
    <3>1. same \in SUBSET Nat
      BY <1>10, <2>3
    <3>2. PICK m : m = CHOOSE j \in same : \A k \in same : j <= k
      OBVIOUS
    <3>3. m \in same
      BY <2>5, <3>1, <3>2, LeastPlace
    <3>4. w = [es EXCEPT ![m].state = MergeInto(state, @)]
      BY <1>5, <1>9, <2>2, <2>5, <3>2 DEF WithState
    <3>5. m \in DOMAIN es
      BY <2>3, <3>3
    <3>6. DOMAIN w = DOMAIN es /\ \A i \in DOMAIN es : i # m => w[i] = es[i]
      BY <1>10, <3>4, <3>5
    <3>7. PICK new : new = MergeInto(state, es[m].state)
      OBVIOUS
    <3>8. w[m] = [es[m] EXCEPT !.state = new]
      BY <1>10, <3>4, <3>5, <3>7
    <3>9. w[m].surface = es[m].surface
      BY <1>10, <3>5, <3>8 DEF EntryType
    <3> QED BY <2>1, <3>6, <3>9
  <2> QED BY <2>4, <2>5
<1> SUFFICES ASSUME NEW u \in Transactions, ~Committed(u)' PROVE Single(u)'
  BY DEF Singles
<1>12. ~Committed(u)
  BY <1>6 DEF Committed
<1>13. Single(u)
  BY <1>12 DEF Singles
<1>14. CASE u = t
  BY <1>7, <1>11, <1>13, <1>14 DEF Single
<1>15. CASE u # t
  BY <1>7, <1>13, <1>15 DEF Single
<1> QED BY <1>14, <1>15

\* A step other than wl_surface.commit and merge() leaves no call of merge().
LEMMA NoMerge ==
    ASSUME Reparented = {}, QueueInv, TypeOK', Next, ~MergeChild,
           ~ \E s \in Surfaces, shape \in CommitShapes : SurfaceCommit(s, shape)
    PROVE  \A d \in Calls' : d.op # "merge"
<1>1. TypeOK /\ Nesting
  BY DEF QueueInv, Settled
<1>2. CASE Call
  <2>1. PICK Ops : Ops = {"merge"}
    OBVIOUS
  <2>2. Shorter(Ops)
    BY <1>2, <2>1, LoopsShorten
  <2>3. ASSUME NEW d \in Calls, d.op = "merge" PROVE FALSE
    <3>1. PICK m \in DOMAIN stack : stack[m] = d
      BY DEF Calls
    <3>2. m = 1 \/ m > 1
      BY <1>1, CallPlaces
    <3>3. m = 1
      BY <1>1, <2>3, <3>1, <3>2, FurtherOut
    <3>4. stack # <<>>
      BY <1>1, <3>1, CallPlaces
    <3>5. Running("merge")
      BY <1>1, <2>3, <3>1, <3>3, <3>4, CallPlaces DEF Running
    <3>6. \A op : Running(op) => op = "merge"
      BY <3>5 DEF Running
    <3>7. \A op \in SurfaceCalls : ~Running(op)
      BY <3>6 DEF SurfaceCalls
    <3>8. ~LoopDone
      BY <3>7, Zenon DEF LoopDone, Running
    <3>9. /\ ~Running("add") /\ ~Running("commit") /\ ~Running("tryApply")
          /\ ~Running("applyStates") /\ ~Running("updateMapped") /\ ~Running("clearUnmapped")
          /\ ~Running("unlink") /\ ~Running("tryChildren") /\ ~Running("tryFirst")
          /\ ~Running("parentDesynchronized") /\ ~Running("desynchronizeChildren")
          /\ ~Running("addChild") /\ ~Running("destroyed")
      BY <3>6
    <3> QED BY <1>2, <3>8, <3>9, Zenon DEF Call, AddSurface, Commit, TryApply, ApplyState,
            UpdateMapped, ClearUnmapped, Unlink, TryChildren, TryFirst,
            ParentDesynchronized, DesynchronizeChildren, LinkSubsurface, Destroyed
  <2> QED BY <2>1, <2>2, <2>3 DEF Shorter
<1>3. ASSUME NEW a, stack' = <<a>>, a.op # "merge"
      PROVE  \A d \in Calls' : d.op # "merge"
  <2>1. PICK cs : cs = stack'
    OBVIOUS
  <2>2. DOMAIN cs = {1} /\ cs[1] = a
    BY <1>3, <2>1, OneFrame
  <2> QED BY <1>3, <2>1, <2>2 DEF Calls
<1>4. stack' = <<>> => Calls' = {}
  BY DEF Calls
<1>5. ASSUME NEW s \in Surfaces, SetSync(s) PROVE stack' = <<>>
  BY <1>5 DEF SetSync, Idle
<1>6. ASSUME NEW s \in Surfaces, SetDesync(s) PROVE \A d \in Calls' : d.op # "merge"
  <2>1. PICK a : a = OnSurfaces("parentDesynchronized", {s})
    OBVIOUS
  <2>2. a.op # "merge" /\ (stack' = <<>> \/ stack' = <<a>>)
    BY <1>6, <2>1 DEF SetDesync, OnSurfaces
  <2> QED BY <1>3, <1>4, <2>2
<1>7. ASSUME NEW s \in Surfaces, \E p \in Surfaces : GetSubsurface(s, p)
      PROVE  FALSE
  BY <1>7 DEF GetSubsurface
<1>8. ASSUME NEW s \in Surfaces, DestroySurface(s) PROVE \A d \in Calls' : d.op # "merge"
  <2>1. PICK a, b : a = OnSurfaces("tryFirst", {s}) /\ b = OnSurfaces("destroyed", {s})
    OBVIOUS
  <2>2. a.op # "merge" /\ b.op # "merge" /\ stack' = <<a, b>>
    BY <1>8, <2>1 DEF DestroySurface, OnSurfaces
  <2>3. PICK cs : cs = stack'
    OBVIOUS
  <2>4. DOMAIN cs = {1, 2} /\ cs[1] = a /\ cs[2] = b
    BY <2>2, <2>3, PlacesOfTwo
  <2> QED BY <2>2, <2>3, <2>4 DEF Calls
<1>9. ASSUME NEW s \in Surfaces, ToggleRole(s) \/ ClearFifoBarrier(s) \/ DestroySubsurface(s)
      PROVE  \A d \in Calls' : d.op # "merge"
  <2>1. PICK a : a = OnSurfaces("tryFirst", {s})
    OBVIOUS
  <2>2. a.op # "merge" /\ stack' = <<a>>
    BY <1>9, <2>1 DEF ToggleRole, ClearFifoBarrier, DestroySubsurface, OnSurfaces
  <2> QED BY <1>3, <2>2
<1>10. ASSUME NEW t \in Transactions, NEW i \in DOMAIN entries[t], FenceSignaled(t, i)
       PROVE  \A d \in Calls' : d.op # "merge"
  <2>1. PICK a : a = OnTx("tryApply", t)
    OBVIOUS
  <2>2. a.op # "merge" /\ stack' = <<a>>
    BY <1>10, <2>1 DEF FenceSignaled, OnTx
  <2> QED BY <1>3, <2>2
<1>11. Disconnect => stack' = <<>>
  BY DEF Disconnect, Idle
<1>12. CASE Request
  BY <1>4, <1>5, <1>6, <1>7, <1>8, <1>9, <1>11, <1>12, Zenon DEF Request
<1>13. CASE SomeFenceSignaled \/ SomeBarrierCleared
  BY <1>9, <1>10, <1>13 DEF SomeFenceSignaled, SomeBarrierCleared
<1> QED BY <1>2, <1>12, <1>13 DEF Next

\* No surface becomes a sub-surface again.
LEMMA SubsStay ==
    ASSUME Reparented = {}, QueueInv, Next
    PROVE  \A s \in Surfaces : sub'[s] => sub[s]
<1>1. TypeOK /\ Nesting
  BY DEF QueueInv, Settled
<1>2. UNCHANGED tree => UNCHANGED sub
  BY DEF tree
<1>3. ASSUME NEW s, Unlinked(s) PROVE \A x \in Surfaces : sub'[x] => sub[x]
  <2>1. sub' = [sub EXCEPT ![s] = FALSE]
    BY <1>3, Zenon DEF Unlinked
  <2> QED BY <1>1, <2>1 DEF TypeOK
<1>4. CASE Request
  <2>1. ASSUME NEW s \in Surfaces, NEW shape, SurfaceCommit(s, shape) PROVE UNCHANGED tree
    BY <2>1, Zenon DEF SurfaceCommit
  <2>2. ASSUME NEW s \in Surfaces, SetSync(s) \/ SetDesync(s) \/ ToggleRole(s)
        PROVE  UNCHANGED sub
    BY <2>2, Zenon DEF SetSync, SetDesync, ToggleRole
  <2>3. ASSUME NEW s \in Surfaces, DestroySurface(s) PROVE UNCHANGED tree
    BY <2>3, Zenon DEF DestroySurface
  <2>4. ASSUME NEW s \in Surfaces, NEW p \in Surfaces, GetSubsurface(s, p)
        PROVE  FALSE
    BY <2>4 DEF GetSubsurface
  <2>5. ASSUME NEW s \in Surfaces, DestroySubsurface(s) PROVE Unlinked(s)
    BY <2>5, Zenon DEF DestroySubsurface
  <2>6. Disconnect => UNCHANGED tree
    BY DEF Disconnect
  <2> QED BY <1>2, <1>3, <1>4, <2>1, <2>2, <2>3, <2>4, <2>5, <2>6 DEF Request
<1>5. CASE Call
  <2>1. ASSUME LoopDone \/ MergeChild \/ AddSurface \/ Commit \/ ApplyState
        PROVE  UNCHANGED tree
    BY <2>1, Zenon DEF LoopDone, MergeChild, AddSurface, Commit, ApplyState
  <2>2. ASSUME TryApply \/ Unlink \/ TryChildren \/ TryFirst \/ UpdateMapped \/ ClearUnmapped
        PROVE  UNCHANGED tree
    BY <2>2, Zenon DEF TryApply, Unlink, TryChildren, TryFirst, UpdateMapped, ClearUnmapped
  <2>3. ASSUME ParentDesynchronized \/ DesynchronizeChildren
        PROVE  UNCHANGED tree
    BY <2>3, Zenon DEF ParentDesynchronized, DesynchronizeChildren
  <2>4. ASSUME LinkSubsurface PROVE FALSE
    <3>1. stack # <<>> /\ Head(stack).op = "addChild"
      BY <1>1, <2>4, RunningCall DEF LinkSubsurface
    <3> QED BY <1>1, <3>1, CallPlaces DEF Nesting, NestedIn
  <2>5. Destroyed => \E s : Unlinked(s)
    BY Zenon DEF Destroyed
  <2> QED BY <1>2, <1>3, <1>5, <2>1, <2>2, <2>3, <2>4, <2>5 DEF Call
<1>6. CASE SomeFenceSignaled \/ SomeBarrierCleared
  BY <1>2, <1>6, Zenon DEF SomeFenceSignaled, FenceSignaled, SomeBarrierCleared,
     ClearFifoBarrier
<1> QED BY <1>4, <1>5, <1>6 DEF Next

\* A commit of a main surface starts with an empty transaction, and a
\* sub-surface has no children.
LEMMA CommitStartsApart ==
    ASSUME TwoLevels, QueueInv, SubsBelow, NEW s \in Surfaces,
           NEW shape \in CommitShapes, SurfaceCommit(s, shape)
    PROVE  Apart'
<1> USE ConstantsAssumption
<1>1. TypeOK /\ Outside
  BY DEF QueueInv, Settled
<1>2. PICK S : S = Synchronized(s)
  OBVIOUS
<1>3. PICK t \in Transactions : \E m, d, c : Prepares(s, t, S, m, d, c)
  BY <1>2, SurfaceCommitPrepares
<1>4. PICK m, d, c : Prepares(s, t, S, m, d, c)
  BY <1>3
<1>5. /\ m.tx = t /\ m.surface = s /\ d.op = "add" /\ c.op = "commit"
      /\ stack' = <<m, d>> \/ stack' = <<m, d, c>>
      /\ status[t] = "free" \/ (S /\ cached[s] = t)
      /\ cached' = IF S THEN [cached EXCEPT ![s] = t] ELSE cached
      /\ UNCHANGED entries
  BY <1>4 DEF Prepares
<1>6. \A e \in Calls' : e.op = "merge" => e = m
  <2>1. PICK cs : cs = stack'
    OBVIOUS
  <2>2. cs = <<m, d>> => DOMAIN cs = {1, 2} /\ cs[1] = m /\ cs[2] = d
    BY PlacesOfTwo
  <2>3. cs = <<m, d, c>> => DOMAIN cs = {1, 2, 3} /\ cs[1] = m /\ cs[2] = d /\ cs[3] = c
    BY PlacesOfThree
  <2>4. \A k \in DOMAIN cs : cs[k] \in {m, d, c}
    BY <1>5, <2>1, <2>2, <2>3
  <2> QED BY <1>5, <2>1, <2>4 DEF Calls
<1> SUFFICES ASSUME NEW x \in Surfaces, InitialParent[x] = s
             PROVE  x \notin SurfacesOf(t)'
  BY <1>5, <1>6 DEF Apart
<1>7. InitialParent[s] = None
  BY DEF TwoLevels
<1>8. ~sub[s]
  BY <1>7 DEF SubsBelow
<1>9. ~S
  <2>1. Up(s) = None
    BY <1>8 DEF Up
  <2>2. PICK A \in SUBSET Surfaces : A = {s}
    OBVIOUS
  <2>3. s \in A /\ \A b \in A : Up(b) # None => Up(b) \in A
    BY <2>1, <2>2
  <2>4. \A a \in Path(s) : a \in A
    BY <2>3 DEF Path
  <2> QED BY <1>2, <1>8, <2>2, <2>4 DEF Synchronized
<1>10. entries[t] = <<>>
  BY <1>1, <1>5, <1>9 DEF Outside
<1> QED BY <1>5, <1>10 DEF SurfacesOf

------------------------------------------------------------------------------
(* The lists of the specification                                           *)

LEMMA CommitLines ==
    ASSUME QueueInv, TypeOK', Lines, PrevsMatch, Alone, Singles, Commit
    PROVE  Lines' /\ PrevsMatch' /\ Alone' /\ Singles'
<1>1. PICK t \in Transactions : Joins(t)
  BY CommitJoins
<1>2. Settled
  BY DEF QueueInv
<1>3. ~Committed(t) /\ \A u \in Transactions : Committed(u)' <=> (Committed(u) \/ u = t)
  BY <1>1, <1>2, JoinsFacts
<1>4. Lines' /\ PrevsMatch' /\ Alone'
  BY <1>1, <1>2, <1>3, JoinsKeepsLines DEF Singles
<1>5. \A u \in Transactions : /\ DOMAIN entries'[u] = DOMAIN entries[u]
                              /\ \A i \in DOMAIN entries[u] :
                                    entries'[u][i].surface = entries[u][i].surface
  BY <1>1, ZenonT(60) DEF Joins
<1>6. Singles'
  BY <1>3, <1>5 DEF Singles, Single
<1> QED BY <1>4, <1>6

LEMMA TryApplyLines ==
    ASSUME QueueInv, TypeOK', Lines, PrevsMatch, Alone, Singles,
           TryApply, IsReady(Head(stack).tx)
    PROVE  Lines' /\ PrevsMatch' /\ Alone' /\ Singles'
<1>1. PICK t : t = Head(stack).tx
  OBVIOUS
<1>2. PICK p : Begins(t, p)
  <2>1. IsReady(t)
    BY <1>1
  <2> QED BY <1>1, <2>1, TryApplyBegins
<1>3. Settled /\ TypeOK
  BY DEF QueueInv, Settled
<1>4. t \in Transactions
  <2>1. Running("tryApply")
    BY Zenon DEF TryApply
  <2> QED BY <1>1, <1>3, <2>1, RunningCall, CallFields
<1>5. /\ \A u \in Transactions : u # t => entries'[u] = entries[u]
      /\ \A u \in Transactions : Committed(u)' = Committed(u)
      /\ Committed(t)
  BY <1>2, <1>3, <1>4, BeginsFacts
<1>6. Lines' /\ PrevsMatch' /\ Alone'
  BY <1>2, <1>3, <1>4, BeginsKeepsLines
<1>7. Singles'
  BY <1>5 DEF Singles, Single
<1> QED BY <1>6, <1>7

LEMMA UnlinkLines ==
    ASSUME QueueInv, TypeOK', Lines, PrevsMatch, Alone, Singles, Unlink
    PROVE  Lines' /\ PrevsMatch' /\ Alone' /\ Singles'
<1>1. Running("unlink") /\ TypeOK /\ Settled
  <2>1. Running("unlink")
    BY Zenon DEF Unlink
  <2> QED BY <2>1 DEF QueueInv, Settled
<1>2. PICK h, t, i : h = Head(stack) /\ t = h.tx /\ i = h.index
  OBVIOUS
<1>3. /\ stack # <<>> /\ h \in CallType /\ h.op = "unlink" /\ t \in Transactions
      /\ i \in Nat \ {0} /\ status[t] = "applying"
      /\ Left(t) = {k \in DOMAIN entries[t] : i <= k}
      /\ \A u \in Transactions : Committed(u) => \A k \in Left(u) : entries[u][k].next # t
  BY <1>1, <1>2, UnlinkFacts
<1>4. CASE i > Len(entries[t])
  <2>1. PICK cs : cs = <<>>
    OBVIOUS
  <2>2. /\ entries' = [entries EXCEPT ![t] = <<>>]
        /\ status' = [status EXCEPT ![t] = "free"]
        /\ ReturnVia(cs)
    BY <1>2, <1>4, <2>1, ZenonT(60) DEF Unlink
  <2>3. UNCHANGED life
    BY Zenon DEF Unlink
  <2>4. Left(t) = {}
    <3>1. \A k \in DOMAIN entries[t] : k \in Nat /\ k <= Len(entries[t]) /\ Len(entries[t]) \in Nat
      BY <1>1, <1>3, EntryFields
    <3> QED BY <1>3, <1>4, <3>1
  <2>5. Replaced(stack, cs, stack') /\ DOMAIN cs = {}
    <3>1. cs \in Seq(CallType) /\ DOMAIN cs = {}
      BY <2>1, EmptySeq
    <3> QED BY <1>1, <1>3, <2>2, <3>1, ReturnReplaces
  <2>6. /\ entries'[t] = <<>> /\ status'[t] = "free"
        /\ \A u \in Transactions \ {t} : entries'[u] = entries[u] /\ status'[u] = status[u]
    BY <1>1, <1>3, <2>2 DEF TypeOK
  <2>7. \A u \in Transactions \ {t} : Left(u)' = Left(u)
    BY <1>1, <1>2, <1>3, <2>5, <2>6, LeftElsewhere
  <2>8. Lines' /\ PrevsMatch' /\ Alone'
    BY <1>1, <1>3, <2>2, <2>3, <2>4, <2>7, DeletedKeepsLines
  <2>9. Singles'
    BY <2>6 DEF Singles, Single, Committed
  <2> QED BY <2>8, <2>9
<1>5. CASE ~(i > Len(entries[t]))
  <2>1. PICK j, s, n : Leaves(t, j, s, n)
    <3>1. ~(Head(stack).index > Len(entries[Head(stack).tx]))
      BY <1>2, <1>5
    <3>2. PICK u, j, s, n, a, b, c, cs :
              /\ u = Head(stack).tx /\ j = Head(stack).index
              /\ s = entries[u][j].surface /\ n = entries[u][j].next
              /\ Leaves(u, j, s, n)
              /\ a = OnTx("tryApply", n) /\ b = OnSurfaces("tryChildren", {s})
              /\ c = OnEntry("unlink", u, j + 1)
              /\ Replaced(stack, cs, stack')
              /\ cs = IF n = None THEN <<b, c>> ELSE <<a, b, c>>
      BY <3>1, UnlinkLeaves, Zenon
    <3>3. Leaves(u, j, s, n) /\ u = Head(stack).tx
      BY <3>2, Zenon
    <3>4. u = t
      BY <1>2, <3>3
    <3> QED BY <3>3, <3>4, Zenon
  <2>2. Lines' /\ PrevsMatch' /\ Alone'
    BY <1>1, <1>3, <2>1, LeavesKeepsLines
  <2>3. /\ \A u \in Transactions : DOMAIN entries'[u] = DOMAIN entries[u]
        /\ \A u \in Transactions : \A k \in DOMAIN entries[u] :
              entries'[u][k].surface = entries[u][k].surface
    BY <1>1, <1>3, <2>1, LeavesFacts
  <2>4. UNCHANGED status
    BY <2>1, Zenon DEF Leaves
  <2>5. Singles'
    BY <2>3, <2>4 DEF Singles, Single, Committed
  <2> QED BY <2>2, <2>5
<1> QED BY <1>4, <1>5

LEMMA NextLines ==
    ASSUME Reparented = {}, TwoLevels, QueueInv, QueueInv', LineInv, Next
    PROVE  LineInv'
<1>1. Lines /\ PrevsMatch /\ Alone /\ Singles /\ Apart /\ SubsBelow
  BY DEF LineInv
<1>2. TypeOK /\ TypeOK' /\ Outside'
  BY DEF QueueInv, Settled
<1>3. SubsBelow'
  BY <1>1, SubsStay DEF SubsBelow
<1>4. Apart'
  <2>1. CASE MergeChild
    BY <1>1, <2>1, MergeKeepsSingles
  <2>2. CASE \E s \in Surfaces, shape \in CommitShapes : SurfaceCommit(s, shape)
    BY <1>1, <2>2, CommitStartsApart
  <2>3. CASE /\ ~MergeChild
             /\ ~ \E s \in Surfaces, shape \in CommitShapes : SurfaceCommit(s, shape)
    BY <1>2, <2>3, NoMerge DEF Apart
  <2> QED BY <2>1, <2>2, <2>3
<1>5. CASE Commit
  BY <1>1, <1>2, <1>3, <1>4, <1>5, CommitLines DEF LineInv
<1>6. CASE TryApply /\ IsReady(Head(stack).tx)
  BY <1>1, <1>2, <1>3, <1>4, <1>6, TryApplyLines DEF LineInv
<1>7. CASE Unlink
  BY <1>1, <1>2, <1>3, <1>4, <1>7, UnlinkLines DEF LineInv
<1>8. CASE ~Commit /\ ~Unlink /\ ~(TryApply /\ IsReady(Head(stack).tx))
  <2>1. LinksSame /\ (MergeChild \/ AddSurface \/ SurfacesStay)
    BY <1>2, <1>8, OthersKeepLinks
  <2>2. \A t \in Transactions : Committed(t) => Left(t)' = Left(t)
    BY <1>8, <2>1, OthersKeepLeft
  <2>3. QueuesSame
    BY <2>1, <2>2 DEF LinksSame, QueuesSame
  <2>4. Lines' /\ PrevsMatch' /\ Alone'
    BY <1>1, <1>2, <2>3, LinesKept
  <2>5. Singles'
    <3>1. CASE MergeChild
      BY <1>1, <3>1, MergeKeepsSingles
    <3>2. CASE AddSurface
      BY <1>1, <3>2, AddKeepsSingles
    <3>3. CASE SurfacesStay
      <4> SUFFICES ASSUME NEW t \in Transactions, ~Committed(t)' PROVE Single(t)'
        BY DEF Singles
      <4>1. ~Committed(t)
        BY <2>1 DEF LinksSame, Committed
      <4>2. Single(t)
        BY <1>1, <4>1 DEF Singles
      <4>3. CASE entries'[t] = <<>>
        BY <4>3 DEF Single
      <4>4. CASE /\ DOMAIN entries'[t] = DOMAIN entries[t]
                 /\ \A i \in DOMAIN entries[t] :
                       entries'[t][i].surface = entries[t][i].surface
        BY <4>2, <4>4 DEF Single
      <4> QED BY <3>3, <4>1, <4>3, <4>4 DEF SurfacesStay
    <3> QED BY <2>1, <3>1, <3>2, <3>3
  <2> QED BY <1>3, <1>4, <2>4, <2>5 DEF LineInv
<1> QED BY <1>5, <1>6, <1>7, <1>8

LEMMA InitLines ==
    Init => LineInv
<1> SUFFICES ASSUME Init PROVE LineInv
  OBVIOUS
<1> USE ConstantsAssumption
<1>1. /\ \A t \in Transactions : entries[t] = <<>> /\ status[t] = "free"
      /\ stack = <<>> /\ sub = [s \in Surfaces |-> InitialParent[s] # None]
  BY DEF Init
<1>2. \A t \in Transactions : ~Committed(t)
  BY <1>1 DEF Committed
<1>3. Lines
  <2> SUFFICES ASSUME NEW s \in Surfaces
               PROVE  \E n \in Nat : \E q \in [1..n -> Transactions] : Lined(s, n, q)
    BY DEF Lines
  <2>1. PICK n \in Nat : n = 0
    OBVIOUS
  <2>2. PICK q : q = [k \in 1..n |-> k]
    OBVIOUS
  <2>3. q \in [1..n -> Transactions]
    BY <2>1, <2>2
  <2>4. Lined(s, n, q)
    BY <1>2, <2>1 DEF Lined, OnQueue
  <2> QED BY <2>3, <2>4
<1>4. PrevsMatch /\ Alone /\ Singles
  BY <1>1, <1>2 DEF PrevsMatch, Alone, SelfWaiting, Singles, Single
<1>5. Apart
  BY <1>1 DEF Apart, Calls
<1>6. SubsBelow
  BY <1>1 DEF SubsBelow
<1> QED BY <1>3, <1>4, <1>5, <1>6 DEF LineInv

LEMMA StutterLines ==
    ASSUME LineInv, UNCHANGED vars
    PROVE  LineInv'
<1>1. UNCHANGED <<life, status, entries, cached, sub, stack>>
  BY DEF vars, queue, tree
<1>2. /\ \A t : (Committed(t)' <=> Committed(t)) /\ SurfacesOf(t)' = SurfacesOf(t)
      /\ \A t : Left(t)' = Left(t)
      /\ Calls' = Calls
  BY <1>1 DEF Committed, SurfacesOf, Left, Calls
<1>3. \A t, s : OnQueue(t, s)' <=> OnQueue(t, s)
  BY <1>1, <1>2 DEF OnQueue
<1>4. \A t, u, s : Behind(t, u, s)' <=> Behind(t, u, s)
  BY <1>1, <1>2 DEF Behind
<1>5. Lines'
  <2>1. \A t, s, n : Leads(t, s, n)' <=> Leads(t, s, n)
    BY <1>1, <1>2 DEF Leads
  <2>2. \A s, n, q : Lined(s, n, q)' <=> Lined(s, n, q)
    BY <1>3, <2>1, ZenonT(60) DEF Lined
  <2>3. Lines
    BY DEF LineInv
  <2> QED BY <1>1, <2>2, <2>3, Zenon DEF Lines
<1>6. PrevsMatch' /\ Alone' /\ Singles'
  BY <1>1, <1>2, <1>4 DEF LineInv, PrevsMatch, Alone, SelfWaiting, Singles, Single
<1>7. Apart' /\ SubsBelow'
  BY <1>1, <1>2 DEF LineInv, Apart, SubsBelow
<1> QED BY <1>5, <1>6, <1>7 DEF LineInv

\* The transactions in the queues when the main thread has returned.
LEMMA IdleQueues ==
    ASSUME QueueInv, Idle
    PROVE  \A t \in Transactions :
              /\ Committed(t) <=> status[t] = "queued"
              /\ Committed(t) => Left(t) = DOMAIN entries[t]
              /\ \A s : OnQueue(t, s) <=> status[t] = "queued" /\ EntriesOf(t, s) # {}
<1> SUFFICES ASSUME NEW t \in Transactions
             PROVE  /\ Committed(t) <=> status[t] = "queued"
                    /\ Committed(t) => Left(t) = DOMAIN entries[t]
                    /\ \A s : OnQueue(t, s) <=> status[t] = "queued" /\ EntriesOf(t, s) # {}
  OBVIOUS
<1>1. TypeOK /\ Nesting
  BY DEF QueueInv, Settled
<1>2. Outer(stack, 0) = {}
  BY DEF Outer, Idle
<1>3. Committed(t) <=> status[t] = "queued"
  BY <1>1, <1>2 DEF Nesting, Committed
<1>4. Committed(t) => Left(t) = DOMAIN entries[t]
  BY <1>1, <1>3, QueuedIsWhole
<1>5. \A s : OnQueue(t, s) <=> status[t] = "queued" /\ EntriesOf(t, s) # {}
  BY <1>3, <1>4 DEF OnQueue, EntriesOf
<1> QED BY <1>3, <1>4, <1>5

\* No transaction comes before the first of a list.
LEMMA NoneBeforeFirst ==
    ASSUME TypeOK, NEW s, NEW n \in Nat, NEW q \in [1..n -> Transactions],
           Lined(s, n, q), n # 0, NEW u \in Transactions, Behind(q[1], u, s)
    PROVE  FALSE
<1> USE ConstantsAssumption
<1>1. /\ \A i, j \in 1..n : q[i] = q[j] => i = j
      /\ \A t \in Transactions : OnQueue(t, s) <=> \E k \in 1..n : q[k] = t
      /\ \A k \in 1..n : Leads(q[k], s, IF k < n THEN q[k + 1] ELSE None)
  BY Zenon DEF Lined
<1>2. PICK j \in Left(u) : /\ Committed(u) /\ entries[u][j].surface = s
                           /\ entries[u][j].next = q[1]
  BY DEF Behind
<1>3. PICK k \in 1..n : q[k] = u
  BY <1>1, <1>2 DEF OnQueue
<1>4. q[1] = IF k < n THEN q[k + 1] ELSE None
  BY <1>1, <1>2, <1>3 DEF Leads
<1>5. k < n /\ k + 1 \in 1..n /\ k + 1 # 1 /\ 1 \in 1..n /\ q[1] \in Transactions
  BY <1>4
<1> QED BY <1>1, <1>4, <1>5

LEMMA LinksOfLines ==
    ASSUME QueueInv, LineInv, IsFiniteSet(Transactions)
    PROVE  QueueLinks
<1> USE ConstantsAssumption
<1> DEFINE onQueue(s) == {t \in Transactions : status[t] = "queued"
                                                 /\ EntriesOf(t, s) # {}}
           EntryOf(t, s) == entries[t][CHOOSE i \in EntriesOf(t, s) : TRUE]
<1> SUFFICES ASSUME Idle, NEW s \in Surfaces, life[s] # "dead"
             PROVE  /\ Chain(s) = onQueue(s)
                    /\ (first[s] = None) <=> (last[s] = None)
                    /\ first[s] # None => /\ EntryOf(first[s], s).prev = None
                                          /\ EntryOf(last[s], s).next = None
                    /\ \A t, u \in onQueue(s) :
                         EntryOf(t, s).next = u <=> EntryOf(u, s).prev = t
  BY Zenon DEF QueueLinks
<1>9. PICK Q, E : /\ Q = onQueue(s)
                  /\ E = [t \in Transactions |-> EntryOf(t, s)]
  OBVIOUS
<1>1. /\ TypeOK /\ Ends /\ AtEnds /\ Neighbours /\ OneEntryEach
      /\ Lines /\ PrevsMatch /\ Alone
  BY DEF QueueInv, Settled, LineInv
<1>2. \A t \in Transactions :
         /\ Committed(t) <=> status[t] = "queued"
         /\ Committed(t) => Left(t) = DOMAIN entries[t]
         /\ \A x : OnQueue(t, x) <=> status[t] = "queued" /\ EntriesOf(t, x) # {}
  BY IdleQueues
<1>3. \A t \in Transactions : t \in Q <=> OnQueue(t, s)
  BY <1>2, <1>9
<1>4. Chain(s) = Q
  <2>1. \A t \in Transactions : Committed(t) => Left(t) = DOMAIN entries[t]
    BY <1>2
  <2>2. Chain(s) = {t \in Transactions : OnQueue(t, s)}
    BY <1>1, <2>1, ChainIsQueue
  <2> QED BY <1>3, <1>9, <2>2
<1>5. (first[s] = None) <=> (last[s] = None)
  BY <1>1 DEF Ends
\* The entry of a queued transaction.
<1>6. ASSUME NEW t \in Q
      PROVE  \E i \in DOMAIN entries[t] :
                /\ EntriesOf(t, s) = {i} /\ E[t] = entries[t][i]
                /\ entries[t][i].surface = s /\ i \in Left(t)
  <2>1. PICK i \in EntriesOf(t, s) : t \in Transactions
    BY <1>9
  <2>2. i \in DOMAIN entries[t] /\ entries[t][i].surface = s
    BY <2>1 DEF EntriesOf
  <2>3. Committed(t) /\ ~SelfWaiting(t) /\ Left(t) = DOMAIN entries[t]
    BY <1>1, <1>2, <1>3, <2>1 DEF Alone, OnQueue
  <2>4. EntriesOf(t, s) = {i}
    BY <1>1, <2>1, <2>2, <2>3 DEF OneEntryEach, EntriesOf
  <2>5. E[t] = entries[t][i]
    BY <1>9, <2>1, <2>4
  <2> QED BY <2>2, <2>3, <2>4, <2>5
<1>7. ASSUME NEW t \in Q, NEW u \in Q PROVE E[t].next = u <=> E[u].prev = t
  <2>1. PICK i \in DOMAIN entries[t] :
           /\ EntriesOf(t, s) = {i} /\ E[t] = entries[t][i]
           /\ entries[t][i].surface = s /\ i \in Left(t)
    BY <1>6
  <2>2. PICK j \in DOMAIN entries[u] :
           /\ EntriesOf(u, s) = {j} /\ E[u] = entries[u][j]
           /\ entries[u][j].surface = s /\ j \in Left(u)
    BY <1>6
  <2>3. Committed(t) /\ Committed(u) /\ status[t] = "queued"
        /\ Left(t) = DOMAIN entries[t] /\ t \in Transactions /\ u \in Transactions
    BY <1>2, <1>9
  <2>4. entries[u][j].prev = t <=> Behind(u, t, s)
    BY <1>1, <2>2, <2>3 DEF PrevsMatch
  <2>5. Behind(u, t, s) <=> entries[t][i].next = u
    BY <2>1, <2>3 DEF Behind, EntriesOf
  <2> QED BY <2>1, <2>2, <2>4, <2>5
<1>8. ASSUME first[s] # None
      PROVE  E[first[s]].prev = None /\ E[last[s]].next = None
  <2>1. PICK n \in Nat : \E q \in [1..n -> Transactions] : Lined(s, n, q)
    BY <1>1 DEF Lines
  <2>2. PICK q \in [1..n -> Transactions] : Lined(s, n, q)
    BY <2>1
  <2>3. /\ first[s] = (IF n = 0 THEN None ELSE q[1])
        /\ last[s] = (IF n = 0 THEN None ELSE q[n])
    BY <1>1, <2>2, LineEnds
  <2>4. /\ n # 0 /\ first[s] = q[1] /\ last[s] = q[n]
        /\ 1 \in 1..n /\ n \in 1..n /\ q[1] \in Transactions /\ q[n] \in Transactions
    BY <1>8, <2>3
  <2>5. /\ \A t \in Transactions : OnQueue(t, s) <=> \E k \in 1..n : q[k] = t
        /\ \A k \in 1..n : Leads(q[k], s, IF k < n THEN q[k + 1] ELSE None)
    BY <2>2, Zenon DEF Lined
  <2>6. q[1] \in Q /\ q[n] \in Q /\ Leads(q[n], s, None)
    <3>1. Leads(q[n], s, IF n < n THEN q[n + 1] ELSE None)
      BY <2>4, <2>5
    <3> QED BY <1>3, <2>4, <2>5, <3>1
  <2>7. E[q[n]].next = None
    <3>1. PICK i \in DOMAIN entries[q[n]] :
             /\ EntriesOf(q[n], s) = {i} /\ E[q[n]] = entries[q[n]][i]
             /\ entries[q[n]][i].surface = s /\ i \in Left(q[n])
      BY <1>6, <2>6
    <3> QED BY <2>6, <3>1 DEF Leads
  <2>8. E[q[1]].prev = None
    <3>1. PICK u : u = q[1]
      OBVIOUS
    <3>2. PICK j \in DOMAIN entries[u] :
             /\ EntriesOf(u, s) = {j} /\ E[u] = entries[u][j]
             /\ entries[u][j].surface = s /\ j \in Left(u)
      BY <1>6, <2>6, <3>1
    <3>3. SUFFICES ASSUME NEW p, p = entries[u][j].prev, p # None PROVE FALSE
      BY <3>1, <3>2
    <3>4. u \in Transactions /\ Committed(u)
      <4>1. u \in Transactions /\ u \in Q
        BY <2>4, <2>6, <3>1
      <4> QED BY <1>3, <4>1 DEF OnQueue
    <3>5. p \in Transactions
      BY <1>1, <3>2, <3>3, <3>4, EntryFields
    <3>6. status[p] = "queued"
      BY <1>1, <1>2, <3>2, <3>3, <3>4, <3>5 DEF Neighbours
    <3>7. Behind(u, p, s)
      BY <1>1, <3>2, <3>3, <3>4, <3>5, <3>6 DEF PrevsMatch
    <3>8. Behind(q[1], p, s)
      BY <3>1, <3>7
    <3> QED BY <1>1, <2>2, <2>4, <3>5, <3>8, NoneBeforeFirst
  <2> QED BY <2>4, <2>7, <2>8
<1>10. \A t \in Transactions : E[t] = EntryOf(t, s)
  BY <1>9
<1>11. /\ first[s] \in Transactions \cup {None} /\ last[s] \in Transactions \cup {None}
       /\ Q \subseteq Transactions
  BY <1>1, <1>9 DEF TypeOK
<1> HIDE DEF EntryOf
<1>12. first[s] # None => /\ EntryOf(first[s], s).prev = None
                          /\ EntryOf(last[s], s).next = None
  BY <1>5, <1>8, <1>10, <1>11
<1>13. \A t, u \in Q : EntryOf(t, s).next = u <=> EntryOf(u, s).prev = t
  BY <1>7, <1>10, <1>11
<1> QED BY <1>4, <1>5, <1>9, <1>12, <1>13

\* When the main thread is back in its event loop, the transactions of a surface
\* that lives form one doubly linked list from firstTransaction to
\* lastTransaction, which holds every queued transaction with an entry for the
\* surface and no other: a walk from the first along next visits just them, and
\* next and previous agree.  commit() and apply() keep the four kinds of pointers
\* one by one, in loops with reentrant calls between them.
THEOREM QueueLinksHolds ==
    ASSUME Reparented = {}, TwoLevels, IsFiniteSet(Transactions)
    PROVE  Spec => []QueueLinks
<1>1. Init => QueueInv /\ LineInv
  BY InitKeeps, InitLines
<1>2. QueueInv /\ LineInv /\ [Next]_vars => (QueueInv /\ LineInv)'
  BY NextKeeps, NextLines, StutterLines
<1>3. QueueInv /\ LineInv => QueueLinks
  BY LinksOfLines
<1> QED BY <1>1, <1>2, <1>3, PTL DEF Spec
==============================================================================
