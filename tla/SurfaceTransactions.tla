------------------------- MODULE SurfaceTransactions -------------------------
(***************************************************************************)
(* The path of a wl_surface.commit through KWin: the pending state of a    *)
(* surface is added to a Transaction, the transactions cached by           *)
(* synchronized sub-surfaces are merged into the one of their parent, and  *)
(* a committed transaction waits in the queue of every surface it touches  *)
(* until its fences, its fifo barriers and its predecessors let it apply.  *)
(*                                                                         *)
(* KWin runs all of this on its main thread, each handler to completion.   *)
(* The functions call each other recursively (applying a transaction tries *)
(* the next one, which may apply, and so on), so the model keeps the call  *)
(* stack explicit: a handler fires only when the stack is empty and pushes *)
(* the calls it makes; while the stack is not empty the only step is the   *)
(* body of the function on top of it.                                      *)
(***************************************************************************)
EXTENDS Naturals, Sequences, FiniteSets

CONSTANTS
    Surfaces,       (* the wl_surface objects of one client               *)
    Transactions,   (* the Transaction objects that may exist at a time   *)
    None,           (* nullptr                                            *)
    InitialParent,  (* the sub-surface tree the client has built          *)
    CommitShapes,   (* what a client may request before a commit          *)
    Fenced,         (* surfaces whose buffers the GPU may still write to  *)
    Desyncers,      (* sub-surfaces whose client changes their mode       *)
    Reparented,     (* surfaces that lose and regain a wl_subsurface      *)
    Adopters,       (* surfaces that become their parents                 *)
    Resettable,     (* main surfaces whose role object is recreated       *)
    Destroyable,    (* surfaces the client destroys                       *)
    MayDisconnect,  (* whether the client goes away                       *)
    MaxCommits,     (* bound: commits of each surface                     *)
    MaxGeneration   (* bound: role generations of a surface               *)

Buffers == {"keep", "attach", "detach"}
Shapes == [buffer: Buffers, barrier: BOOLEAN, wait: BOOLEAN]

ASSUME ConstantsAssumption ==
    /\ None \notin Surfaces
    /\ None \notin Transactions
    /\ IsFiniteSet(Surfaces)
    /\ InitialParent \in [Surfaces -> Surfaces \cup {None}]
    /\ CommitShapes \subseteq Shapes
    /\ MayDisconnect \in BOOLEAN
    /\ MaxCommits \in [Surfaces -> Nat]
    /\ MaxGeneration \in Nat

\* get_subsurface refuses to put a surface below itself.
ASSUME ForestAssumption ==
    \A S \in SUBSET Surfaces : S # {} => \E s \in S : InitialParent[s] \notin S

VARIABLES
    life,        \* "live", "dying" (in ~SurfaceInterface) or "dead"
    clientGone,  \* ClientConnection::tearingDown
    sub,         \* whether the surface has a SubSurfaceInterface
    parent,      \* SubSurfaceInterfacePrivate::parent
    mode,        \* SubSurfaceInterfacePrivate::mode
    role,        \* whether a main surface has its shell role object
    generation,  \* SurfaceInterfacePrivate::mainSurfaceRoleGeneration
    children,    \* pending->subsurface, both lists
    cached,      \* subsurface.transaction
    first, last, \* firstTransaction and lastTransaction
    current,     \* the applied SurfaceState
    mapped,      \* SurfaceInterfacePrivate::mapped
    status,      \* what became of a Transaction object
    entries,     \* Transaction::m_entries
    commits,     \* history: the commits of each surface so far
    latched,     \* history: what the children had committed at each commit
    stack        \* the C++ call stack, innermost call first

tree == <<sub, parent, mode, role, generation, children>>
queue == <<first, last, status, entries>>
shown == <<current, mapped>>
history == <<commits, latched>>
vars == <<life, clientGone, tree, cached, queue, shown, history, stack>>

------------------------------------------------------------------------------
(* The sub-surface tree. *)

Up(s) == IF sub[s] THEN parent[s] ELSE None

\* s, its parent, the parent of that, up to the surface without one: the least
\* set that contains s and the parent of each of its members.
Path(s) ==
    {a \in Surfaces :
       \A A \in SUBSET Surfaces :
          s \in A /\ (\A c \in A : Up(c) # None => Up(c) \in A) => a \in A}

Ancestors(s) == Path(s) \ {s}

\* SubSurfaceInterface::isSynchronized, FALSE for a surface that is not one.
SynchronizedByOwnMode(s) == sub[s] /\ mode[s] = "sync"
Synchronized(s) == \E a \in Path(s) : sub[a] /\ mode[a] = "sync"

\* The main surface of s; none when the tree of s lost its root.
MainSurfaces(s) == {a \in Path(s) : ~sub[a]}

MainGeneration(s) ==
    IF MainSurfaces(s) = {} THEN 0
    ELSE generation[CHOOSE a \in MainSurfaces(s) : TRUE]

\* The scene has an item for s: its window exists, and so does the way to it.
HasItem(s) == \E a \in MainSurfaces(s) : role[a] /\ mapped[a]

------------------------------------------------------------------------------
(* Transactions. *)

StateType ==
    [content: Nat, buffer: Buffers, barrier: BOOLEAN, wait: BOOLEAN,
     generation: Nat, children: SUBSET Surfaces]

EntryType ==
    [surface: Surfaces, state: StateType, fence: BOOLEAN,
     prev: Transactions \cup {None}, next: Transactions \cup {None}]

\* SurfaceState::mergeInto
MergeInto(source, target) ==
    [source EXCEPT !.buffer = IF @ = "keep" THEN target.buffer ELSE @,
                   !.barrier = @ \/ target.barrier]

HasBuffer(state) == state.buffer = "attach"

Discarded(entry) == life[entry.surface] # "live" \/ clientGone

WaitingForBuffers(entry) == ~Discarded(entry) /\ entry.fence

Waiting(entry) ==
    \/ entry.prev # None
    \/ /\ ~Discarded(entry)
       /\ \/ entry.fence
          \/ /\ MainGeneration(entry.surface) <= entry.state.generation
             /\ entry.state.wait
             /\ current[entry.surface].barrier

IsReady(t) == \A i \in DOMAIN entries[t] : ~Waiting(entries[t][i])

EntriesOf(t, s) == {i \in DOMAIN entries[t] : entries[t][i].surface = s}

\* Transaction::next
NextOf(t, s) ==
    IF EntriesOf(t, s) = {} THEN None
    ELSE entries[t][CHOOSE i \in EntriesOf(t, s) :
                      \A j \in EntriesOf(t, s) : i <= j].next

\* The transactions a loop from firstTransaction along next visits.
Chain(s) ==
    LET node[k \in Nat] ==
          IF k = 0 THEN first[s]
          ELSE IF node[k - 1] = None THEN None ELSE NextOf(node[k - 1], s)
    IN  {node[k] : k \in 0..Cardinality(Transactions)} \ {None}

AmendCachedChildren(s, added, removed) ==
    [t \in Transactions |->
        IF t = cached[s]
        THEN [i \in DOMAIN entries[t] |->
                IF entries[t][i].surface = s
                THEN [entries[t][i] EXCEPT !.state.children = (@ \cup added) \ removed]
                ELSE entries[t][i]]
        ELSE entries[t]]

\* Transaction::amend with the mutator of addChild or of removeChild, on the
\* cached transaction of s and on those queued for it.
AmendChildren(s, added, removed) ==
    [t \in Transactions |->
        IF t = cached[s] \/ t \in Chain(s)
        THEN [i \in DOMAIN entries[t] |->
                IF entries[t][i].surface = s
                THEN [entries[t][i] EXCEPT !.state.children = (@ \cup added) \ removed]
                ELSE entries[t][i]]
        ELSE entries[t]]

------------------------------------------------------------------------------
(* Calls.  A call on surfaces stands for the loop that makes it on each of  *)
(* them, in the stacking order, which the client controls.                 *)

Idle == stack = <<>>

SurfaceCalls == {"tryFirst", "tryChildren", "updateMapped", "clearUnmapped",
                 "parentDesynchronized", "desynchronizeChildren", "destroyed"}

OnTx(op, t) == [op |-> op, tx |-> t]
OnEntry(op, t, i) == [op |-> op, tx |-> t, index |-> i]
OnSurfaces(op, S) == [op |-> op, todo |-> S]
Merge(t, s) == [op |-> "merge", tx |-> t, surface |-> s]
Add(t, s, state) == [op |-> "add", tx |-> t, surface |-> s, state |-> state]
AddChild(s, p) == [op |-> "addChild", surface |-> s, parent |-> p]

Running(op) == stack # <<>> /\ Head(stack).op = op

\* The running function makes these calls and returns.
ReturnVia(calls) == stack' = calls \o Tail(stack)

\* The running loop takes s as its next surface and makes these calls on it.
VisitVia(s, calls) ==
    stack' = calls \o <<[Head(stack) EXCEPT !.todo = @ \ {s}]>> \o Tail(stack)

LoopDone ==
    /\ stack # <<>>
    /\ Head(stack).op \in SurfaceCalls
    /\ Head(stack).todo = {}
    /\ ReturnVia(<<>>)
    /\ UNCHANGED <<life, clientGone, tree, cached, queue, shown, history>>

CallOnTxUnchecked(op, t) == <<OnTx(op, t)>>
CallOnNoTx(op, t) == <<>>

CallOnTx(op, t) == IF t = None THEN <<>> ELSE <<OnTx(op, t)>>

------------------------------------------------------------------------------
(* wl_surface.commit *)

Unused == {t \in Transactions : status[t] = "free"}
Create(t) == t = CHOOSE u \in Unused : TRUE

\* wl_surface.commit, after the requests that set up the pending state.
SurfaceCommit(s, shape) ==
    LET sync == Synchronized(s)
        state == [content |-> commits[s] + 1,
                  buffer |-> shape.buffer,
                  barrier |-> shape.barrier,
                  wait |-> shape.wait /\ ~sync,
                  generation |-> MainGeneration(s),
                  children |-> children[s]]
    IN  /\ Idle /\ ~clientGone /\ life[s] = "live"
        /\ commits[s] < MaxCommits[s]
        /\ \E t \in Transactions :
             /\ IF sync /\ cached[s] # None THEN t = cached[s]
                ELSE Unused # {} /\ Create(t)
             /\ status' = [status EXCEPT ![t] = "pending"]
             /\ cached' = IF sync THEN [cached EXCEPT ![s] = t] ELSE cached
             /\ stack' = <<Merge(t, s), Add(t, s, state)>>
                           \o (IF sync THEN <<>> ELSE <<OnTx("commit", t)>>)
        /\ commits' = [commits EXCEPT ![s] = @ + 1]
        /\ latched' = [latched EXCEPT ![s] =
                         Append(@, [c \in Surfaces |->
                                    IF c \in children[s] THEN commits[c] ELSE 0])]
        /\ UNCHANGED <<life, clientGone, tree, first, last, entries, shown>>

\* Transaction::merge, for one more child with a cached transaction.  The order
\* of the children does not matter: TryApply takes the entries in every order.
MergeChild ==
    /\ Running("merge")
    /\ LET t == Head(stack).tx
           holders == {c \in children[Head(stack).surface] : cached[c] # None}
       IN  IF holders = {}
           THEN ReturnVia(<<>>) /\ UNCHANGED <<cached, status, entries>>
           ELSE LET c == CHOOSE h \in holders : TRUE
                IN  /\ entries' = [entries EXCEPT ![t] = @ \o entries[cached[c]],
                                                  ![cached[c]] = <<>>]
                    /\ status' = [status EXCEPT ![cached[c]] = "free"]
                    /\ cached' = [cached EXCEPT ![c] = None]
                    /\ UNCHANGED stack
    /\ UNCHANGED <<life, clientGone, tree, first, last, shown, history>>

\* Transaction::add: into the entry the surface has, or as a new one.
WithState(t, s, state) ==
    LET fresh == [surface |-> s, state |-> state, fence |-> FALSE,
                  prev |-> None, next |-> None]
        same == EntriesOf(t, s)
    IN  IF same = {} THEN Append(entries[t], fresh)
        ELSE LET i == CHOOSE j \in same : \A k \in same : j <= k
             IN  [entries[t] EXCEPT ![i].state = MergeInto(state, @)]

AddSurface ==
    /\ Running("add")
    /\ LET call == Head(stack)
       IN  entries' = [entries EXCEPT
                         ![call.tx] = WithState(call.tx, call.surface, call.state)]
    /\ ReturnVia(<<>>)
    /\ UNCHANGED <<life, clientGone, tree, cached, first, last, status, shown,
                   history>>

EnqueueInFront(t, S) ==
    /\ first' = [s \in Surfaces |-> IF s \in S THEN t ELSE first[s]]
    /\ last' = [s \in Surfaces |-> IF s \in S THEN t ELSE last[s]]

\* t becomes the last transaction of these surfaces, the first of some.
Enqueue(t, S) ==
    /\ first' = [s \in Surfaces |->
                   IF s \in S /\ first[s] = None THEN t ELSE first[s]]
    /\ last' = [s \in Surfaces |-> IF s \in S THEN t ELSE last[s]]

\* Transaction::commit: watch the buffers, join the queues, try to apply.
Commit ==
    /\ Running("commit")
    /\ LET t == Head(stack).tx
           own == entries[t]
           joins == {i \in DOMAIN own : life[own[i].surface] # "dead"}
           touched == {own[i].surface : i \in joins}
           again == {i \in joins : \E j \in joins :
                       j < i /\ own[j].surface = own[i].surface}
           repeated == {own[i].surface : i \in again}
           watchable == {i \in joins : HasBuffer(own[i].state)
                                         /\ own[i].surface \in Fenced}
       IN  /\ \E busy \in SUBSET watchable :
                entries' = [u \in Transactions |-> [i \in DOMAIN entries[u] |->
                    LET e == entries[u][i]
                    IN  IF u = t
                        THEN [e EXCEPT
                                !.fence = i \in busy,
                                !.prev = IF i \notin joins THEN None
                                         ELSE IF i \in again THEN t
                                         ELSE last[e.surface],
                                !.next = IF e.surface \in repeated THEN t ELSE @]
                        ELSE IF e.surface \in touched /\ last[e.surface] = u
                        THEN [e EXCEPT !.next = t]
                        ELSE e]]
           /\ Enqueue(t, touched)
           /\ status' = [status EXCEPT ![t] = "queued"]
           /\ ReturnVia(<<OnTx("tryApply", t)>>)
    /\ UNCHANGED <<life, clientGone, tree, cached, shown, history>>

------------------------------------------------------------------------------
(* Transaction::apply *)

DestroyedLast(es) ==
    \A i, j \in DOMAIN es :
        life[es[i].surface] # "dead" /\ life[es[j].surface] = "dead" => i < j

\* The order std::sort establishes: descendants come before their ancestors.
DescendantsFirst(es) ==
    \A i, j \in DOMAIN es :
        \/ life[es[i].surface] # "dead" /\ life[es[j].surface] = "dead"
        \/ es[j].surface \in Ancestors(es[i].surface)
        => i < j

Orders(n) == {p \in [1..n -> 1..n] : \A i, j \in 1..n : p[i] = p[j] => i = j}

TryApply ==
    /\ Running("tryApply")
    /\ LET t == Head(stack).tx
           Sorted(p) == [i \in DOMAIN entries[t] |-> entries[t][p[i]]]
       IN  IF IsReady(t)
           THEN /\ \E p \in Orders(Len(entries[t])) :
                     /\ DescendantsFirst(Sorted(p))
                     /\ entries' = [entries EXCEPT ![t] = Sorted(p)]
                /\ status' = [status EXCEPT ![t] = "applying"]
                /\ ReturnVia(<<OnEntry("applyStates", t, 1)>>)
           ELSE ReturnVia(<<>>) /\ UNCHANGED <<entries, status>>
    /\ UNCHANGED <<life, clientGone, tree, cached, first, last, shown, history>>

\* One iteration of the loop that calls SurfaceInterfacePrivate::applyState.
ApplyState ==
    /\ Running("applyStates")
    /\ LET t == Head(stack).tx
           i == Head(stack).index
       IN  IF i > Len(entries[t])
           THEN ReturnVia(<<OnEntry("unlink", t, 1)>>) /\ UNCHANGED current
           ELSE LET e == entries[t][i]
                    s == e.surface
                    applied == MergeInto(e.state, current[s])
                    visibilityChanged == HasBuffer(applied) # HasBuffer(current[s])
                    rest == <<OnEntry("applyStates", t, i + 1)>>
                IN  IF Discarded(e) THEN ReturnVia(rest) /\ UNCHANGED current
                    ELSE /\ current' = [current EXCEPT ![s] = applied]
                         /\ ReturnVia(
                              (IF visibilityChanged
                               THEN <<OnSurfaces("updateMapped", {s})>> ELSE <<>>)
                              \o <<OnSurfaces("clearUnmapped", {s})>> \o rest)
    /\ UNCHANGED <<life, clientGone, tree, cached, queue, mapped, history>>

UpdateMappedAlone ==
    /\ Running("updateMapped")
    /\ \E s \in Head(stack).todo :
         /\ mapped' = [mapped EXCEPT ![s] =
               HasBuffer(current[s]) /\ (sub[s] => mapped[parent[s]])]
         /\ VisitVia(s, <<>>)
    /\ UNCHANGED <<life, clientGone, tree, cached, queue, current, history>>

\* SurfaceInterfacePrivate::updateEffectiveMapped
UpdateMapped ==
    /\ Running("updateMapped")
    /\ \E s \in Head(stack).todo :
         LET effective == /\ HasBuffer(current[s])
                          /\ sub[s] => parent[s] # None /\ mapped[parent[s]]
         IN  IF mapped[s] = effective
             THEN VisitVia(s, <<>>) /\ UNCHANGED mapped
             ELSE /\ mapped' = [mapped EXCEPT ![s] = effective]
                  /\ VisitVia(s, <<OnSurfaces("updateMapped", current[s].children)>>)
    /\ UNCHANGED <<life, clientGone, tree, cached, queue, current, history>>

ClearUnmappedAlone ==
    /\ Running("clearUnmapped")
    /\ \E s \in Head(stack).todo :
         /\ current' = [current EXCEPT ![s].barrier = @ /\ mapped[s]]
         /\ VisitVia(s, <<>>)
    /\ UNCHANGED <<life, clientGone, tree, cached, queue, mapped, history>>

\* The part of applyState for a surface that ended up unmapped.
ClearUnmapped ==
    /\ Running("clearUnmapped")
    /\ \E s \in Head(stack).todo :
         /\ current' = [c \in Surfaces |->
                IF ~mapped[s] /\ c \in {s} \cup current[s].children
                THEN [current[c] EXCEPT !.barrier = FALSE] ELSE current[c]]
         /\ VisitVia(s, <<>>)
    /\ UNCHANGED <<life, clientGone, tree, cached, queue, mapped, history>>

\* t gives its place as the first transaction of s to its successor n.
LeaveQueueKeepingFirst(t, s, n) ==
    /\ IF last[s] = t THEN last' = [last EXCEPT ![s] = None] ELSE UNCHANGED last
    /\ UNCHANGED first

LeaveQueue(t, s, n) ==
    IF life[s] = "dead" THEN UNCHANGED <<first, last>>
    ELSE IF last[s] = t
    THEN /\ first' = [first EXCEPT ![s] = None]
         /\ last' = [last EXCEPT ![s] = None]
    ELSE first' = [first EXCEPT ![s] = n] /\ UNCHANGED last

\* One iteration of the second loop of Transaction::apply; at its end the
\* transaction is deleted.
Unlink ==
    /\ Running("unlink")
    /\ LET t == Head(stack).tx
           i == Head(stack).index
       IN  IF i > Len(entries[t])
           THEN /\ entries' = [entries EXCEPT ![t] = <<>>]
                /\ status' = [status EXCEPT ![t] = "free"]
                /\ ReturnVia(<<>>)
                /\ UNCHANGED <<first, last>>
           ELSE LET e == entries[t][i]
                    s == e.surface
                    n == e.next
                    blocked == IF n = None THEN {}
                               ELSE {j \in DOMAIN entries[n] : entries[n][j].prev = t}
                IN  /\ LeaveQueue(t, s, n)
                    /\ entries' = IF blocked = {} THEN entries
                                  ELSE LET j == CHOOSE k \in blocked :
                                                  \A l \in blocked : k <= l
                                       IN  [entries EXCEPT ![n][j].prev = None]
                    /\ ReturnVia(CallOnTx("tryApply", n)
                                   \o <<OnSurfaces("tryChildren", {s}),
                                        OnEntry("unlink", t, i + 1)>>)
                    /\ UNCHANGED status
    /\ UNCHANGED <<life, clientGone, tree, cached, shown, history>>

\* "if the surface was unmapped, that can remove constraints from its
\* subsurfaces"
TryChildren ==
    /\ Running("tryChildren")
    /\ \E s \in Head(stack).todo :
         VisitVia(s, IF life[s] # "dead" /\ ~mapped[s]
                     THEN <<OnSurfaces("tryFirst", current[s].children)>>
                     ELSE <<>>)
    /\ UNCHANGED <<life, clientGone, tree, cached, queue, shown, history>>

\* surface->firstTransaction()->tryApply()
TryFirst ==
    /\ Running("tryFirst")
    /\ \E s \in Head(stack).todo : VisitVia(s, CallOnTx("tryApply", first[s]))
    /\ UNCHANGED <<life, clientGone, tree, cached, queue, shown, history>>

------------------------------------------------------------------------------
(* wl_subsurface and wl_subcompositor *)

SetSync(s) ==
    /\ Idle /\ ~clientGone /\ s \in Desyncers /\ sub[s] /\ mode[s] = "desync"
    /\ mode' = [mode EXCEPT ![s] = "sync"]
    /\ UNCHANGED <<life, clientGone, sub, parent, role, generation, children,
                   cached, queue, shown, history, stack>>

SetDesync(s) ==
    /\ Idle /\ ~clientGone /\ s \in Desyncers /\ sub[s] /\ mode[s] = "sync"
    /\ mode' = [mode EXCEPT ![s] = "desync"]
    /\ stack' = IF \E a \in Ancestors(s) : sub[a] /\ mode[a] = "sync" THEN <<>>
                ELSE <<OnSurfaces("parentDesynchronized", {s})>>
    /\ UNCHANGED <<life, clientGone, sub, parent, role, generation, children,
                   cached, queue, shown, history>>

\* SubSurfaceInterface::parentDesynchronized
ParentDesynchronized ==
    /\ Running("parentDesynchronized")
    /\ \E s \in Head(stack).todo :
         IF mode[s] = "sync" THEN VisitVia(s, <<>>) /\ UNCHANGED cached
         ELSE /\ cached' = [cached EXCEPT ![s] = None]
              /\ VisitVia(s, (IF cached[s] = None THEN <<>>
                              ELSE <<OnTx("commit", cached[s])>>)
                             \o <<OnSurfaces("desynchronizeChildren", {s})>>)
    /\ UNCHANGED <<life, clientGone, tree, queue, shown, history>>

DesynchronizeChildren ==
    /\ Running("desynchronizeChildren")
    /\ \E s \in Head(stack).todo :
         VisitVia(s, <<OnSurfaces("parentDesynchronized", current[s].children)>>)
    /\ UNCHANGED <<life, clientGone, tree, cached, queue, shown, history>>

\* wl_subcompositor.get_subsurface, by a client that gives a surface no second
\* wl_subsurface.
GetSubsurface(s, p) ==
    /\ Idle /\ ~clientGone /\ life[s] = "live" /\ life[p] = "live"
    /\ s \in Reparented /\ p \in Adopters
    /\ ~sub[s] /\ s # p /\ s \notin MainSurfaces(p)
    /\ generation[s] < MaxGeneration
    /\ generation' = [generation EXCEPT ![s] = @ + 1]
    /\ stack' = <<OnSurfaces("tryFirst", {s}), AddChild(s, p)>>
    /\ UNCHANGED <<life, clientGone, sub, parent, mode, role, children, cached,
                   queue, shown, history>>

\* The constructor of SubSurfaceInterface with SurfaceInterfacePrivate::addChild
LinkSubsurface ==
    /\ Running("addChild")
    /\ LET s == Head(stack).surface
           p == Head(stack).parent
       IN  /\ sub' = [sub EXCEPT ![s] = TRUE]
           /\ parent' = [parent EXCEPT ![s] = p]
           /\ mode' = [mode EXCEPT ![s] = "sync"]
           /\ children' = [children EXCEPT ![p] = @ \cup {s}]
           /\ current' = [current EXCEPT ![p].children = @ \cup {s}]
           /\ entries' = AmendChildren(p, {s}, {})
    /\ ReturnVia(<<>>)
    /\ UNCHANGED <<life, clientGone, role, generation, cached, first, last,
                   status, mapped, history>>

\* SurfaceInterfacePrivate::removeChild by the destructor of the wl_subsurface
\* of s, which takes the cached transaction of s with it.
Unlinked(s) ==
    LET p == parent[s]
        amended == IF p = None THEN entries ELSE AmendChildren(p, {}, {s})
    IN  /\ children' = IF p = None THEN children
                       ELSE [children EXCEPT ![p] = @ \ {s}]
        /\ current' = IF p = None THEN current
                      ELSE [current EXCEPT ![p].children = @ \ {s}]
        /\ entries' = [t \in Transactions |->
                         IF t = cached[s] THEN <<>> ELSE amended[t]]
        /\ status' = [t \in Transactions |->
                        IF t = cached[s] THEN "free" ELSE status[t]]
        /\ cached' = [cached EXCEPT ![s] = None]
        /\ sub' = [sub EXCEPT ![s] = FALSE]

DestroySubsurface(s) ==
    /\ Idle /\ life[s] = "live" /\ sub[s]
    /\ clientGone \/ (s \in Reparented /\ generation[s] < MaxGeneration)
    /\ Unlinked(s)
    /\ parent' = [parent EXCEPT ![s] = None]
    /\ generation' = [generation EXCEPT ![s] = @ + 1]
    /\ stack' = <<OnSurfaces("tryFirst", {s})>>
    /\ UNCHANGED <<life, clientGone, mode, role, first, last, mapped, history>>

------------------------------------------------------------------------------
(* wl_surface.destroy, the shell role objects and the end of the client *)

DestroySurface(s) ==
    /\ Idle /\ life[s] = "live" /\ (clientGone \/ s \in Destroyable)
    /\ life' = [life EXCEPT ![s] = "dying"]
    /\ stack' = <<OnSurfaces("tryFirst", {s}), OnSurfaces("destroyed", {s})>>
    /\ UNCHANGED <<clientGone, tree, cached, queue, shown, history>>

\* The rest of ~SurfaceInterface: the members and the QPointers go, and the
\* destroyed signal deletes the wl_subsurface.
Destroyed ==
    /\ Running("destroyed")
    /\ \E s \in Head(stack).todo :
         /\ Unlinked(s)
         /\ parent' = [c \in Surfaces |->
                         IF c = s \/ parent[c] = s THEN None ELSE parent[c]]
         /\ life' = [life EXCEPT ![s] = "dead"]
         /\ first' = [first EXCEPT ![s] = None]
         /\ last' = [last EXCEPT ![s] = None]
         /\ VisitVia(s, <<>>)
    /\ UNCHANGED <<clientGone, mode, role, generation, mapped, history>>

ToggleRoleSilently(s) ==
    /\ Idle /\ ~clientGone /\ life[s] = "live" /\ ~sub[s] /\ s \in Resettable
    /\ generation[s] < MaxGeneration
    /\ role' = [role EXCEPT ![s] = ~@]
    /\ generation' = [generation EXCEPT ![s] = @ + 1]
    /\ UNCHANGED <<life, clientGone, sub, parent, mode, children, cached, queue,
                   shown, history, stack>>

\* The client destroys the role object of a main surface, or creates the next.
ToggleRole(s) ==
    /\ Idle /\ ~clientGone /\ life[s] = "live" /\ ~sub[s] /\ s \in Resettable
    /\ generation[s] < MaxGeneration
    /\ role' = [role EXCEPT ![s] = ~@]
    /\ generation' = [generation EXCEPT ![s] = @ + 1]
    /\ stack' = <<OnSurfaces("tryFirst", {s})>>
    /\ UNCHANGED <<life, clientGone, sub, parent, mode, children, cached, queue,
                   shown, history>>

\* The connection is gone: its resources follow, in any order.
Disconnect ==
    /\ Idle /\ ~clientGone /\ MayDisconnect
    /\ clientGone' = TRUE
    /\ UNCHANGED <<life, tree, cached, queue, shown, history, stack>>

------------------------------------------------------------------------------
(* What the transactions wait for *)

\* The event loop runs between the handlers, but not while a client goes.
EventLoop == Idle /\ (clientGone => \A s \in Surfaces : life[s] = "dead")

\* The GPU is done with the buffer of an entry.
FenceSignaled(t, i) ==
    /\ EventLoop /\ status[t] = "queued"
    /\ i \in DOMAIN entries[t] /\ entries[t][i].fence
    /\ entries' = [entries EXCEPT ![t][i].fence = FALSE]
    /\ stack' = <<OnTx("tryApply", t)>>
    /\ UNCHANGED <<life, clientGone, tree, cached, first, last, status, shown,
                   history>>

\* SurfaceInterface::clearFifoBarrier, when the scene has painted the item of s
\* or the fallback timer of the item fires.
ClearFifoBarrier(s) ==
    /\ EventLoop /\ life[s] = "live" /\ HasItem(s) /\ current[s].barrier
    /\ current' = [current EXCEPT ![s].barrier = FALSE]
    /\ stack' = <<OnSurfaces("tryFirst", {s})>>
    /\ UNCHANGED <<life, clientGone, tree, cached, queue, mapped, history>>

------------------------------------------------------------------------------
Init ==
    LET kids == [p \in Surfaces |-> {c \in Surfaces : InitialParent[c] = p}]
    IN  /\ life = [s \in Surfaces |-> "live"]
        /\ clientGone = FALSE
        /\ sub = [s \in Surfaces |-> InitialParent[s] # None]
        /\ parent = InitialParent
        /\ mode = [s \in Surfaces |-> "sync"]
        /\ role = [s \in Surfaces |-> InitialParent[s] = None]
        /\ generation = [s \in Surfaces |-> 1]
        /\ children = kids
        /\ cached = [s \in Surfaces |-> None]
        /\ first = [s \in Surfaces |-> None]
        /\ last = [s \in Surfaces |-> None]
        /\ current = [s \in Surfaces |->
              [content |-> 0, buffer |-> "detach", barrier |-> FALSE,
               wait |-> FALSE, generation |-> 0, children |-> kids[s]]]
        /\ mapped = [s \in Surfaces |-> FALSE]
        /\ status = [t \in Transactions |-> "free"]
        /\ entries = [t \in Transactions |-> <<>>]
        /\ commits = [s \in Surfaces |-> 0]
        /\ latched = [s \in Surfaces |-> <<>>]
        /\ stack = <<>>

Request ==
    \/ \E s \in Surfaces, shape \in CommitShapes : SurfaceCommit(s, shape)
    \/ \E s \in Surfaces : SetSync(s)
    \/ \E s \in Surfaces : SetDesync(s)
    \/ \E s, p \in Surfaces : GetSubsurface(s, p)
    \/ \E s \in Surfaces : DestroySubsurface(s)
    \/ \E s \in Surfaces : DestroySurface(s)
    \/ \E s \in Surfaces : ToggleRole(s)
    \/ Disconnect

Call ==
    \/ LoopDone \/ MergeChild \/ AddSurface \/ Commit
    \/ TryApply \/ ApplyState \/ UpdateMapped \/ ClearUnmapped
    \/ Unlink \/ TryChildren \/ TryFirst
    \/ ParentDesynchronized \/ DesynchronizeChildren
    \/ LinkSubsurface \/ Destroyed

SomeFenceSignaled ==
    \E t \in Transactions : \E i \in DOMAIN entries[t] : FenceSignaled(t, i)

SomeBarrierCleared == \E s \in Surfaces : ClearFifoBarrier(s)

Next == Request \/ Call \/ SomeFenceSignaled \/ SomeBarrierCleared

Spec == Init /\ [][Next]_vars

\* A called function returns; a GPU finishes its work; a surface that has an
\* item is painted, or its 50 ms fallback timer expires.  The event loop serves
\* every ready source between two requests, so a client that keeps sending
\* requests cannot starve a notifier or a timer: strong fairness.
Fairness ==
    /\ WF_vars(Call)
    /\ \A t \in Transactions :
         SF_vars(\E i \in DOMAIN entries[t] : FenceSignaled(t, i))
    /\ \A s \in Surfaces : SF_vars(ClearFifoBarrier(s))

FairSpec == Spec /\ Fairness

------------------------------------------------------------------------------
(* Properties. *)

CallType ==
    [op: {"commit", "tryApply"}, tx: Transactions]
    \cup [op: {"applyStates", "unlink"}, tx: Transactions, index: Nat \ {0}]
    \cup [op: SurfaceCalls, todo: SUBSET Surfaces]
    \cup [op: {"merge"}, tx: Transactions, surface: Surfaces]
    \cup [op: {"add"}, tx: Transactions, surface: Surfaces, state: StateType]
    \cup [op: {"addChild"}, surface: Surfaces, parent: Surfaces]

\* Every variable keeps its type; of the pointers, each is null or points to
\* an object of its kind.
TypeOK ==
    /\ life \in [Surfaces -> {"live", "dying", "dead"}]
    /\ clientGone \in BOOLEAN
    /\ sub \in [Surfaces -> BOOLEAN]
    /\ parent \in [Surfaces -> Surfaces \cup {None}]
    /\ mode \in [Surfaces -> {"sync", "desync"}]
    /\ role \in [Surfaces -> BOOLEAN]
    /\ generation \in [Surfaces -> Nat]
    /\ children \in [Surfaces -> SUBSET Surfaces]
    /\ cached \in [Surfaces -> Transactions \cup {None}]
    /\ first \in [Surfaces -> Transactions \cup {None}]
    /\ last \in [Surfaces -> Transactions \cup {None}]
    /\ current \in [Surfaces -> StateType]
    /\ mapped \in [Surfaces -> BOOLEAN]
    /\ status \in [Transactions -> {"free", "pending", "queued", "applying"}]
    /\ entries \in [Transactions -> Seq(EntryType)]
    /\ commits \in [Surfaces -> Nat]
    /\ latched \in [Surfaces -> Seq([Surfaces -> Nat])]
    /\ stack \in Seq(CallType)

\* When the main thread returns to its event loop no committed transaction is
\* left ready, as nothing would try it later: whatever resolved its last
\* dependency (a predecessor applied, a fence, a destroyed surface, the barrier
\* or the role reset of a main surface) also tried to apply it.  Not so for a
\* transaction with a sub-surface that waits for its own barrier.  The code
\* misses it when the role of the main surface is reset, which tries the queue
\* of that surface only, and when an apply() nested in the one that unmapped the
\* parent maps the parent again, before the children of an unmapped surface are
\* tried.
NoMissedWakeup ==
    EventLoop => \A t \in Transactions :
        status[t] = "queued" /\ IsReady(t) =>
            \E i \in DOMAIN entries[t] :
                entries[t][i].state.wait /\ sub[entries[t][i].surface]

\* The transactions of a surface form one doubly linked list from
\* firstTransaction to lastTransaction, and hold every queued transaction with
\* an entry for the surface; commit() and apply() maintain the four kinds of
\* pointers separately, in two loops and with reentrant calls between them.
QueueLinks ==
    Idle => \A s \in Surfaces : life[s] # "dead" =>
        LET onQueue == {t \in Transactions : status[t] = "queued"
                                               /\ EntriesOf(t, s) # {}}
            EntryOf(t) == entries[t][CHOOSE i \in EntriesOf(t, s) : TRUE]
        IN  /\ Chain(s) = onQueue
            /\ (first[s] = None) <=> (last[s] = None)
            /\ first[s] # None => /\ EntryOf(first[s]).prev = None
                                  /\ EntryOf(last[s]).next = None
            /\ \A t, u \in onQueue :
                 EntryOf(t).next = u <=> EntryOf(u).prev = t

\* "the transaction may be applied later if there are previous transactions that
\* have not been applied yet": following the predecessors of a queued
\* transaction never leads back to it, or the queue would wait for itself.
NoWaitCycle ==
    LET Predecessors(T) ==
            UNION {{entries[t][i].prev : i \in DOMAIN entries[t]} : t \in T} \ {None}
        reach[k \in Nat] ==
            [t \in Transactions |->
                IF k = 0 THEN Predecessors({t})
                ELSE reach[k - 1][t] \cup Predecessors(reach[k - 1][t])]
    IN  \A t \in Transactions : t \notin reach[Cardinality(Transactions)][t]

\* A Transaction that is deleted is in nobody's reach: not in the queue of a
\* surface, not the predecessor or successor in an entry, not cached, and not
\* on the call stack of a caller that would still use it, such as an apply()
\* whose nested calls have applied and deleted the transactions behind it.
NoDanglingTransaction ==
    \A t \in Transactions : status[t] = "free" =>
        /\ entries[t] = <<>>
        /\ \A s \in Surfaces : cached[s] # t
        /\ \A s \in Surfaces : life[s] # "dead" => first[s] # t /\ last[s] # t
        /\ \A u \in Transactions : \A i \in DOMAIN entries[u] :
             /\ entries[u][i].prev # t
             /\ status[u] = "queued" => entries[u][i].next # t
        /\ \A k \in DOMAIN stack :
             stack[k].op \in {"commit", "tryApply", "applyStates", "unlink"}
               => stack[k].tx # t
        /\ \A k \in DOMAIN stack : stack[k].op = "unlink" =>
             \A i \in DOMAIN entries[stack[k].tx] :
                i >= stack[k].index => entries[stack[k].tx][i].next # t

\* "The transaction will be destroyed when it is applied": no call of apply()
\* is reached again for the same transaction through the successors and the
\* children it tries before it is done.
AppliedOnce ==
    \A j, k \in DOMAIN stack :
        /\ stack[j].op \in {"applyStates", "unlink"}
        /\ stack[k].op \in {"applyStates", "unlink"}
        /\ stack[j].tx = stack[k].tx
        => j = k

\* A surface never shows an older commit after a newer one, whatever is merged
\* and whenever the fences of its transactions signal.
AppliedInOrder ==
    [][\A s \in Surfaces : current'[s].content >= current[s].content]_vars

\* A sub-surface that is synchronized, by its own mode or by that of an ancestor
\* above it, shows what it had committed when its parent made the commit the
\* parent shows; here for those of which no client changes that.
SyncedTogether ==
    Idle /\ ~clientGone =>
        \A s \in Surfaces :
            LET p == parent[s]
            IN  /\ sub[s] /\ life[s] = "live"
                /\ Path(s) \cap Reparented = {}
                /\ \E a \in Path(s) : sub[a] /\ a \notin Desyncers
                /\ p # None /\ current[p].content > 0
                => current[s].content = latched[p][current[p].content][s]

\* "fifo barriers on an unmapped surface would never be cleared"
UnmappedHasNoBarrier ==
    Idle => \A s \in Surfaces :
        life[s] = "live" /\ ~mapped[s] => ~current[s].barrier

\* A surface is mapped exactly when it has a buffer and, as a sub-surface, its
\* parent is mapped.
MappedWithParent ==
    Idle => \A s \in Surfaces : life[s] = "live" =>
        (mapped[s] <=> /\ HasBuffer(current[s])
                       /\ sub[s] => parent[s] # None /\ mapped[parent[s]])

\* The main surfaces and their own sub-surfaces, for as long as no request
\* changes where they are in the tree.
UpperLevels ==
    {s \in Surfaces \ Reparented :
        LET p == InitialParent[s]
        IN  p # None => p \notin Reparented /\ InitialParent[p] = None}

\* Every cached or queued state of a main surface, or of a sub-surface of one,
\* lists the children the surface has, also when it has been merged into the
\* transaction of the main surface and waits there: the ones destroyed since are
\* removed from it, the ones added since are in it.  Further down the tree a
\* state may sit in the cached transaction of an ancestor, where removeChild()
\* does not look for it: the code does not promise this there.
ChildListsExact ==
    Idle => \A s \in UpperLevels : life[s] = "live" =>
        LET kids == {c \in Surfaces : sub[c] /\ parent[c] = s}
        IN  /\ children[s] = kids
            /\ current[s].children = kids
            /\ \A t \in Transactions : \A i \in EntriesOf(t, s) :
                 entries[t][i].state.children = kids

\* When the last surface is gone and the event loop has nothing left to deliver
\* no Transaction is left behind.
NoLeak ==
    /\ Idle
    /\ \A s \in Surfaces : life[s] = "dead"
    /\ \A t \in Transactions : \A i \in DOMAIN entries[t] : ~entries[t][i].fence
    => \A t \in Transactions : status[t] = "free"

\* Whatever a main surface commits is shown at last, or the surface goes; here
\* with a shell role, without which nothing paints it or clears its barriers.
CommitsShown ==
    \A s \in Surfaces : InitialParent[s] = None =>
        \A n \in 1..MaxCommits[s] :
            commits[s] >= n ~> (current[s].content >= n \/ life[s] # "live")
=============================================================================
