--------------------------- MODULE DrmCommitThread ---------------------------
(***************************************************************************)
(* The thread that submits the atomic commits of one DRM output.           *)
(*                                                                         *)
(* The main thread queues commits; the commit thread merges and reorders   *)
(* the queued ones until it can hand one to the kernel in time for the     *)
(* next page flip, and then waits for the main thread to process the page  *)
(* flip event.  Both share m_mutex and two condition variables.            *)
(*                                                                         *)
(* A step of the commit thread goes from one place where it gives the      *)
(* mutex up to the next; a step of the main thread is one locked section.  *)
(* Clock readings are left out: whether the target time of a page flip has *)
(* come, and whether a delay ends, is open.                                *)
(***************************************************************************)
EXTENDS Naturals, Sequences, FiniteSets

CONSTANTS
    Planes,       (* the planes of the output                               *)
    None,         (* nullptr                                                *)
    MayDestroy,   (* whether the output goes away                           *)
    MaxCommits,   (* bound: commits the main thread adds                    *)
    MaxFailures   (* bound: atomic commits the kernel refuses               *)

ASSUME ConstantsAssumption ==
    /\ MayDestroy \in BOOLEAN
    /\ MaxCommits \in Nat
    /\ MaxFailures \in Nat

VARIABLES
    commits,          \* m_commits
    committed,        \* m_committed
    toDelete,         \* m_commitsToDelete
    due,              \* commits whose target time m_targetPageflipTime meets
    pc,               \* where the commit thread is
    woken,            \* the condition the thread waits for was notified
    ping,             \* m_ping
    queued,           \* calls queued to the event loop of the main thread
    timeoutDetected,  \* m_pageflipTimeoutDetected
    interrupted,      \* isInterruptionRequested()
    main,             \* what the main thread is doing
    readable,         \* commits whose buffers the GPU has finished
    screen,           \* the content the kernel was last given for each plane
    flip,             \* the kernel's page flip: "none", "pending" or "event"
    added,            \* history: commits added so far, which numbers them
    newest,           \* history: the last commit added for each plane
    failures,         \* history: refused commits so far
    flipped           \* history: the event was there when the thread pinged

lists == <<commits, committed, toDelete>>
thread == <<pc, woken>>
handshake == <<ping, queued, timeoutDetected>>
mainThread == <<interrupted, main>>
kernel == <<readable, screen, flip>>
history == <<added, newest, failures, flipped>>
vars == <<lists, due, thread, handshake, mainThread, kernel, history>>

------------------------------------------------------------------------------
(* Commits.  A DrmAtomicCommit shows, on each plane it modifies, the buffer *)
(* and the frame of one of the commits that have been merged into it, and   *)
(* its target time is one of those of the frames in targets.                *)

\* The commits there can be of the contents ids.
CommitObjects(ids) ==
    [shows : UNION {[S -> ids] : S \in SUBSET Planes}, targets : SUBSET ids]

\* No pointer to a commit is null.
ASSUME NoneAssumption == None \notin CommitObjects(Nat)

\* Only a content with a frame has a target time.
Commit(id, S, framed) ==
    [shows |-> [p \in S |-> id], targets |-> IF framed THEN {id} ELSE {}]

Modified(c) == DOMAIN c.shows

\* DrmAtomicCommit::merge
Merge(c, onTop) ==
    [shows |-> [p \in Modified(c) \cup Modified(onTop) |->
                  IF p \in Modified(onTop) THEN onTop.shows[p] ELSE c.shows[p]],
     targets |-> c.targets \cup onTop.targets]

\* The place of the last of the commits cs that modifies the plane p.
LastOn(cs, p) ==
    CHOOSE k \in DOMAIN cs :
        /\ p \in Modified(cs[k])
        /\ \A j \in DOMAIN cs : p \in Modified(cs[j]) => j <= k

MergeAllBelow(cs) ==
    LET First(p) == CHOOSE k \in DOMAIN cs :
                      /\ p \in Modified(cs[k])
                      /\ \A j \in DOMAIN cs : p \in Modified(cs[j]) => k <= j
    IN  [shows |-> [p \in UNION {Modified(cs[k]) : k \in DOMAIN cs} |->
                      cs[First(p)].shows[p]],
         targets |-> UNION {cs[k].targets : k \in DOMAIN cs}]

\* mergeCommits: what merging the rest into the first, one after the other, gives.
MergeAll(cs) ==
    [shows |-> [p \in UNION {Modified(cs[k]) : k \in DOMAIN cs} |->
                  cs[LastOn(cs, p)].shows[p]],
     targets |-> UNION {cs[k].targets : k \in DOMAIN cs}]

\* DrmAtomicCommit::areBuffersReadable
Readable(c) == \A p \in Modified(c) : c.shows[p] \in readable

\* DrmAtomicCommit::isReadyFor: the target time is the earliest of those merged,
\* if there is any.
Ready(c) == Readable(c) /\ (c.targets = {} \/ c.targets \cap due # {})

Elements(cs) == {cs[k] : k \in DOMAIN cs}

------------------------------------------------------------------------------
(* DrmCommitThread::optimizeCommits works on m_commits and on the commits   *)
(* to delete: what it replaces by a merged copy, the main thread deletes.   *)
(* Each pass is the set of its possible results.                            *)

Result(list, deleted) == [list |-> list, deleted |-> deleted]

\* The ascending enumerations of a finite set of numbers: there is one.
Ascending(S) ==
    {f \in [1..Cardinality(S) -> S] :
        \A i, j \in 1..Cardinality(S) : i < j => f[i] < f[j]}

\* The commits at the places S of cs, in their order.
At(cs, S) == {[n \in DOMAIN f |-> cs[f[n]]] : f \in Ascending(S)}

\* The commits of a run are replaced by one, unless the run is a single commit.
Replaced(run) == IF Len(run) > 1 THEN Elements(run) ELSE {}

MergeFrontOfAny(cs) ==
    IF Readable(cs[1]) THEN {Result(<<MergeAll(cs)>>, Replaced(cs))}
    ELSE {Result(cs, {})}

MergeFrontInPlace(cs) ==
    LET Ends == {j \in 1..Len(cs) :
                   /\ j > 1 => Readable(cs[1])
                   /\ \A k \in 2..j : Ready(cs[k])
                   /\ j < Len(cs) /\ Readable(cs[1]) => ~Ready(cs[j + 1])}
    IN  {Result(<<MergeAll(SubSeq(cs, 1, j))>> \o SubSeq(cs, j + 1, Len(cs)), {}) :
            j \in Ends}

\* "merge commits in the front that are already ready": the first needs only
\* readable buffers, those that follow it up to j are ready, the next is not.
MergeFront(cs) ==
    LET Ends == {j \in 1..Len(cs) :
                   /\ j > 1 => Readable(cs[1])
                   /\ \A k \in 2..j : Ready(cs[k])
                   /\ j < Len(cs) /\ Readable(cs[1]) => ~Ready(cs[j + 1])}
    IN  {Result(<<MergeAll(SubSeq(cs, 1, j))>> \o SubSeq(cs, j + 1, Len(cs)),
                Replaced(SubSeq(cs, 1, j))) : j \in Ends}

\* "merge commits that are ready and modify the same drm planes": a commit that
\* is not ready or modifies other planes than the one before starts a new run.
MergeSamePlanes(cs) ==
    LET starts == {k \in 1..Len(cs) :
                     k > 1 => ~Ready(cs[k]) \/ Modified(cs[k]) # Modified(cs[k - 1])}
        Run(f, n) == SubSeq(cs, f[n], IF n + 1 \in DOMAIN f THEN f[n + 1] - 1 ELSE Len(cs))
    IN  {Result([n \in DOMAIN f |-> MergeAll(Run(f, n))],
                UNION {Replaced(Run(f, n)) : n \in DOMAIN f}) : f \in Ascending(starts)}

SkippingSamePlanes(c, other) == Modified(c) = Modified(other)

\* "commits that target the same plane(s) need to stay in the same order"
Skipping(c, other) == Modified(c) \cap Modified(other) # {}

\* The commits at the places S merged in front of the others.
InFront(cs, S) ==
    LET Before(kept) ==
          {Result((IF moved = <<>> THEN <<>> ELSE <<MergeAll(moved)>>) \o kept,
                  Elements(moved)) : moved \in At(cs, S)}
    IN  UNION {Before(kept) : kept \in At(cs, (1..Len(cs)) \ S)}

\* "try to move commits that are ready to the front": the commits M join the
\* front, which the first commit belongs to if it is ready.  Which of those that
\* may move do is up to the kernel, which has to accept the new order in tests.
MoveReady(cs) ==
    LET front == IF Ready(cs[1]) THEN {1} ELSE {}
        rest == (1..Len(cs)) \ front
        Movable == {M \in SUBSET {k \in rest : k - 1 \in rest} :
                      \A k \in M :
                          /\ Ready(cs[k])
                          /\ \A j \in rest \ M : j < k => ~Skipping(cs[k], cs[j])}
    IN  UNION {InFront(cs, front \cup M) : M \in Movable}

\* The three passes; the last two need more than one commit.
OptimizeCommits ==
    IF Len(commits) <= 1 THEN UNCHANGED <<commits, toDelete>>
    ELSE \E one \in MergeFront(commits) :
         \E two \in MergeSamePlanes(one.list) :
         \E three \in IF Len(two.list) = 1 THEN {Result(two.list, {})}
                      ELSE MoveReady(two.list) :
            /\ commits' = three.list
            /\ toDelete' = toDelete \cup one.deleted \cup two.deleted \cup three.deleted

------------------------------------------------------------------------------
(* The condition variables.                                                 *)

Waits == {"idle", "flip", "delay"}

\* The thread holds the mutex; elsewhere it is free, or the thread wants it.
Locked == pc = "submit"

NotifyWaitingForFlip == woken' = (woken \/ pc = "flip")

\* m_commitPending.notify_all()
NotifyPending == woken' = (woken \/ pc \in Waits)

SpuriousWakeup ==
    /\ pc \in Waits /\ ~woken
    /\ woken' = TRUE
    /\ UNCHANGED <<lists, due, pc, handshake, mainThread, kernel, history>>

------------------------------------------------------------------------------
(* The commit thread                                                        *)

CheckInterruption ==
    /\ pc = "check"
    /\ pc' = IF interrupted THEN "exited" ELSE "lock"
    /\ UNCHANGED <<lists, due, woken, handshake, mainThread, kernel, history>>

Goto(label) == pc' = label /\ UNCHANGED <<lists, due>>

\* m_targetPageflipTime moves to a later page flip: it meets the targets that it
\* has to reach, and perhaps others of queued commits.
MoveTarget(reached) ==
    \E met \in SUBSET UNION {c.targets : c \in Elements(commits')} :
        due' = due \cup reached \cup met

\* optimizeCommits, and what follows it in the loop: the first commit is ready,
\* or the target moves on.
Optimize ==
    /\ OptimizeCommits
    /\ UNCHANGED committed
    /\ IF Ready(Head(commits'))
       THEN pc' \in {"delay", "submit"} /\ UNCHANGED due
       ELSE pc' = "check" /\ MoveTarget(Head(commits').targets)

\* The loop body once the first wait is over and nothing is committed.
Proceed ==
    IF commits = <<>> THEN Goto("check")
    ELSE Goto("sleep") \/ Optimize

LockUnchecked ==
    /\ pc = "lock"
    /\ IF commits = <<>> THEN Goto("idle") ELSE Proceed
    /\ UNCHANGED <<woken, handshake, mainThread, kernel, history>>

\* m_mutex is taken at the top of the loop.
Lock ==
    /\ pc = "lock"
    /\ IF committed # None THEN Goto("flip")
       ELSE IF commits = <<>> THEN Goto("idle")
       ELSE Proceed
    /\ UNCHANGED <<woken, handshake, mainThread, kernel, history>>

WakeIdle ==
    /\ pc = "idle" /\ woken
    /\ woken' = FALSE
    /\ IF committed # None THEN Goto("check") ELSE Proceed
    /\ UNCHANGED <<handshake, mainThread, kernel, history>>

\* The wait for the page flip is over; at a timeout with the page flip still
\* outstanding the thread pings the main thread.
WakeFlip(timeout) ==
    /\ pc = "flip" /\ (woken \/ timeout)
    /\ woken' = FALSE
    /\ IF committed = None
       THEN Proceed /\ UNCHANGED <<handshake, flipped>>
       ELSE IF ~timeout
       THEN Goto("check") /\ UNCHANGED <<handshake, flipped>>
       ELSE /\ Goto("pong")
            /\ ping' = FALSE
            /\ queued' = queued \cup {"handlePing"}
            /\ flipped' = (flip = "event")
            /\ UNCHANGED timeoutDetected
    /\ UNCHANGED <<mainThread, kernel, added, newest, failures>>

WakePong ==
    /\ pc = "pong" /\ ping
    /\ pc' = "check"
    /\ timeoutDetected' = (timeoutDetected \/ committed # None)
    /\ UNCHANGED <<lists, due, woken, ping, queued, mainThread, kernel, history>>

WakeSleep ==
    /\ pc = "sleep"
    /\ IF commits = <<>> THEN Goto("check") ELSE Optimize
    /\ UNCHANGED <<woken, handshake, mainThread, kernel, history>>

\* In VRR the thread waits for a commit of higher priority, in one wait or, with
\* an optimizeCommits after each, in many.  A notification starts the loop again;
\* when the delay is over the thread submits what it has by then.
WakeDelay(timeout) ==
    /\ pc = "delay" /\ (woken \/ timeout)
    /\ woken' = FALSE
    /\ pc' = IF timeout THEN "submit" ELSE "check"
    /\ OptimizeCommits \/ UNCHANGED <<commits, toDelete>>
    /\ UNCHANGED <<committed, due, handshake, mainThread, kernel, history>>

\* DrmCommitThread::submit, when the kernel takes the commit.
SubmitSucceeds ==
    /\ pc = "submit" /\ flip = "none"
    /\ LET c == Head(commits)
       IN  /\ committed' = c
           /\ screen' = [p \in Planes |->
                           IF p \in Modified(c) THEN c.shows[p] ELSE screen[p]]
    /\ commits' = Tail(commits)
    /\ flip' = "pending"
    /\ queued' = queued \cup {"clearDroppedCommits"}
    /\ pc' = "check"
    /\ UNCHANGED <<toDelete, due, woken, ping, timeoutDetected, mainThread,
                   readable, history>>

\* It refuses: the commits are collapsed into one and, if the kernel accepts
\* that in a test, submitted again; else they are all dropped.
SubmitFails ==
    /\ pc = "submit" /\ (failures < MaxFailures \/ flip # "none")
    /\ failures' = failures + 1
    /\ toDelete' = toDelete \cup Elements(commits)
    /\ \/ /\ Len(commits) > 1
          /\ commits' = <<MergeAll(commits)>>
          /\ UNCHANGED <<pc, queued>>
       \/ /\ commits' = <<>>
          /\ pc' = "check"
          /\ queued' = queued \cup {"clearDroppedCommits"}
    /\ UNCHANGED <<committed, due, woken, ping, timeoutDetected, mainThread,
                   kernel, added, newest, flipped>>

------------------------------------------------------------------------------
(* The main thread                                                          *)

AddCommitNumberedBefore(S, framed) ==
    /\ main = "running" /\ ~Locked
    /\ added < MaxCommits
    /\ added' = added + 1
    /\ newest' = [p \in Planes |-> IF p \in S THEN added' ELSE newest[p]]
    /\ commits' = Append(commits, Commit(added, S, framed))
    /\ MoveTarget({})
    /\ NotifyPending
    /\ UNCHANGED <<committed, toDelete, pc, handshake, mainThread, kernel,
                   failures, flipped>>

\* DrmCommitThread::addCommit
AddCommit(S, framed) ==
    /\ main = "running" /\ ~Locked
    /\ added < MaxCommits
    /\ added' = added + 1
    /\ newest' = [p \in Planes |-> IF p \in S THEN added' ELSE newest[p]]
    /\ commits' = Append(commits, Commit(added', S, framed))
    /\ MoveTarget({})
    /\ NotifyPending
    /\ UNCHANGED <<committed, toDelete, pc, handshake, mainThread, kernel,
                   failures, flipped>>

\* DrmCommitThread::pageFlipped, by DrmGpu::dispatchEvents, for an event.
PageFlipped ==
    /\ flip = "event" /\ ~Locked
    /\ flip' = "none"
    /\ timeoutDetected' = FALSE
    /\ committed' = None
    /\ UNCHANGED commits
    /\ IF commits = <<>> THEN UNCHANGED <<due, woken>> ELSE MoveTarget({}) /\ NotifyPending
    /\ UNCHANGED <<toDelete, pc, ping, interrupted, readable,
                   screen, history>>

DispatchEvents ==
    /\ main = "running" /\ PageFlipped
    /\ UNCHANGED <<queued, main>>

\* DrmCommitThread::clearDroppedCommits
ClearDroppedCommits ==
    /\ main = "running" /\ ~Locked /\ "clearDroppedCommits" \in queued
    /\ queued' = queued \ {"clearDroppedCommits"}
    /\ toDelete' = {}
    /\ UNCHANGED <<commits, committed, due, thread, ping, timeoutDetected,
                   mainThread, kernel, history>>

HandlePingAlone ==
    /\ main = "running" /\ "handlePing" \in queued
    /\ queued' = queued \ {"handlePing"}
    /\ main' = "ponging"
    /\ UNCHANGED <<lists, due, thread, ping, timeoutDetected, interrupted,
                   kernel, history>>

\* DrmCommitThread::handlePing dispatches the events there are, ...
HandlePing ==
    /\ main = "running" /\ "handlePing" \in queued
    /\ queued' = queued \ {"handlePing"}
    /\ main' = "ponging"
    /\ IF flip = "event" THEN PageFlipped
       ELSE UNCHANGED <<lists, due, thread, ping, timeoutDetected, interrupted,
                        kernel, history>>

\* ... and answers.
Pong ==
    /\ main = "ponging" /\ ~Locked
    /\ main' = "running"
    /\ ping' = TRUE
    /\ UNCHANGED <<lists, due, thread, queued, timeoutDetected, interrupted,
                   kernel, history>>

\* The destructor, up to m_thread->wait().
Destroy ==
    /\ MayDestroy
    /\ main = "running" /\ ~Locked
    /\ main' = "joining"
    /\ interrupted' = TRUE
    /\ NotifyPending
    /\ ping' = TRUE
    /\ UNCHANGED <<lists, due, pc, queued, timeoutDetected, kernel, history>>

\* The rest of it: the commit the kernel still has becomes defunct, and the
\* members go.
Join ==
    /\ main = "joining" /\ pc = "exited"
    /\ main' = "gone"
    /\ commits' = <<>>
    /\ committed' = None
    /\ toDelete' = {}
    /\ queued' = {}
    /\ UNCHANGED <<due, thread, ping, timeoutDetected, interrupted, kernel,
                   history>>

------------------------------------------------------------------------------
(* The GPU and the kernel                                                   *)

BuffersReadable(id) ==
    /\ id \in 1..added \ readable
    /\ readable' = readable \cup {id}
    /\ UNCHANGED <<lists, due, thread, handshake, mainThread, screen, flip,
                   history>>

FlipDone ==
    /\ flip = "pending"
    /\ flip' = "event"
    /\ UNCHANGED <<lists, due, thread, handshake, mainThread, readable, screen,
                   history>>

------------------------------------------------------------------------------
Init ==
    /\ commits = <<>> /\ committed = None /\ toDelete = {} /\ due = {}
    /\ pc = "check" /\ woken = FALSE
    /\ ping = FALSE /\ queued = {} /\ timeoutDetected = FALSE
    /\ interrupted = FALSE /\ main = "running"
    /\ readable = {} /\ screen = [p \in Planes |-> 0] /\ flip = "none"
    /\ added = 0 /\ newest = [p \in Planes |-> 0] /\ failures = 0
    /\ flipped = FALSE

Thread ==
    \/ CheckInterruption \/ Lock \/ WakeIdle \/ WakeFlip(TRUE) \/ WakeFlip(FALSE)
    \/ WakePong \/ WakeSleep \/ WakeDelay(TRUE) \/ WakeDelay(FALSE)
    \/ SubmitSucceeds \/ SubmitFails

EventLoop ==
    \/ DispatchEvents \/ ClearDroppedCommits \/ HandlePing \/ Pong \/ Join

Next ==
    \/ Thread \/ SpuriousWakeup
    \/ \E S \in SUBSET Planes \ {{}}, framed \in BOOLEAN : AddCommit(S, framed)
    \/ EventLoop \/ Destroy
    \/ \E id \in 1..MaxCommits : BuffersReadable(id)
    \/ FlipDone

Spec == Init /\ [][Next]_vars

\* Both threads run, timed waits end, the GPU finishes its work and the kernel
\* its page flips.  The delay of VRR ends at a fixed time, however often the
\* thread is woken before.
Fairness ==
    /\ WF_vars(Thread) /\ WF_vars(EventLoop) /\ WF_vars(FlipDone)
    /\ WF_vars(\E id \in 1..MaxCommits : BuffersReadable(id))
    /\ SF_vars(WakeDelay(TRUE))

FairSpec == Spec /\ Fairness

------------------------------------------------------------------------------
(* Properties. *)

\* Every variable keeps its type, and every content there is has been added.
TypeOK ==
    /\ commits \in Seq(CommitObjects(1..added))
    /\ committed \in CommitObjects(1..added) \cup {None}
    /\ toDelete \subseteq CommitObjects(1..added)
    /\ due \subseteq 1..added
    /\ pc \in Waits \cup {"check", "lock", "pong", "sleep", "submit", "exited"}
    /\ woken \in BOOLEAN
    /\ ping \in BOOLEAN
    /\ queued \subseteq {"clearDroppedCommits", "handlePing"}
    /\ timeoutDetected \in BOOLEAN
    /\ interrupted \in BOOLEAN
    /\ main \in {"running", "ponging", "joining", "gone"}
    /\ readable \subseteq 1..added
    /\ screen \in [Planes -> 0..added]
    /\ flip \in {"none", "pending", "event"}
    /\ added \in Nat
    /\ newest \in [Planes -> 0..added]
    /\ failures \in Nat
    /\ flipped \in BOOLEAN

\* "the commit would fail with EBUSY, wait until the pageflip is done": the
\* thread submits only while the kernel has no page flip of this output left.
NeverBusy == pc = "submit" => flip = "none" /\ committed = None /\ commits # <<>>

\* "commits that target the same plane(s) need to stay in the same order": the
\* kernel never gets an older content of a plane after a newer one.
PlanesInOrder ==
    [][\A p \in Planes : screen'[p] >= screen[p]]_vars

\* What the queued commits leave on a plane, on top of what the kernel has, is
\* the newest content added for it: merging and reordering lose nothing.
NewestKept ==
    failures = 0 /\ main # "gone" =>
        \A p \in Planes :
            newest[p] = IF \A c \in Elements(commits) : p \notin Modified(c)
                        THEN screen[p]
                        ELSE commits[LastOn(commits, p)].shows[p]

\* While the kernel takes every commit, it is never given a buffer the GPU
\* still writes to, whatever was merged or moved in front of what.
ShownReadable ==
    failures = 0 => \A p \in Planes : screen[p] \in readable \cup {0}

\* The contents the commits cs would show on the plane p.
Contents(cs, p) ==
    {cs[k].shows[p] : k \in {j \in DOMAIN cs : p \in Modified(cs[j])}}

Updates == INSTANCE PlaneUpdates WITH
    mailbox <- [p \in Planes |-> Contents(commits, p)],
    flipping <- flip # "none",
    lossless <- failures = 0 /\ main # "gone"

\* The queue with its three passes, submit and the page flips are, for each
\* plane, a mailbox: contents come up in order, and the last one always does.
ImplementsUpdates == Updates!Spec

\* The OutputFrames some commit object refers to.
Frames ==
    LET objects == Elements(commits) \cup toDelete
                     \cup (IF committed = None THEN {} ELSE {committed})
    IN  UNION {{<<p, c.shows[p]>> : p \in Modified(c)} : c \in objects}

\* "merging might drop the last reference to an OutputFrame, which should only
\* happen in the main thread": no step of the commit thread drops one.
FramesDroppedByMain == [][Thread => Frames \subseteq Frames']_vars

\* "if the main thread just hung for a while, the pageflip will be processed
\* after the wait": a timeout is reported only when the page flip had not come
\* by the time the thread asked the main thread.
HonestTimeout ==
    [][timeoutDetected' /\ ~timeoutDetected /\ main = "running" => ~flipped]_vars

\* What has been added is shown or dropped at last, or DrmGpu::isIdle, which a
\* modeset waits for, would never hold again; unless the output goes away.
PageflipsFinish ==
    commits # <<>> \/ committed # None
        ~> (commits = <<>> /\ committed = None) \/ interrupted

\* The destructor gets past m_thread->wait().
DestructorReturns == main = "joining" ~> main = "gone"
=============================================================================
