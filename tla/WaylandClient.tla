---------------------------- MODULE WaylandClient ----------------------------
(***************************************************************************)
(* The client side of libwayland with several threads, each of which       *)
(* dispatches an event queue of its own (wayland-client.c).                *)
(*                                                                         *)
(* All queues share one socket.  A thread announces that it is going to    *)
(* read (reader_count); the last one that comes to read reads for all, the *)
(* others sleep until read_serial changes.  Events become closures on the  *)
(* queue of their proxy and hold references to it and to the proxy among   *)
(* their arguments.  display->mutex is released only where a thread waits, *)
(* polls or runs an event handler, so a step goes from one such place to   *)
(* the next.                                                               *)
(*                                                                         *)
(* Every thread runs a loop around wl_display_dispatch_queue_timeout until *)
(* that fails, and has one protocol object at a time, under a fixed id.    *)
(***************************************************************************)
EXTENDS Naturals, Sequences, FiniteSets

CONSTANTS
    Threads,       (* threads; also their queues and the ids of their objects *)
    Display,       (* the wl_display: its queue and its proxy                 *)
    None,          (* NULL                                                    *)
    Mortal,        (* the ids whose objects are destroyed and created again   *)
    Arguments,     (* the ids a server may name as an argument of an event    *)
    MaxProxies,    (* bound: objects created under each id                    *)
    MaxEvents      (* bound: events sent to the objects                       *)

ASSUME ThreadsAssumption == IsFiniteSet(Threads)
ASSUME NamesAssumption ==
    Display \notin Threads /\ Mortal \subseteq Threads /\ Arguments \subseteq Threads
ASSUME BoundsAssumption == MaxProxies \in Nat \ {0} /\ MaxEvents \in Nat

VARIABLES
    pc,            \* where each thread is
    got,           \* whether its call has dispatched an event
    asleep,        \* threads in pthread_cond_wait
    outdated,      \* threads in read_events whose serial is not read_serial
    hand,          \* the closure whose handler it runs
    reader_count,
    last_error,
    queue,         \* event_list of each queue
    objects,       \* the entry of each id in the map of objects
    incarnation,   \* which object of its id the proxy of each id is
    destroyed,     \* proxies with WL_PROXY_FLAG_DESTROYED
    refcount,
    socket,        \* what the server has sent and nobody has read
    closed,        \* the server has closed the socket
    server,        \* the object the server has under each id, 0 if none
    sent           \* events sent so far, which numbers them

thread == <<pc, got, asleep, outdated, hand>>
reading == <<reader_count, last_error>>
proxies == <<objects, incarnation, destroyed, refcount>>
wire == <<socket, closed, server, sent>>
vars == <<thread, reading, queue, proxies, wire>>

Queues == Threads \cup {Display}
Proxies == Threads \X (1..MaxProxies)

\* Threads that count as readers.
Prepared == {"flush", "poll", "read", "cancel", "abort"}
Readers == {t \in Threads : pc[t] \in Prepared}
Labels == Prepared \cup {"out", "again", "full", "pending", "wait", "handler", "failed"}

------------------------------------------------------------------------------
(* Closures and their references *)

\* The proxy in the map under an id, unless that is a zombie or nothing.
Known(id) == objects[id] \in {"live", "id_deleted"}
Lookup(id) == <<id, incarnation[id]>>

\* queue_event, for an event that is not eaten.
Demarshal(m) ==
    [n |-> m.n, kind |-> m.kind,
     proxy |-> IF m.id = Display THEN Display ELSE Lookup(m.id),
     arg |-> IF m.kind = "delete_id" \/ m.arg = None THEN m.arg
             ELSE IF Known(m.arg) THEN Lookup(m.arg) ELSE None]

\* queue_event for a list of messages, without those that are eaten because
\* their object is gone.
QueueEvents(s) ==
    LET kept == SelectSeq(s, LAMBDA m : m.id = Display \/ Known(m.id))
    IN  [i \in 1..Len(kept) |-> Demarshal(kept[i])]

\* The queue of a closure.
QueueOf(c) == IF c.proxy = Display THEN Display ELSE c.proxy[1]

\* How many references to a proxy the closures of a list hold.
References(s, p) ==
    Cardinality({i \in 1..Len(s) : s[i].proxy = p})
      + Cardinality({i \in 1..Len(s) : s[i].arg = p})

\* validate_closure_objects
Validate(c) == [c EXCEPT !.arg = IF @ \in destroyed THEN None ELSE @]

------------------------------------------------------------------------------
(* Reading *)

\* A mutant of WakeupThreads, without a change of read_serial.
WakeupThreadsUnserialed ==
    /\ asleep' = {}
    /\ UNCHANGED outdated

\* display_wakeup_threads: the serial that all threads in read_events have seen
\* is no longer read_serial.
WakeupThreads ==
    /\ outdated' = {t \in Threads : pc[t] = "wait"}
    /\ asleep' = {}

NoWakeup == UNCHANGED <<outdated, asleep>>

\* display_fatal_error
FatalError(error) ==
    IF last_error # "none" THEN UNCHANGED last_error /\ NoWakeup
    ELSE last_error' = error /\ WakeupThreads

\* A mutant of CancelRead, which wakes nobody.
CancelReadSilently ==
    /\ reader_count' = reader_count - 1
    /\ NoWakeup

\* cancel_read
CancelRead ==
    /\ reader_count' = reader_count - 1
    /\ IF reader_count' = 0 THEN WakeupThreads ELSE NoWakeup

Goto(t, label) == pc' = [pc EXCEPT ![t] = label]

\* Mutant: the thread does not look at its queue.
PrepareReadUnchecked(t) ==
    /\ pc[t] \in {"out", "again"}
    /\ reader_count' = reader_count + 1
    /\ Goto(t, IF pc[t] = "out" THEN "flush" ELSE "poll")
    /\ got' = [got EXCEPT ![t] = FALSE]
    /\ UNCHANGED <<asleep, outdated, hand, last_error, queue, proxies, wire>>

\* wl_display_prepare_read_queue, at the start of a dispatch call and after a
\* read that brought nothing for this queue.
PrepareRead(t) ==
    /\ pc[t] \in {"out", "again"}
    /\ IF queue[t] # <<>>
       THEN Goto(t, "full") /\ UNCHANGED reader_count
       ELSE /\ reader_count' = reader_count + 1
            /\ Goto(t, IF pc[t] = "out" THEN "flush" ELSE "poll")
    /\ got' = [got EXCEPT ![t] = FALSE]
    /\ UNCHANGED <<asleep, outdated, hand, last_error, queue,
                   proxies, wire>>

\* wl_display_flush.  A broken connection does not keep the thread from reading.
Flush(t) ==
    /\ pc[t] = "flush"
    /\ \/ /\ last_error \in {"none", "EPIPE"}
          /\ Goto(t, "poll")
          /\ UNCHANGED last_error /\ NoWakeup
       \/ /\ last_error \notin {"none", "EPIPE"}
          /\ Goto(t, "abort")
          /\ UNCHANGED last_error /\ NoWakeup
       \/ /\ last_error = "none"
          /\ FatalError("EIO")
          /\ Goto(t, "abort")
    /\ UNCHANGED <<got, hand, reader_count, queue, proxies, wire>>

Readable == socket # <<>> \/ closed

\* wl_display_poll with POLLIN.  It may also return for the beginning of an event
\* only.
Poll(t) ==
    /\ pc[t] = "poll"
    /\ Goto(t, "read")
    /\ UNCHANGED <<got, asleep, outdated, hand, reading, queue, proxies, wire>>

\* The timeout of the call elapses before the socket is readable.
Timeout(t) ==
    /\ pc[t] = "poll" /\ ~Readable
    /\ Goto(t, "cancel")
    /\ UNCHANGED <<got, asleep, outdated, hand, reading, queue, proxies, wire>>

\* wl_display_cancel_read after a timeout or a failed flush.
Cancel(t) ==
    /\ pc[t] \in {"cancel", "abort"}
    /\ CancelRead
    /\ Goto(t, IF pc[t] = "cancel" THEN "out" ELSE "failed")
    /\ UNCHANGED <<got, hand, last_error, queue, proxies, wire>>

\* A mutant of ReadAfterError: the thread stays counted as a reader.
ReadAfterErrorCounted(t) ==
    /\ pc[t] = "read" /\ last_error # "none"
    /\ Goto(t, "failed")
    /\ UNCHANGED <<got, asleep, outdated, hand, reading, queue, proxies, wire>>

\* wl_display_read_events when the connection has failed already.
ReadAfterError(t) ==
    /\ pc[t] = "read" /\ last_error # "none"
    /\ CancelRead
    /\ Goto(t, "failed")
    /\ UNCHANGED <<got, hand, last_error, queue, proxies, wire>>

\* read_events of a thread that is not the last: it waits for the others.
ReadWaits(t) ==
    /\ pc[t] = "read" /\ last_error = "none"
    /\ reader_count' = reader_count - 1
    /\ reader_count' # 0
    /\ asleep' = asleep \cup {t}
    /\ Goto(t, "wait")
    /\ UNCHANGED <<got, outdated, hand, last_error, queue, proxies, wire>>

\* read_events of the last one: it reads what there is, some or all of it, ...
ReadEvents(t, count) ==
    /\ pc[t] = "read" /\ last_error = "none"
    /\ reader_count' = reader_count - 1
    /\ reader_count' = 0
    /\ count <= Len(socket) /\ (count = 0 => socket = <<>> /\ ~closed)
    /\ LET new == QueueEvents(SubSeq(socket, 1, count))
       IN  /\ queue' = [q \in Queues |->
                  queue[q] \o SelectSeq(new, LAMBDA c : QueueOf(c) = q)]
           /\ refcount' = [p \in Proxies |-> refcount[p] + References(new, p)]
    /\ socket' = SubSeq(socket, count + 1, Len(socket))
    /\ WakeupThreads
    /\ Goto(t, "pending")
    /\ UNCHANGED <<got, hand, last_error, objects, incarnation,
                   destroyed, closed, server, sent>>

\* ... or finds that the server has closed the socket.
ReadHangup(t) ==
    /\ pc[t] = "read" /\ last_error = "none"
    /\ reader_count' = reader_count - 1
    /\ reader_count' = 0
    /\ socket = <<>> /\ closed
    /\ FatalError("EPIPE")
    /\ Goto(t, "failed")
    /\ UNCHANGED <<got, hand, queue, proxies, wire>>

\* The loop of read_events around pthread_cond_wait, of a thread woken.
Woken(t) ==
    /\ pc[t] = "wait" /\ t \notin asleep
    /\ IF t \notin outdated
       THEN asleep' = asleep \cup {t} /\ UNCHANGED <<pc, outdated>>
       ELSE /\ Goto(t, IF last_error = "none" THEN "pending" ELSE "failed")
            /\ outdated' = outdated \ {t}
            /\ UNCHANGED asleep
    /\ UNCHANGED <<got, hand, reading, queue, proxies, wire>>

\* POSIX lets pthread_cond_wait return at any time.
SpuriousWakeup(t) ==
    /\ t \in asleep
    /\ asleep' = asleep \ {t}
    /\ UNCHANGED <<pc, got, outdated, hand, reading, queue, proxies, wire>>

------------------------------------------------------------------------------
(* Dispatching *)

\* The references that a list of closures gives up when it is destroyed.
Release(s) == refcount' = [p \in Proxies |-> refcount[p] - References(s, p)]

\* The rest of dispatch_queue, with the references of the closures in done to be
\* given up: the display's events first, if the loop over them is not over, then
\* the thread's own.  Events for destroyed proxies are dropped on the way.
DispatchQueue(t, done, fromDisplay) ==
    LET q == IF fromDisplay /\ queue[Display] # <<>> THEN Display ELSE t
        live == {i \in 1..Len(queue[q]) : queue[q][i].proxy \notin destroyed}
        first == CHOOSE i \in live : \A j \in live : i <= j
        dropped == IF live = {} THEN Len(queue[q]) ELSE first - 1
    IN  /\ Release(done \o [i \in 1..dropped |-> Validate(queue[q][i])])
        /\ queue' = [queue EXCEPT ![q] = SubSeq(@, dropped + 2, Len(@))]
        /\ IF live = {}
           THEN /\ hand' = [hand EXCEPT ![t] = None]
                /\ Goto(t, IF got[t] \/ dropped > 0 \/ pc[t] = "full"
                           THEN "out" ELSE "again")
                /\ UNCHANGED got
           ELSE /\ hand' = [hand EXCEPT ![t] = Validate(queue[q][first])]
                /\ Goto(t, "handler")
                /\ got' = [got EXCEPT ![t] = TRUE]

\* wl_display_dispatch_queue_pending, up to the first handler.
Dispatch(t) ==
    /\ pc[t] \in {"full", "pending"}
    /\ IF last_error # "none"
       THEN Goto(t, "failed") /\ UNCHANGED <<got, hand, queue, refcount>>
       ELSE DispatchQueue(t, <<>>, TRUE)
    /\ UNCHANGED <<asleep, outdated, reading, objects, incarnation, destroyed,
                   wire>>

\* display_handle_delete_id
DeleteId(id) ==
    objects' = [objects EXCEPT ![id] = CASE @ = "zombie" -> "free"
                                         [] @ = "live" -> "id_deleted"
                                         [] OTHER -> @]

\* display_protocol_error looks at last_error before it takes the mutex.
ProtocolError ==
    \/ last_error' = "EPROTO"
    \/ last_error # "none" /\ UNCHANGED last_error

\* The handler returns and its closure is destroyed.
HandlerReturns(t) ==
    /\ pc[t] = "handler"
    /\ IF hand[t].kind = "error" THEN ProtocolError ELSE UNCHANGED last_error
    /\ IF hand[t].kind = "delete_id" THEN DeleteId(hand[t].arg) ELSE UNCHANGED objects
    /\ IF last_error' # "none"
       THEN /\ Release(<<hand[t]>>)
            /\ hand' = [hand EXCEPT ![t] = None]
            /\ Goto(t, "failed")
            /\ UNCHANGED <<got, queue>>
       ELSE DispatchQueue(t, <<hand[t]>>, hand[t].proxy = Display)
    /\ UNCHANGED <<asleep, outdated, reader_count, incarnation,
                   destroyed, wire>>

\* Two mutants of DestroyProxy: the proxy is freed although closures refer to it, or
\* its id is free before the server has confirmed that.
DestroyProxyAtOnce(t) ==
    /\ t \in Mortal /\ pc[t] \in {"out", "handler"} /\ Known(t)
    /\ objects' = [objects EXCEPT ![t] = IF @ = "id_deleted" THEN "free" ELSE "zombie"]
    /\ destroyed' = destroyed \cup {Lookup(t)}
    /\ refcount' = [refcount EXCEPT ![Lookup(t)] = 0]
    /\ UNCHANGED <<thread, reading, queue, incarnation, wire>>

DestroyProxyFreesId(t) ==
    /\ t \in Mortal /\ pc[t] \in {"out", "handler"} /\ Known(t)
    /\ objects' = [objects EXCEPT ![t] = "free"]
    /\ destroyed' = destroyed \cup {Lookup(t)}
    /\ refcount' = [refcount EXCEPT ![Lookup(t)] = @ - 1]
    /\ UNCHANGED <<thread, reading, queue, incarnation, wire>>

\* wl_proxy_destroy, by the thread that uses the proxy.
DestroyProxy(t) ==
    /\ t \in Mortal /\ pc[t] \in {"out", "handler"} /\ Known(t)
    /\ objects' = [objects EXCEPT ![t] = IF @ = "id_deleted" THEN "free" ELSE "zombie"]
    /\ destroyed' = destroyed \cup {Lookup(t)}
    /\ refcount' = [refcount EXCEPT ![Lookup(t)] = @ - 1]
    /\ UNCHANGED <<thread, reading, queue, incarnation, wire>>

\* proxy_create takes a free id; the server creates its object.
CreateProxy(t) ==
    /\ pc[t] \in {"out", "handler"} /\ objects[t] = "free"
    /\ incarnation[t] < MaxProxies
    /\ incarnation' = [incarnation EXCEPT ![t] = @ + 1]
    /\ objects' = [objects EXCEPT ![t] = "live"]
    /\ refcount' = [refcount EXCEPT ![<<t, incarnation[t] + 1>>] = 1]
    /\ server' = [server EXCEPT ![t] = incarnation[t] + 1]
    /\ UNCHANGED <<thread, reading, queue, destroyed, socket, closed, sent>>

------------------------------------------------------------------------------
(* The server *)

Put(n, id, of, kind, arg) ==
    /\ ~closed
    /\ socket' = Append(socket, [n |-> n, id |-> id, of |-> of, kind |-> kind, arg |-> arg])
    /\ UNCHANGED <<thread, reading, queue, proxies>>

SendEvent(id, arg) ==
    /\ server[id] # 0 /\ sent < MaxEvents
    /\ arg # None => server[arg] # 0
    /\ sent' = sent + 1
    /\ Put(sent', id, server[id], "event", arg)
    /\ UNCHANGED <<closed, server>>

\* The object ends, by a request of the client or by itself.
SendDeleteId(id) ==
    /\ id \in Mortal /\ server[id] # 0
    /\ server' = [server EXCEPT ![id] = 0]
    /\ Put(0, Display, 0, "delete_id", id)
    /\ UNCHANGED <<closed, sent>>

\* After an error the server closes the connection.
SendError ==
    /\ Put(0, Display, 0, "error", None)
    /\ closed' = TRUE
    /\ UNCHANGED <<server, sent>>

Hangup ==
    /\ ~closed
    /\ closed' = TRUE
    /\ UNCHANGED <<thread, reading, queue, proxies, socket, server, sent>>

------------------------------------------------------------------------------
Init ==
    /\ pc = [t \in Threads |-> "out"]
    /\ got = [t \in Threads |-> FALSE]
    /\ asleep = {} /\ outdated = {}
    /\ hand = [t \in Threads |-> None]
    /\ reader_count = 0 /\ last_error = "none"
    /\ queue = [q \in Queues |-> <<>>]
    /\ objects = [t \in Threads |-> "live"]
    /\ incarnation = [t \in Threads |-> 1]
    /\ destroyed = {}
    /\ refcount = [p \in Proxies |-> IF p[2] = 1 THEN 1 ELSE 0]
    /\ socket = <<>> /\ closed = FALSE
    /\ server = [t \in Threads |-> 1]
    /\ sent = 0

Step(t) ==
    \/ PrepareRead(t) \/ Flush(t) \/ Poll(t) \/ Cancel(t)
    \/ ReadAfterError(t) \/ ReadWaits(t) \/ ReadHangup(t)
    \/ \E count \in 0..Len(socket) : ReadEvents(t, count)
    \/ Woken(t) \/ Dispatch(t) \/ HandlerReturns(t)

Next ==
    \/ \E t \in Threads :
          \/ Step(t) \/ Timeout(t) \/ SpuriousWakeup(t)
          \/ DestroyProxy(t) \/ CreateProxy(t)
          \/ SendDeleteId(t)
          \/ \E arg \in (Arguments \ {t}) \cup {None} : SendEvent(t, arg)
    \/ SendError \/ Hangup

Spec == Init /\ [][Next]_vars

\* The client's threads keep calling wl_display_dispatch_queue until it fails,
\* their handlers return, and every thread gets to run.
FairSpec == Spec /\ \A t \in Threads : WF_vars(Step(t))

------------------------------------------------------------------------------
(* Properties *)

\* reader_count is the number of threads that are going to read or to cancel.
ReaderCountExact == reader_count = Cardinality(Readers)

\* "we must wake up threads whenever the reader_count dropped to 0": a thread
\* that sleeps in read_events has not missed a wakeup, and another thread is
\* bound to come that wakes it.
SleepersAwaited ==
    \A t \in asleep :
        /\ pc[t] = "wait" /\ t \notin outdated
        /\ Readers # {}

\* The closures that refer to proxies.
Held(t) == queue[t] \o (IF hand[t] = None THEN <<>> ELSE <<hand[t]>>)

\* How many references to p there are.
Owed(p) ==
    LET held == [t \in Threads |-> References(Held(t), p)]
        lists == {x \in Threads \X (1..2 * MaxEvents + 2) : x[2] <= held[x[1]]}
    IN  Cardinality(lists) +
          (IF p[2] <= incarnation[p[1]] /\ p \notin destroyed THEN 1 ELSE 0)

\* A proxy is not freed while the client, a queued closure or a running handler
\* still refers to it.
NoUseAfterFree == \A p \in Proxies : refcount[p] >= Owed(p)

\* What the threads see: a channel for every queue.
Event(c) == [n |-> c.n, kind |-> c.kind, proxy |-> c.proxy]
OnWire(q) ==
    LET s == SelectSeq(socket, LAMBDA m : m.id = q)
    IN  [i \in 1..Len(s) |-> [n |-> s[i].n, kind |-> s[i].kind,
            proxy |-> IF q = Display THEN Display ELSE <<q, s[i].of>>]]
Channel == [q \in Queues |-> [i \in 1..Len(queue[q]) |-> Event(queue[q][i])] \o OnWire(q)]

Channels == INSTANCE EventChannels WITH
    channel <- Channel,
    hand <- [t \in Threads |-> IF hand[t] = None THEN None ELSE Event(hand[t])],
    dead <- destroyed

\* The shared socket, the queues and the reading protocol implement a channel of
\* its own for every queue.
ImplementsChannels == Channels!Spec

\* An event sent is handled or discarded at last, unless the connection fails.
Undelivered(n) ==
    \E q \in Queues : \E i \in 1..Len(Channel[q]) : Channel[q][i].n = n
EventsHandled ==
    \A n \in 1..MaxEvents :
        Undelivered(n) ~> (~Undelivered(n) \/ last_error # "none")

\* A thread that sleeps in read_events returns when there is something to read
\* or the connection has failed.
SleepersReturn ==
    \A t \in Threads :
        pc[t] = "wait" /\ (Readable \/ last_error # "none") ~> pc[t] # "wait"
=============================================================================
