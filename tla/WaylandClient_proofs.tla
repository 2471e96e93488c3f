------------------------- MODULE WaylandClient_proofs -------------------------
(***************************************************************************)
(* Proofs about the reading protocol of libwayland's client side: for every *)
(* number of threads, reader_count counts the readers and no thread sleeps  *)
(* in read_events unless another thread is bound to wake it.                *)
(***************************************************************************)
EXTENDS WaylandClient, FiniteSetTheorems, TLAPS

\* Threads inside read_events that wait for another thread to read.
Waiting == {t \in Threads : pc[t] = "wait"}

\* The inductive invariant.  The last conjunct is what makes SleepersAwaited
\* inductive: it also speaks of a thread that was woken for no reason and is
\* about to sleep again.
ReadInv ==
    /\ pc \in [Threads -> Labels]
    /\ ReaderCountExact
    /\ asleep \subseteq Waiting
    /\ outdated \subseteq Waiting
    /\ asleep \cap outdated = {}
    /\ Waiting \subseteq outdated \/ Readers # {}

readVars == <<pc, asleep, outdated, reader_count>>

------------------------------------------------------------------------------

\* The readers are finitely many, and reader_count is 0 exactly if there are none.
LEMMA ReadersFinite ==
    ASSUME ReadInv
    PROVE  /\ IsFiniteSet(Readers)
           /\ reader_count \in Nat
           /\ reader_count = 0 <=> Readers = {}
  <1>1. Readers \subseteq Threads
    BY DEF Readers
  <1>2. IsFiniteSet(Readers)
    BY <1>1, ThreadsAssumption, FS_Subset
  <1>3. Cardinality(Readers) \in Nat /\ (Cardinality(Readers) = 0 <=> Readers = {})
    BY <1>2, FS_CardinalityType, FS_EmptySet
  <1> QED
    BY <1>2, <1>3 DEF ReadInv, ReaderCountExact

\* A thread moves to a place that is neither that of a reader nor a wait.
LEMMA MoveElsewhere ==
    ASSUME ReadInv, NEW t \in Threads, NEW l \in Labels \ (Prepared \cup {"wait"}),
           pc[t] \notin Prepared \cup {"wait"},
           pc' = [pc EXCEPT ![t] = l], UNCHANGED <<asleep, outdated, reader_count>>
    PROVE  ReadInv'
  <1>1. pc' \in [Threads -> Labels]
    BY DEF ReadInv
  <1>2. Readers' = Readers /\ Waiting' = Waiting
    BY DEF ReadInv, Readers, Waiting
  <1> QED
    BY <1>1, <1>2 DEF ReadInv, ReaderCountExact

\* A reader moves on and is still one.
LEMMA MoveReader ==
    ASSUME ReadInv, NEW t \in Threads, NEW l \in Prepared, pc[t] \in Prepared,
           pc' = [pc EXCEPT ![t] = l]
    PROVE  pc' \in [Threads -> Labels] /\ Readers' = Readers /\ Waiting' = Waiting
  <1>1. l # "wait" /\ pc[t] # "wait" /\ l \in Labels
    BY DEF Prepared, Labels
  <1> QED
    BY <1>1 DEF ReadInv, Readers, Waiting

\* A reader is one no more.
LEMMA RemoveReader ==
    ASSUME ReadInv, NEW t \in Threads, NEW l \in Labels \ Prepared, pc[t] \in Prepared,
           pc' = [pc EXCEPT ![t] = l], reader_count' = reader_count - 1
    PROVE  /\ pc' \in [Threads -> Labels]
           /\ ReaderCountExact'
           /\ reader_count' = 0 <=> Readers' = {}
           /\ Waiting' = IF l = "wait" THEN Waiting \cup {t} ELSE Waiting
           /\ t \notin Waiting
  <1>1. pc' \in [Threads -> Labels]
    BY DEF ReadInv
  <1>2. Readers' = Readers \ {t} /\ t \in Readers
    BY DEF ReadInv, Readers
  <1>3. IsFiniteSet(Readers)
    BY ReadersFinite
  <1>4. IsFiniteSet(Readers') /\ Cardinality(Readers') = Cardinality(Readers) - 1
    BY <1>2, <1>3, FS_RemoveElement
  <1>5. Cardinality(Readers') = 0 <=> Readers' = {}
    BY <1>4, FS_EmptySet
  <1>6. pc[t] # "wait"
    BY DEF Prepared
  <1>7. Waiting' = IF l = "wait" THEN Waiting \cup {t} ELSE Waiting
    BY <1>6 DEF ReadInv, Waiting
  <1>8. t \notin Waiting
    BY <1>6 DEF Waiting
  <1> QED
    BY <1>1, <1>4, <1>5, <1>7, <1>8 DEF ReadInv, ReaderCountExact

\* A thread that stops being a reader wakes the others if it was the last one.
LEMMA CancelReadPreserves ==
    ASSUME ReadInv, NEW t \in Threads, NEW l \in Labels \ (Prepared \cup {"wait"}),
           pc[t] \in Prepared, pc' = [pc EXCEPT ![t] = l], CancelRead
    PROVE  ReadInv'
  <1>1. reader_count' = reader_count - 1
    BY DEF CancelRead
  <1>2. /\ pc' \in [Threads -> Labels] /\ ReaderCountExact'
        /\ reader_count' = 0 <=> Readers' = {}
        /\ Waiting' = Waiting
    <2>1. l \in Labels \ Prepared /\ l # "wait"
      OBVIOUS
    <2>2. /\ pc' \in [Threads -> Labels] /\ ReaderCountExact'
          /\ reader_count' = 0 <=> Readers' = {}
          /\ Waiting' = IF l = "wait" THEN Waiting \cup {t} ELSE Waiting
      BY <1>1, <2>1, RemoveReader
    <2> QED
      BY <2>1, <2>2
  <1>3. CASE reader_count' = 0
    <2>1. outdated' = Waiting /\ asleep' = {}
      BY <1>3 DEF CancelRead, WakeupThreads, Waiting
    <2>2. outdated' \subseteq Waiting' /\ asleep' \subseteq Waiting' \ outdated'
      BY <1>2, <2>1
    <2>3. Waiting' \subseteq outdated'
      BY <1>2, <2>1
    <2> QED
      BY <1>2, <2>2, <2>3 DEF ReadInv
  <1>4. CASE reader_count' # 0
    <2>1. outdated' = outdated /\ asleep' = asleep
      BY <1>4 DEF CancelRead, NoWakeup
    <2> QED
      BY <1>2, <1>4, <2>1 DEF ReadInv
  <1> QED
    BY <1>3, <1>4

------------------------------------------------------------------------------
(* Each step of a thread *)

LEMMA PrepareReadPreserves ==
    ASSUME ReadInv, NEW t \in Threads, PrepareRead(t)
    PROVE  ReadInv'
  <1>0. /\ pc[t] \in {"out", "again"} /\ pc[t] \notin Prepared \cup {"wait"}
        /\ UNCHANGED <<asleep, outdated>>
    BY DEF PrepareRead, Prepared
  <1>1. CASE queue[t] # <<>>
    <2>1. pc' = [pc EXCEPT ![t] = "full"] /\ UNCHANGED reader_count
      BY <1>1 DEF PrepareRead, Goto
    <2>2. "full" \in Labels \ (Prepared \cup {"wait"})
      BY DEF Labels, Prepared
    <2> QED
      BY <1>0, <2>1, <2>2, MoveElsewhere
  <1>2. CASE queue[t] = <<>>
    <2>1. PICK l \in {"flush", "poll"} : pc' = [pc EXCEPT ![t] = l]
      BY <1>2 DEF PrepareRead, Goto
    <2>2. l \in Prepared /\ l \in Labels /\ l # "wait"
      BY DEF Prepared, Labels
    <2>3. /\ pc' \in [Threads -> Labels]
          /\ Readers' = Readers \cup {t} /\ t \notin Readers
          /\ Waiting' = Waiting
      BY <1>0, <2>1, <2>2 DEF ReadInv, Readers, Waiting
    <2>4. Cardinality(Readers') = Cardinality(Readers) + 1
      BY <2>3, ReadersFinite, FS_AddElement
    <2>5. reader_count' = reader_count + 1
      BY <1>2 DEF PrepareRead
    <2>6. ReaderCountExact'
      BY <2>4, <2>5 DEF ReadInv, ReaderCountExact
    <2> QED
      BY <1>0, <2>3, <2>6 DEF ReadInv
  <1> QED
    BY <1>1, <1>2

LEMMA FlushPreserves ==
    ASSUME ReadInv, NEW t \in Threads, Flush(t)
    PROVE  ReadInv'
  <1>1. pc[t] \in Prepared /\ UNCHANGED reader_count
    BY DEF Flush, Prepared
  <1>2. PICK l \in {"poll", "abort"} : pc' = [pc EXCEPT ![t] = l]
    BY DEF Flush, Goto
  <1>3. l \in Prepared
    BY DEF Prepared
  <1>4. pc' \in [Threads -> Labels] /\ Readers' = Readers /\ Waiting' = Waiting
    BY <1>1, <1>2, <1>3, MoveReader
  <1>5. \/ outdated' = outdated /\ asleep' = asleep
        \/ outdated' = Waiting /\ asleep' = {}
    BY DEF Flush, FatalError, NoWakeup, WakeupThreads, Waiting
  <1> QED
    BY <1>1, <1>4, <1>5 DEF ReadInv, ReaderCountExact

LEMMA PollPreserves ==
    ASSUME ReadInv, NEW t \in Threads, Poll(t) \/ Timeout(t)
    PROVE  ReadInv'
  <1>1. pc[t] \in Prepared /\ UNCHANGED <<asleep, outdated, reader_count>>
    BY DEF Poll, Timeout, Prepared, reading
  <1>2. PICK l \in {"read", "cancel"} : pc' = [pc EXCEPT ![t] = l]
    BY DEF Poll, Timeout, Goto
  <1>3. l \in Prepared
    BY DEF Prepared
  <1>4. pc' \in [Threads -> Labels] /\ Readers' = Readers /\ Waiting' = Waiting
    BY <1>1, <1>2, <1>3, MoveReader
  <1> QED
    BY <1>1, <1>4 DEF ReadInv, ReaderCountExact

LEMMA CancelPreserves ==
    ASSUME ReadInv, NEW t \in Threads, Cancel(t) \/ ReadAfterError(t)
    PROVE  ReadInv'
  <1>1. pc[t] \in Prepared /\ CancelRead
    BY DEF Cancel, ReadAfterError, Prepared
  <1>2. PICK l \in {"out", "failed"} : pc' = [pc EXCEPT ![t] = l]
    BY DEF Cancel, ReadAfterError, Goto
  <1>3. l \in Labels \ (Prepared \cup {"wait"})
    BY DEF Labels, Prepared
  <1> QED
    BY <1>1, <1>2, <1>3, CancelReadPreserves

LEMMA ReadWaitsPreserves ==
    ASSUME ReadInv, NEW t \in Threads, ReadWaits(t)
    PROVE  ReadInv'
  <1>1. /\ pc[t] \in Prepared
        /\ pc' = [pc EXCEPT ![t] = "wait"] /\ reader_count' = reader_count - 1
        /\ asleep' = asleep \cup {t} /\ outdated' = outdated /\ reader_count' # 0
    BY DEF ReadWaits, Goto, Prepared
  <1>2. "wait" \in Labels \ Prepared
    BY DEF Labels, Prepared
  <1>3. /\ pc' \in [Threads -> Labels] /\ ReaderCountExact'
        /\ reader_count' = 0 <=> Readers' = {}
        /\ Waiting' = Waiting \cup {t} /\ t \notin Waiting
    BY <1>1, <1>2, RemoveReader
  <1> QED
    BY <1>1, <1>3 DEF ReadInv

LEMMA ReadPreserves ==
    ASSUME ReadInv, NEW t \in Threads,
           ReadHangup(t) \/ \E count \in 0..Len(socket) : ReadEvents(t, count)
    PROVE  ReadInv'
  <1>1. /\ pc[t] \in Prepared /\ reader_count' = reader_count - 1
        /\ outdated' = Waiting /\ asleep' = {}
    BY DEF ReadHangup, ReadEvents, Prepared, FatalError, WakeupThreads, Waiting
  <1>2. PICK l \in {"pending", "failed"} : pc' = [pc EXCEPT ![t] = l]
    BY DEF ReadHangup, ReadEvents, Goto
  <1>3. l \in Labels \ Prepared /\ l # "wait"
    BY DEF Labels, Prepared
  <1>4. pc' \in [Threads -> Labels] /\ ReaderCountExact' /\ Waiting' = Waiting
    BY <1>1, <1>2, <1>3, RemoveReader
  <1> QED
    BY <1>1, <1>4 DEF ReadInv

LEMMA WokenPreserves ==
    ASSUME ReadInv, NEW t \in Threads, Woken(t) \/ SpuriousWakeup(t)
    PROVE  ReadInv'
  <1>1. CASE SpuriousWakeup(t)
    <2>1. UNCHANGED <<pc, outdated, reader_count>> /\ asleep' = asleep \ {t}
      BY <1>1 DEF SpuriousWakeup, reading
    <2> QED
      BY <2>1 DEF ReadInv, ReaderCountExact, Readers, Waiting
  <1>2. CASE Woken(t) /\ t \notin outdated
    <2>1. /\ UNCHANGED <<pc, outdated, reader_count>>
          /\ asleep' = asleep \cup {t} /\ t \in Waiting
      BY <1>2 DEF Woken, Waiting, reading
    <2> QED
      BY <1>2, <2>1 DEF ReadInv, ReaderCountExact, Readers, Waiting
  <1>3. CASE Woken(t) /\ t \in outdated
    <2>1. /\ UNCHANGED <<asleep, reader_count>> /\ outdated' = outdated \ {t}
          /\ pc[t] = "wait" /\ t \notin asleep
      BY <1>3 DEF Woken, reading
    <2>2. PICK l \in {"pending", "failed"} : pc' = [pc EXCEPT ![t] = l]
      BY <1>3 DEF Woken, Goto
    <2>3. l \in Labels /\ l \notin Prepared /\ l # "wait" /\ pc[t] \notin Prepared
      BY <2>1 DEF Labels, Prepared
    <2>4. /\ pc' \in [Threads -> Labels]
          /\ Readers' = Readers /\ Waiting' = Waiting \ {t}
      BY <2>2, <2>3 DEF ReadInv, Readers, Waiting
    <2> QED
      BY <2>1, <2>4 DEF ReadInv, ReaderCountExact
  <1> QED
    BY <1>1, <1>2, <1>3

LEMMA DispatchPreserves ==
    ASSUME ReadInv, NEW t \in Threads, Dispatch(t) \/ HandlerReturns(t)
    PROVE  ReadInv'
  <1>1. /\ pc[t] \notin Prepared \cup {"wait"}
        /\ UNCHANGED <<asleep, outdated, reader_count>>
    BY DEF Dispatch, HandlerReturns, Prepared, reading
  <1>2. PICK l \in {"failed", "out", "again", "handler"} : pc' = [pc EXCEPT ![t] = l]
    BY DEF Dispatch, HandlerReturns, DispatchQueue, Goto
  <1>3. l \in Labels \ (Prepared \cup {"wait"})
    BY DEF Labels, Prepared
  <1> QED
    BY <1>1, <1>2, <1>3, MoveElsewhere

\* Everything else leaves the threads where they are.
LEMMA OthersPreserve ==
    ASSUME ReadInv, UNCHANGED readVars
    PROVE  ReadInv'
  BY DEF ReadInv, ReaderCountExact, Readers, Waiting, readVars

------------------------------------------------------------------------------
(* Theorems *)

LEMMA ReadInvInitially == Init => ReadInv
  <1> SUFFICES ASSUME Init PROVE ReadInv
    OBVIOUS
  <1>1. pc = [t \in Threads |-> "out"] /\ asleep = {} /\ outdated = {} /\ reader_count = 0
    BY DEF Init
  <1>2. Readers = {} /\ Waiting = {} /\ pc \in [Threads -> Labels]
    BY <1>1 DEF Readers, Waiting, Prepared, Labels
  <1>3. Cardinality(Readers) = 0
    BY <1>2, FS_EmptySet
  <1> QED
    BY <1>1, <1>2, <1>3 DEF ReadInv, ReaderCountExact

LEMMA ReadInvPreserved == ReadInv /\ [Next]_vars => ReadInv'
  <1> SUFFICES ASSUME ReadInv, [Next]_vars PROVE ReadInv'
    OBVIOUS
  <1>1. ASSUME NEW t \in Threads, Step(t) PROVE ReadInv'
    <2>1. CASE PrepareRead(t)
      BY <2>1, PrepareReadPreserves
    <2>2. CASE Flush(t)
      BY <2>2, FlushPreserves
    <2>3. CASE Poll(t)
      BY <2>3, PollPreserves
    <2>4. CASE Cancel(t) \/ ReadAfterError(t)
      BY <2>4, CancelPreserves
    <2>5. CASE ReadWaits(t)
      BY <2>5, ReadWaitsPreserves
    <2>6. CASE ReadHangup(t) \/ \E count \in 0..Len(socket) : ReadEvents(t, count)
      BY <2>6, ReadPreserves
    <2>7. CASE Woken(t)
      BY <2>7, WokenPreserves
    <2>8. CASE Dispatch(t) \/ HandlerReturns(t)
      BY <2>8, DispatchPreserves
    <2> QED
      BY <1>1, <2>1, <2>2, <2>3, <2>4, <2>5, <2>6, <2>7, <2>8 DEF Step
  <1>2. ASSUME NEW t \in Threads, Timeout(t) PROVE ReadInv'
    BY <1>2, PollPreserves
  <1>3. ASSUME NEW t \in Threads, SpuriousWakeup(t) PROVE ReadInv'
    BY <1>3, WokenPreserves
  <1>4. ASSUME NEW t \in Threads, DestroyProxy(t) \/ CreateProxy(t) PROVE ReadInv'
    <2>1. UNCHANGED readVars
      BY <1>4 DEF DestroyProxy, CreateProxy, thread, reading, readVars
    <2> QED
      BY <2>1, OthersPreserve
  <1>5. ASSUME NEW t \in Threads,
               SendDeleteId(t) \/ \E arg \in (Arguments \ {t}) \cup {None} : SendEvent(t, arg)
        PROVE  ReadInv'
    <2>1. UNCHANGED readVars
      BY <1>5 DEF SendDeleteId, SendEvent, Put, thread, reading, readVars
    <2> QED
      BY <2>1, OthersPreserve
  <1>6. ASSUME SendError \/ Hangup PROVE ReadInv'
    <2>1. UNCHANGED readVars
      BY <1>6 DEF SendError, Hangup, Put, thread, reading, readVars
    <2> QED
      BY <2>1, OthersPreserve
  <1>7. ASSUME UNCHANGED vars PROVE ReadInv'
    <2>1. UNCHANGED readVars
      BY <1>7 DEF vars, thread, reading, readVars
    <2> QED
      BY <2>1, OthersPreserve
  <1> QED
    BY <1>1, <1>2, <1>3, <1>4, <1>5, <1>6, <1>7 DEF Next

\* reader_count is exactly the number of threads between prepare_read and read or
\* cancel, in every reachable state and for every finite set of threads.
THEOREM ReaderCountExactHolds == Spec => []ReaderCountExact
  <1>1. ReadInv => ReaderCountExact
    BY DEF ReadInv
  <1> QED
    BY <1>1, ReadInvInitially, ReadInvPreserved, PTL DEF Spec

\* No wakeup is lost: a thread that sleeps in read_events has seen the current
\* read_serial, and some other thread has announced a read that will wake it.
THEOREM SleepersAwaitedHolds == Spec => []SleepersAwaited
  <1>1. ReadInv => SleepersAwaited
    BY DEF ReadInv, SleepersAwaited, Waiting
  <1> QED
    BY <1>1, ReadInvInitially, ReadInvPreserved, PTL DEF Spec
===============================================================================
