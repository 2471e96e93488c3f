------------------------ MODULE MCSurfaceTransactions ------------------------
(* Instances of SurfaceTransactions for TLC. *)
EXTENDS SurfaceTransactions, TLC

CONSTANTS r, m, a, b

Shape(buffer, barrier, wait) ==
    [buffer |-> buffer, barrier |-> barrier, wait |-> wait]

\* The content of a commit: a buffer, a buffer as a fifo client commits it, a
\* wait for the barrier, no buffer.
Frame == Shape("attach", FALSE, FALSE)
FifoFrame == Shape("attach", TRUE, TRUE)
Wait == Shape("keep", FALSE, TRUE)
Unmap == Shape("detach", FALSE, FALSE)

Frames == {Frame}
FifoShapes == {FifoFrame, Wait, Unmap}
MappingShapes == {Frame, Unmap}
MixedShapes == {FifoFrame, Frame, Unmap}

\* r is a main surface; its sub-surfaces are next to each other, nested, or both.
Pair == r :> None @@ a :> r
Tree == r :> None @@ a :> r @@ b :> r @@ m :> a
Nested == r :> None @@ m :> r @@ a :> m

PairCommits == r :> 2 @@ a :> 2
NestedCommits == r :> 2 @@ m :> 1 @@ a :> 1
ReparentCommits == r :> 1 @@ m :> 1 @@ a :> 2
NestedTwice == r :> 1 @@ m :> 2 @@ a :> 2
TeardownCommits == r :> 2 @@ a :> 1 @@ b :> 1 @@ m :> 0
=============================================================================
