-------------------------- MODULE RenderLoop_proofs --------------------------
(***************************************************************************)
(* Proofs about RenderLoop, for any layers, limits and bounds.             *)
(*                                                                         *)
(* NoForgottenRepaint is not inductive: the frame that ends a series of    *)
(* failures clears failed, so the repaints it excused must be covered      *)
(* otherwise by then.  Covered says how: from the moment the layers are    *)
(* set up until the frame is presented, failed excuses nothing.            *)
(* Nor is FrameLimit: an inhibition has to reserve the frame that the      *)
(* uninhibit which ends it starts, and Budget counts it.                   *)
(***************************************************************************)
EXTENDS RenderLoop, TLAPS

Covered ==
    \A layer \in repaints :
        \/ compositeTimer \/ delayedVrrTimer
        \/ pendingReschedule /\ pendingFrameCount > 0
        \/ phase = "preparing" \/ layer \in left
        \/ inhibitCount > 0 \/ terminating
        \/ failed /\ phase # "rendering"

Budget ==
    pendingFrameCount + One(compositeTimer) + One(inhibitCount > 0)
        <= MaxPendingFrameCount + inhibitions

LoopInv == TypeOK /\ FrameCountExact /\ Budget /\ Covered

\* What starting a repaint or not leaves: only the timer and pendingReschedule may change,
\* and unless it cannot, the timer runs.
LEMMA ScheduleNextRepaintStarts ==
    ASSUME TypeOK, NEW preparing \in BOOLEAN, ScheduleNextRepaint(preparing)
    PROVE  /\ compositeTimer' \in BOOLEAN /\ pendingReschedule' \in BOOLEAN
           /\ compositeTimer' \/ terminating \/ preparing
           /\ compositeTimer => compositeTimer'
BY DEF TypeOK, ScheduleNextRepaint, Start, Leave

\* A request is taken up by a timer, by a pending frame, by the frame that is being
\* prepared or by uninhibit, and starts the timer below the limit only.
LEMMA ScheduleRepaintCovers ==
    ASSUME TypeOK, NEW other \in BOOLEAN, NEW mode \in Modes, NEW preparing \in BOOLEAN,
           ScheduleRepaint(other, pendingFrameCount, mode, preparing)
    PROVE  /\ compositeTimer' \in BOOLEAN /\ delayedVrrTimer' \in BOOLEAN
           /\ pendingReschedule' \in BOOLEAN
           /\ \/ compositeTimer' \/ delayedVrrTimer'
              \/ pendingReschedule' /\ pendingFrameCount > 0
              \/ preparing \/ terminating \/ inhibitCount > 0
           /\ compositeTimer' =>
                 compositeTimer \/ (pendingFrameCount < MaxPendingFrameCount /\ inhibitCount = 0)
<1>1. MaxPendingFrameCount \in Nat \ {0} /\ pendingFrameCount \in Nat /\ inhibitCount \in Nat
  BY BoundsAssumption DEF TypeOK
<1> DEFINE limit == IF mode = "VSync" THEN MaxPendingFrameCount ELSE 1
<1>2. limit \in Nat \ {0} /\ limit <= MaxPendingFrameCount
  BY <1>1
<1>3. CASE other /\ mode # "VSync"
  BY <1>3, <1>1 DEF ScheduleRepaint, Leave, TypeOK
<1>4. CASE ~(other /\ mode # "VSync") /\ pendingFrameCount < limit /\ inhibitCount = 0
  <2>1. delayedVrrTimer' = FALSE /\ ScheduleNextRepaint(preparing)
    BY <1>4 DEF ScheduleRepaint
  <2>2. /\ compositeTimer' \in BOOLEAN /\ pendingReschedule' \in BOOLEAN
        /\ compositeTimer' \/ terminating \/ preparing
    BY <2>1, ScheduleNextRepaintStarts
  <2>3. pendingFrameCount < MaxPendingFrameCount
    BY <1>4, <1>1, <1>2
  <2>4. QED
    BY <2>1, <2>2, <2>3, <1>4
<1>5. CASE ~(other /\ mode # "VSync") /\ ~(pendingFrameCount < limit /\ inhibitCount = 0)
  <2>1. delayedVrrTimer' = FALSE /\ pendingReschedule' = TRUE /\ compositeTimer' = compositeTimer
    BY <1>5 DEF ScheduleRepaint
  <2>2. pendingFrameCount > 0 \/ inhibitCount > 0
    BY <1>5, <1>1, <1>2
  <2>3. compositeTimer \in BOOLEAN
    BY DEF TypeOK
  <2>4. QED
    BY <2>1, <2>2, <2>3
<1>6. QED
  BY <1>3, <1>4, <1>5

LEMMA InitHolds == Init => LoopInv
<1> SUFFICES ASSUME Init PROVE LoopInv
  OBVIOUS
<1>1. TypeOK
  <2>1. preparingNewFrame = (phase = "preparing")
    <3>1. preparingNewFrame = FALSE /\ phase # "preparing"
      BY DEF Init
    <3>2. QED
      BY <3>1
  <2>2. /\ pendingFrameCount \in Nat /\ inFlight \in Nat
        /\ tries \in 0..2 /\ inhibitCount \in 0..MaxInhibit
        /\ requests \in 0..MaxRequests /\ inhibitions \in 0..MaxInhibitions
    BY BoundsAssumption DEF Init
  <2>3. /\ compositeTimer \in BOOLEAN /\ delayedVrrTimer \in BOOLEAN
        /\ pendingReschedule \in BOOLEAN /\ terminating \in BOOLEAN /\ failed \in BOOLEAN
        /\ phase \in {"idle", "preparing", "rendering", "dropping"}
        /\ left \subseteq Layers /\ repaints \subseteq Layers
        /\ presentationMode \in Modes
    BY ModesAssumption DEF Init
  <2>4. QED
    BY <2>1, <2>2, <2>3 DEF TypeOK
<1>2. FrameCountExact
  BY DEF Init, FrameCountExact, One
<1>3. Budget
  BY BoundsAssumption DEF Init, Budget, One
<1>4. Covered
  BY DEF Init, Covered
<1>5. QED
  BY <1>1, <1>2, <1>3, <1>4 DEF LoopInv

------------------------------------------------------------------------------
(* The steps *)

LEMMA RequestRepaintKeeps ==
    ASSUME LoopInv, NEW layer \in Layers, NEW other \in BOOLEAN, RequestRepaint(layer, other)
    PROVE  LoopInv'
<1> USE DEF LoopInv
<1>1. presentationMode \in Modes /\ preparingNewFrame \in BOOLEAN
  BY DEF TypeOK
<1>2. /\ compositeTimer' \in BOOLEAN /\ delayedVrrTimer' \in BOOLEAN
      /\ pendingReschedule' \in BOOLEAN
      /\ \/ compositeTimer' \/ delayedVrrTimer'
         \/ pendingReschedule' /\ pendingFrameCount > 0
         \/ preparingNewFrame \/ terminating \/ inhibitCount > 0
      /\ compositeTimer' =>
            compositeTimer \/ (pendingFrameCount < MaxPendingFrameCount /\ inhibitCount = 0)
  BY <1>1, ScheduleRepaintCovers DEF RequestRepaint
<1>3. TypeOK'
  BY <1>2, BoundsAssumption DEF RequestRepaint, TypeOK, frames, compositor
<1>4. FrameCountExact'
  BY DEF RequestRepaint, FrameCountExact, One, frames, compositor
<1>5. Budget'
  BY <1>2, BoundsAssumption
     DEF RequestRepaint, Budget, TypeOK, One, frames, compositor
<1>6. Covered'
  BY <1>2 DEF RequestRepaint, Covered, TypeOK, frames, compositor
<1>7. QED
  BY <1>3, <1>4, <1>5, <1>6

LEMMA DelayedVrrTimeoutKeeps ==
    ASSUME LoopInv, DelayedVrrTimeout
    PROVE  LoopInv'
<1> USE DEF LoopInv
<1>1. presentationMode \in Modes
  BY DEF TypeOK
<1>2. /\ compositeTimer' \in BOOLEAN /\ delayedVrrTimer' \in BOOLEAN
      /\ pendingReschedule' \in BOOLEAN
      /\ \/ compositeTimer' \/ delayedVrrTimer'
         \/ pendingReschedule' /\ pendingFrameCount > 0
         \/ terminating \/ inhibitCount > 0
      /\ compositeTimer' =>
            compositeTimer \/ (pendingFrameCount < MaxPendingFrameCount /\ inhibitCount = 0)
  BY <1>1, ScheduleRepaintCovers DEF DelayedVrrTimeout
<1>3. TypeOK'
  BY <1>2 DEF DelayedVrrTimeout, TypeOK, frames, compositor, bounds
<1>4. FrameCountExact'
  BY DEF DelayedVrrTimeout, FrameCountExact, One, frames, compositor
<1>5. Budget'
  BY <1>2, BoundsAssumption
     DEF DelayedVrrTimeout, Budget, TypeOK, One, frames, bounds
<1>6. Covered'
  BY <1>2 DEF DelayedVrrTimeout, Covered, frames
<1>7. QED
  BY <1>3, <1>4, <1>5, <1>6

LEMMA InhibitKeeps ==
    ASSUME LoopInv, Inhibit
    PROVE  LoopInv'
<1> USE DEF LoopInv
<1>1. compositeTimer' \in BOOLEAN /\ (compositeTimer' => compositeTimer)
  BY DEF Inhibit, TypeOK
<1>2. TypeOK'
  BY <1>1, BoundsAssumption DEF Inhibit, TypeOK, frames, compositor
<1>3. FrameCountExact'
  BY DEF Inhibit, FrameCountExact, One, frames, compositor
<1>4. Budget'
  BY <1>1, BoundsAssumption DEF Inhibit, Budget, TypeOK, One, frames
<1>5. inhibitCount' > 0
  BY DEF Inhibit, TypeOK
<1>6. Covered'
  BY <1>5 DEF Covered
<1>7. QED
  BY <1>2, <1>3, <1>4, <1>6

\* The frame that an inhibition reserves is started.
LEMMA UninhibitKeeps ==
    ASSUME LoopInv, Uninhibit
    PROVE  LoopInv'
<1> USE DEF LoopInv
<1>1. /\ inhibitCount \in Nat /\ inhibitCount > 0 /\ inhibitCount' = inhibitCount - 1
      /\ inhibitCount' \in 0..MaxInhibit
  BY BoundsAssumption DEF Uninhibit, TypeOK
<1>2. /\ compositeTimer' \in BOOLEAN /\ pendingReschedule' \in BOOLEAN
      /\ compositeTimer => compositeTimer'
      /\ compositeTimer' \/ terminating \/ inhibitCount' > 0
      /\ compositeTimer' = compositeTimer \/ ~(inhibitCount' > 0)
  <2>1. CASE inhibitCount' = 0
    <3>1. ScheduleNextRepaint(FALSE)
      BY <2>1 DEF Uninhibit
    <3>2. ~(inhibitCount' > 0)
      BY <2>1
    <3>3. QED
      BY <3>1, <3>2, ScheduleNextRepaintStarts
  <2>2. CASE inhibitCount' # 0
    <3>1. Leave
      BY <2>2 DEF Uninhibit
    <3>2. compositeTimer' = compositeTimer /\ pendingReschedule' = pendingReschedule
      BY <3>1 DEF Leave
    <3>3. inhibitCount' > 0
      BY <2>2, <1>1
    <3>4. QED
      BY <3>2, <3>3 DEF TypeOK
  <2>3. QED
    BY <2>1, <2>2
<1>3. TypeOK'
  BY <1>1, <1>2 DEF Uninhibit, TypeOK, frames, compositor, bounds
<1>4. FrameCountExact'
  BY DEF Uninhibit, FrameCountExact, One, frames, compositor
<1>5. Budget'
  <2>1. One(inhibitCount > 0) = 1
    BY <1>1 DEF One
  <2>2. One(compositeTimer') + One(inhibitCount' > 0) <= One(compositeTimer) + 1
    BY <1>1, <1>2 DEF One, TypeOK
  <2>3. One(compositeTimer) \in Nat /\ One(compositeTimer') \in Nat /\ One(inhibitCount' > 0) \in Nat
    BY DEF One
  <2>4. QED
    BY <2>1, <2>2, <2>3, BoundsAssumption DEF Uninhibit, Budget, TypeOK, frames, bounds
<1>6. Covered'
  BY <1>2 DEF Uninhibit, Covered
<1>7. QED
  BY <1>3, <1>4, <1>5, <1>6

LEMMA SetRefreshRateKeeps ==
    ASSUME LoopInv, SetRefreshRate
    PROVE  LoopInv'
<1> USE DEF LoopInv
<1>1. compositeTimer' = TRUE /\ compositeTimer = TRUE /\ pendingReschedule' = FALSE
  BY DEF SetRefreshRate, Start, TypeOK
<1>2. TypeOK'
  BY <1>1 DEF SetRefreshRate, TypeOK, frames, compositor, bounds
<1>3. FrameCountExact'
  BY DEF SetRefreshRate, FrameCountExact, One, frames, compositor
<1>4. Budget'
  BY <1>1 DEF SetRefreshRate, Budget, One, frames, bounds
<1>5. Covered'
  BY <1>1 DEF Covered
<1>6. QED
  BY <1>2, <1>3, <1>4, <1>5

LEMMA TerminateKeeps ==
    ASSUME LoopInv, Terminate
    PROVE  LoopInv'
BY DEF LoopInv, Terminate, TypeOK, FrameCountExact, Budget, Covered, One,
       loop, frames, compositor, bounds

\* The end of a frame: the timer starts only in its place, and when a request was waiting
\* for it the timer runs unless it cannot.
LEMMA FrameEnds ==
    ASSUME LoopInv, phase # "preparing", pendingFrameCount' = pendingFrameCount - 1,
           IF inhibitCount = 0 /\ pendingReschedule THEN ScheduleNextRepaint(FALSE) ELSE Leave
    PROVE  /\ compositeTimer' \in BOOLEAN /\ pendingReschedule' \in BOOLEAN
           /\ compositeTimer => compositeTimer'
           /\ pendingReschedule => compositeTimer' \/ terminating \/ inhibitCount > 0
           /\ compositeTimer' = compositeTimer \/ ~(inhibitCount > 0)
<1> USE DEF LoopInv
<1>1. CASE inhibitCount = 0 /\ pendingReschedule
  <2>1. ~(inhibitCount > 0)
    BY <1>1
  <2>2. QED
    BY <1>1, <2>1, ScheduleNextRepaintStarts
<1>2. CASE ~(inhibitCount = 0 /\ pendingReschedule)
  <2>1. compositeTimer' = compositeTimer /\ pendingReschedule' = pendingReschedule
    BY <1>2 DEF Leave
  <2>2. inhibitCount \in Nat
    BY BoundsAssumption DEF TypeOK
  <2>3. pendingReschedule => inhibitCount > 0
    BY <1>2, <2>2
  <2>4. QED
    BY <2>1, <2>3 DEF TypeOK
<1>3. QED
  BY <1>1, <1>2

\* The sum that Budget bounds does not grow when a frame ends.
LEMMA BudgetKept ==
    ASSUME LoopInv, pendingFrameCount' = pendingFrameCount - 1, compositeTimer' \in BOOLEAN,
           compositeTimer' = compositeTimer \/ ~(inhibitCount > 0),
           UNCHANGED <<inhibitCount, inhibitions>>
    PROVE  Budget'
<1>1. /\ One(compositeTimer) \in Nat /\ One(compositeTimer') \in 0..1
      /\ One(inhibitCount > 0) \in 0..1
  BY DEF One
<1>2. One(compositeTimer') <= One(compositeTimer) + 1
  BY <1>1
<1>3. QED
  BY <1>1, <1>2, BoundsAssumption DEF LoopInv, Budget, TypeOK

\* One frame less with the backend.
LEMMA FrameLeaves ==
    ASSUME LoopInv, phase = "idle", inFlight > 0, inFlight' = inFlight - 1,
           pendingFrameCount' = pendingFrameCount - 1, UNCHANGED phase
    PROVE  /\ pendingFrameCount' \in Nat /\ inFlight' \in Nat
           /\ FrameCountExact'
<1>1. One(phase # "idle") = 0 /\ One(phase' # "idle") = 0
  BY DEF One
<1>2. QED
  BY <1>1 DEF LoopInv, TypeOK, FrameCountExact

LEMMA FramePresentedKeeps ==
    ASSUME LoopInv, FramePresented
    PROVE  LoopInv'
<1> USE DEF LoopInv
<1>1. /\ phase = "idle" /\ inFlight > 0 /\ inFlight' = inFlight - 1
      /\ pendingFrameCount' = pendingFrameCount - 1
      /\ UNCHANGED <<delayedVrrTimer, compositor, inhibitCount, presentationMode,
                     terminating, repaints, bounds>>
  BY DEF FramePresented
<1>2. /\ compositeTimer' \in BOOLEAN /\ pendingReschedule' \in BOOLEAN
      /\ compositeTimer => compositeTimer'
      /\ pendingReschedule => compositeTimer' \/ terminating \/ inhibitCount > 0
      /\ compositeTimer' = compositeTimer \/ ~(inhibitCount > 0)
  <2>1. CASE compositeTimer
    <3>1. compositeTimer' = TRUE /\ pendingReschedule' = FALSE /\ compositeTimer = TRUE
      BY <2>1 DEF FramePresented, Start, TypeOK
    <3>2. QED
      BY <3>1
  <2>2. CASE ~compositeTimer
    <3>1. IF inhibitCount = 0 /\ pendingReschedule THEN ScheduleNextRepaint(FALSE) ELSE Leave
      BY <2>2 DEF FramePresented
    <3>2. QED
      BY <3>1, <1>1, FrameEnds
  <2>3. QED
    BY <2>1, <2>2
<1>3. pendingFrameCount' \in Nat /\ inFlight' \in Nat /\ FrameCountExact'
  BY <1>1, FrameLeaves DEF compositor
<1>4. TypeOK'
  BY <1>1, <1>2, <1>3 DEF TypeOK, compositor, bounds
<1>5. Budget'
  BY <1>1, <1>2, BudgetKept DEF bounds
<1>6. Covered'
  BY <1>1, <1>2 DEF Covered, compositor
<1>7. QED
  BY <1>3, <1>4, <1>5, <1>6

LEMMA FrameDroppedKeeps ==
    ASSUME LoopInv, FrameDropped
    PROVE  LoopInv'
<1> USE DEF LoopInv
<1>1. /\ phase = "idle" /\ inFlight > 0 /\ inFlight' = inFlight - 1
      /\ pendingFrameCount' = pendingFrameCount - 1
      /\ UNCHANGED <<delayedVrrTimer, compositor, inhibitCount, presentationMode,
                     terminating, repaints, bounds>>
  BY DEF FrameDropped, NotifyFrameDropped
<1>2. /\ compositeTimer' \in BOOLEAN /\ pendingReschedule' \in BOOLEAN
      /\ compositeTimer => compositeTimer'
      /\ pendingReschedule => compositeTimer' \/ terminating \/ inhibitCount > 0
      /\ compositeTimer' = compositeTimer \/ ~(inhibitCount > 0)
  BY <1>1, FrameEnds DEF FrameDropped, NotifyFrameDropped
<1>3. pendingFrameCount' \in Nat /\ inFlight' \in Nat /\ FrameCountExact'
  BY <1>1, FrameLeaves DEF compositor
<1>4. TypeOK'
  BY <1>1, <1>2, <1>3 DEF TypeOK, compositor, bounds
<1>5. Budget'
  BY <1>1, <1>2, BudgetKept DEF bounds
<1>6. Covered'
  BY <1>1, <1>2 DEF Covered, compositor
<1>7. QED
  BY <1>3, <1>4, <1>5, <1>6

LEMMA DropFrameKeeps ==
    ASSUME LoopInv, DropFrame
    PROVE  LoopInv'
<1> USE DEF LoopInv
<1>1. /\ phase = "dropping" /\ phase' = "idle"
      /\ pendingFrameCount' = pendingFrameCount - 1
      /\ UNCHANGED <<delayedVrrTimer, inFlight, preparingNewFrame, left, tries, failed,
                     inhibitCount, presentationMode, terminating, repaints, bounds>>
  BY DEF DropFrame, NotifyFrameDropped
<1>2. /\ compositeTimer' \in BOOLEAN /\ pendingReschedule' \in BOOLEAN
      /\ compositeTimer => compositeTimer'
      /\ pendingReschedule => compositeTimer' \/ terminating \/ inhibitCount > 0
      /\ compositeTimer' = compositeTimer \/ ~(inhibitCount > 0)
  BY <1>1, FrameEnds DEF DropFrame, NotifyFrameDropped
<1>3. pendingFrameCount' \in Nat /\ FrameCountExact'
  <2>1. One(phase # "idle") = 1 /\ One(phase' # "idle") = 0
    BY <1>1 DEF One
  <2>2. QED
    BY <1>1, <2>1 DEF TypeOK, FrameCountExact
<1>4. TypeOK'
  <2>1. preparingNewFrame' = (phase' = "preparing")
    BY <1>1 DEF TypeOK
  <2>2. QED
    BY <1>1, <1>2, <1>3, <2>1 DEF TypeOK, bounds
<1>5. Budget'
  BY <1>1, <1>2, BudgetKept DEF bounds
<1>6. Covered'
  BY <1>1, <1>2 DEF Covered
<1>7. QED
  BY <1>3, <1>4, <1>5, <1>6

\* The frame that was scheduled becomes a pending one.
LEMMA CompositeKeeps ==
    ASSUME LoopInv, Composite
    PROVE  LoopInv'
<1> USE DEF LoopInv
<1>1. /\ phase = "idle" /\ phase' = "preparing" /\ compositeTimer /\ compositeTimer' = FALSE
      /\ pendingFrameCount' = pendingFrameCount + 1 /\ preparingNewFrame' = TRUE /\ tries' = 0
      /\ UNCHANGED <<delayedVrrTimer, pendingReschedule, inFlight, left, failed, inhibitCount,
                     presentationMode, terminating, repaints, bounds>>
  BY DEF Composite
<1>2. preparingNewFrame' = (phase' = "preparing")
  BY <1>1
<1>3. pendingFrameCount' \in Nat /\ tries' \in 0..2
  BY <1>1 DEF TypeOK
<1>4. TypeOK'
  BY <1>1, <1>2, <1>3 DEF TypeOK, bounds
<1>5. FrameCountExact'
  <2>1. One(phase # "idle") = 0 /\ One(phase' # "idle") = 1
    BY <1>1 DEF One
  <2>2. QED
    BY <1>1, <2>1 DEF TypeOK, FrameCountExact
<1>6. Budget'
  <2>1. One(compositeTimer) = 1 /\ One(compositeTimer') = 0 /\ One(inhibitCount > 0) \in 0..1
    BY <1>1 DEF One
  <2>2. /\ pendingFrameCount' = pendingFrameCount + 1
        /\ inhibitions' = inhibitions /\ inhibitCount' = inhibitCount
    BY <1>1 DEF bounds
  <2>3. QED
    BY <2>1, <2>2, BoundsAssumption DEF TypeOK, Budget
<1>7. Covered'
  BY <1>1 DEF Covered
<1>8. QED
  BY <1>4, <1>5, <1>6, <1>7

LEMMA SetupLayersKeeps ==
    ASSUME LoopInv, SetupLayers
    PROVE  LoopInv'
<1> USE DEF LoopInv
<1>1. /\ phase = "preparing" /\ phase' = "rendering" /\ preparingNewFrame' = FALSE
      /\ left' = Layers
      /\ UNCHANGED <<loop, frames, tries, failed, inhibitCount, presentationMode,
                     terminating, repaints, bounds>>
  BY DEF SetupLayers
<1>2. preparingNewFrame' = (phase' = "preparing")
  BY <1>1
<1>3. TypeOK'
  BY <1>1, <1>2 DEF TypeOK, loop, frames, bounds
<1>4. FrameCountExact'
  <2>1. One(phase # "idle") = 1 /\ One(phase' # "idle") = 1
    BY <1>1 DEF One
  <2>2. QED
    BY <1>1, <2>1 DEF FrameCountExact, frames
<1>5. Budget'
  BY <1>1 DEF Budget, One, loop, frames, bounds
<1>6. Covered'
  BY <1>1 DEF Covered, TypeOK
<1>7. QED
  BY <1>3, <1>4, <1>5, <1>6

LEMMA RenderLayerKeeps ==
    ASSUME LoopInv, NEW layer \in Layers, RenderLayer(layer)
    PROVE  LoopInv'
<1> USE DEF LoopInv, RenderLayer, loop, frames, bounds
<1>1. TypeOK'
  BY DEF TypeOK
<1>2. FrameCountExact'
  BY DEF FrameCountExact, One
<1>3. Budget'
  BY DEF Budget, One
<1>4. Covered'
  BY DEF Covered
<1>5. QED
  BY <1>1, <1>2, <1>3, <1>4

LEMMA PresentAgainKeeps ==
    ASSUME LoopInv, NEW mode \in Modes, PresentAgain(mode)
    PROVE  LoopInv'
<1> USE DEF LoopInv, PresentAgain, loop, frames, bounds
<1>1. TypeOK'
  BY DEF TypeOK
<1>2. FrameCountExact'
  BY DEF FrameCountExact, One
<1>3. Budget'
  BY DEF Budget, One
<1>4. Covered'
  BY DEF Covered, TypeOK
<1>5. QED
  BY <1>1, <1>2, <1>3, <1>4

\* What the last statement of composite does, with one frame pending at least.
LEMMA AnimateCovers ==
    ASSUME LoopInv, NEW mode \in Modes, NEW animated \in BOOLEAN, Animate(animated, mode)
    PROVE  /\ compositeTimer' \in BOOLEAN /\ delayedVrrTimer' \in BOOLEAN
           /\ pendingReschedule' \in BOOLEAN /\ requests' \in 0..MaxRequests
           /\ \/ compositeTimer' \/ delayedVrrTimer'
              \/ pendingReschedule' /\ pendingFrameCount > 0
              \/ terminating \/ inhibitCount > 0
              \/ UNCHANGED loop
           /\ compositeTimer' =>
                 compositeTimer \/ (pendingFrameCount < MaxPendingFrameCount /\ inhibitCount = 0)
<1> USE DEF LoopInv
<1>1. CASE animated /\ requests < MaxRequests
  <2>1. /\ ScheduleRepaint(FALSE, pendingFrameCount, mode, FALSE)
        /\ requests' = requests + 1
    BY <1>1 DEF Animate
  <2>2. requests' \in 0..MaxRequests
    BY <2>1, <1>1, BoundsAssumption DEF TypeOK
  <2>3. QED
    BY <2>1, <2>2, ScheduleRepaintCovers
<1>2. CASE ~(animated /\ requests < MaxRequests)
  <2>1. UNCHANGED loop /\ requests' = requests
    BY <1>2 DEF Animate
  <2>2. QED
    BY <2>1 DEF TypeOK, loop
<1>3. QED
  BY <1>1, <1>2

\* Nor does it let the sum that Budget bounds exceed the limit.
LEMMA BudgetStarts ==
    ASSUME LoopInv, compositeTimer' \in BOOLEAN,
           compositeTimer' =>
              compositeTimer \/ (pendingFrameCount < MaxPendingFrameCount /\ inhibitCount = 0),
           UNCHANGED <<pendingFrameCount, inhibitCount, inhibitions>>
    PROVE  Budget'
<1>1. CASE compositeTimer' /\ ~compositeTimer
  <2>1. One(compositeTimer') = 1 /\ One(inhibitCount' > 0) = 0
    BY <1>1 DEF One
  <2>2. QED
    BY <2>1, <1>1, BoundsAssumption DEF Budget, LoopInv, TypeOK
<1>2. CASE ~(compositeTimer' /\ ~compositeTimer)
  <2>1. /\ One(compositeTimer') <= One(compositeTimer)
        /\ One(compositeTimer') \in 0..1 /\ One(compositeTimer) \in 0..1
        /\ One(inhibitCount > 0) \in 0..1
    BY <1>2 DEF One, LoopInv, TypeOK
  <2>2. QED
    BY <2>1, BoundsAssumption DEF Budget, LoopInv, TypeOK
<1>3. QED
  BY <1>1, <1>2

LEMMA PresentKeeps ==
    ASSUME LoopInv, NEW mode \in Modes, NEW animated \in BOOLEAN, Present(mode, animated)
    PROVE  LoopInv'
<1> USE DEF LoopInv
<1>1. /\ phase = "rendering" /\ phase' = "idle" /\ left = {} /\ failed' = FALSE
      /\ presentationMode' = mode /\ inFlight' = inFlight + 1 /\ Animate(animated, mode)
      /\ UNCHANGED <<pendingFrameCount, preparingNewFrame, left, tries, inhibitCount,
                     terminating, repaints, inhibitions>>
  BY DEF Present
<1>2. /\ compositeTimer' \in BOOLEAN /\ delayedVrrTimer' \in BOOLEAN
      /\ pendingReschedule' \in BOOLEAN /\ requests' \in 0..MaxRequests
      /\ \/ compositeTimer' \/ delayedVrrTimer'
         \/ pendingReschedule' /\ pendingFrameCount > 0
         \/ terminating \/ inhibitCount > 0
         \/ UNCHANGED loop
      /\ compositeTimer' =>
            compositeTimer \/ (pendingFrameCount < MaxPendingFrameCount /\ inhibitCount = 0)
  BY <1>1, AnimateCovers
<1>3. TypeOK'
  <2>1. preparingNewFrame' = (phase' = "preparing")
    BY <1>1 DEF TypeOK
  <2>2. inFlight' \in Nat
    BY <1>1 DEF TypeOK
  <2>3. QED
    BY <1>1, <1>2, <2>1, <2>2 DEF TypeOK
<1>4. FrameCountExact'
  <2>1. One(phase # "idle") = 1 /\ One(phase' # "idle") = 0
    BY <1>1 DEF One
  <2>2. QED
    BY <1>1, <2>1 DEF TypeOK, FrameCountExact
<1>5. Budget'
  BY <1>1, <1>2, BudgetStarts
<1>6. Covered'
  BY <1>1, <1>2 DEF Covered, loop
<1>7. QED
  BY <1>3, <1>4, <1>5, <1>6

LEMMA CompositeFailsKeeps ==
    ASSUME LoopInv, NEW mode \in Modes, NEW animated \in BOOLEAN,
           CompositeFails(mode, animated)
    PROVE  LoopInv'
<1> USE DEF LoopInv
<1>1. /\ phase \in {"preparing", "rendering"} /\ phase' = "dropping" /\ failed' = TRUE
      /\ preparingNewFrame' = FALSE /\ left' = {} /\ presentationMode' = mode
      /\ Animate(animated, mode)
      /\ UNCHANGED <<pendingFrameCount, inFlight, tries, inhibitCount, terminating, repaints,
                     inhibitions>>
  BY DEF CompositeFails, frames
<1>2. /\ compositeTimer' \in BOOLEAN /\ delayedVrrTimer' \in BOOLEAN
      /\ pendingReschedule' \in BOOLEAN /\ requests' \in 0..MaxRequests
      /\ compositeTimer' =>
            compositeTimer \/ (pendingFrameCount < MaxPendingFrameCount /\ inhibitCount = 0)
  BY <1>1, AnimateCovers
<1>3. TypeOK'
  <2>1. preparingNewFrame' = (phase' = "preparing")
    BY <1>1
  <2>2. QED
    BY <1>1, <1>2, <2>1 DEF TypeOK
<1>4. FrameCountExact'
  <2>1. One(phase # "idle") = 1 /\ One(phase' # "idle") = 1
    BY <1>1 DEF One
  <2>2. QED
    BY <1>1, <2>1 DEF FrameCountExact
<1>5. Budget'
  BY <1>1, <1>2, BudgetStarts
<1>6. Covered'
  BY <1>1 DEF Covered
<1>7. QED
  BY <1>3, <1>4, <1>5, <1>6

------------------------------------------------------------------------------
(* The theorems *)

LEMMA StepKeeps == LoopInv /\ [Next]_vars => LoopInv'
<1> SUFFICES ASSUME LoopInv, [Next]_vars PROVE LoopInv'
  OBVIOUS
<1>1. CASE UNCHANGED vars
  BY <1>1 DEF LoopInv, TypeOK, FrameCountExact, Budget, Covered, One,
              vars, loop, frames, compositor, bounds
<1>2. CASE \E layer \in Layers, other \in BOOLEAN : RequestRepaint(layer, other)
  BY <1>2, RequestRepaintKeeps
<1>3. CASE DelayedVrrTimeout \/ Inhibit \/ Uninhibit \/ SetRefreshRate \/ Terminate
  BY <1>3, DelayedVrrTimeoutKeeps, InhibitKeeps, UninhibitKeeps, SetRefreshRateKeeps,
     TerminateKeeps
<1>4. CASE FrameDone
  BY <1>4, FramePresentedKeeps, FrameDroppedKeeps DEF FrameDone
<1>5. CASE Rendering
  BY <1>5, CompositeKeeps, SetupLayersKeeps, DropFrameKeeps, RenderLayerKeeps,
     PresentAgainKeeps, PresentKeeps, CompositeFailsKeeps DEF Rendering
<1>6. QED
  BY <1>1, <1>2, <1>3, <1>4, <1>5 DEF Next

LEMMA LoopInvHolds == Spec => []LoopInv
BY InitHolds, StepKeeps, PTL DEF Spec

\* pendingFrameCount counts the frames that are made or with the backend: each
\* prepareNewFrame is matched by one notifyFrameCompleted or notifyFrameDropped, composites
\* that fail included.
THEOREM FrameCountExactHolds == Spec => []FrameCountExact
<1>1. LoopInv => FrameCountExact
  BY DEF LoopInv
<1>2. QED
  BY <1>1, LoopInvHolds, PTL

\* No repaint is forgotten, whatever was pending, inhibited or being prepared when it was
\* asked for, with any number of layers and any limit of pending frames.
THEOREM NoForgottenRepaintHolds == Spec => []NoForgottenRepaint
<1>1. LoopInv => NoForgottenRepaint
  BY DEF LoopInv, Covered, NoForgottenRepaint
<1>2. QED
  BY <1>1, LoopInvHolds, PTL

\* The frames exceed maxPendingFrameCount by one per inhibition at most.
THEOREM FrameLimitHolds == Spec => []FrameLimit
<1>1. LoopInv => FrameLimit
  <2>1. /\ One(compositeTimer) \in 0..1 /\ One(inhibitCount > 0) \in 0..1
    BY DEF One
  <2>2. QED
    BY <2>1, BoundsAssumption DEF LoopInv, TypeOK, Budget, FrameLimit
<1>2. QED
  BY <1>1, LoopInvHolds, PTL
==============================================================================
