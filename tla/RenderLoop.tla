------------------------------ MODULE RenderLoop ------------------------------
(***************************************************************************)
(* When an output of KWin is painted: RenderLoop, which turns requests for *)
(* repaints into a timer, and Compositor::composite, which the timer calls *)
(* and which makes the frame that the backend presents or drops.           *)
(*                                                                         *)
(* Everything runs in the main thread.  composite is one call, but what it *)
(* calls asks for more repaints on the way, so it is split where the       *)
(* answer to such a request changes; other events come in between calls.   *)
(* Points in time are left out: a timer that runs fires some time later.   *)
(***************************************************************************)
EXTENDS Naturals, FiniteSets

CONSTANTS
    Layers,                 (* the output's layers: the scene, the cursor   *)
    MaxPendingFrameCount,   (* 2 with triple buffering, 1 without           *)
    Modes,                  (* the presentation modes of the output         *)
    MayFail,                (* whether layers cannot be set up at times     *)
    MaxInhibit,             (* reasons to inhibit: DPMS, session, modeset   *)
    MaxRequests,            (* bound: requests for a repaint                *)
    MaxInhibitions          (* bound: calls of inhibit                      *)

ASSUME LayersAssumption == IsFiniteSet(Layers)
ASSUME ModesAssumption ==
    /\ Modes \subseteq {"VSync", "AdaptiveSync", "Async", "AdaptiveAsync"}
    /\ "VSync" \in Modes /\ MayFail \in BOOLEAN
ASSUME BoundsAssumption ==
    /\ MaxPendingFrameCount \in Nat \ {0} /\ MaxInhibit \in Nat
    /\ MaxRequests \in Nat /\ MaxInhibitions \in Nat

VARIABLES
    compositeTimer,      \* whether it is active
    delayedVrrTimer,
    pendingFrameCount,
    preparingNewFrame,
    inhibitCount,
    pendingReschedule,
    presentationMode,
    terminating,         \* kwinApp()->isTerminating()
    repaints,            \* layers with needsRepaint()
    phase,               \* where composite is
    left,                \* layers that renderLayers has not come to
    tries,               \* layer configurations that presenting was tried with
    failed,              \* whether the last composite failed
    inFlight,            \* frames the backend has
    requests,            \* bound
    inhibitions          \* bound

loop == <<compositeTimer, delayedVrrTimer, pendingReschedule>>
frames == <<pendingFrameCount, inFlight>>
compositor == <<preparingNewFrame, phase, left, tries, failed>>
bounds == <<requests, inhibitions>>
vars == <<loop, frames, compositor, inhibitCount, presentationMode, terminating,
          repaints, bounds>>

------------------------------------------------------------------------------
(* RenderLoop *)

\* scheduleRepaint of RenderLoopPrivate, and doing nothing.
Start == compositeTimer' = TRUE /\ pendingReschedule' = FALSE
Leave == UNCHANGED <<compositeTimer, pendingReschedule>>

\* scheduleNextRepaint, while composite prepares a frame or not.
ScheduleNextRepaint(preparing) ==
    IF terminating \/ compositeTimer \/ preparing THEN Leave ELSE Start

\* Mutant: the limit of pending frames is off by one.
ScheduleRepaintOneMore(other, count, mode, preparing) ==
    IF other /\ mode # "VSync"
    THEN delayedVrrTimer' = TRUE /\ Leave
    ELSE /\ delayedVrrTimer' = FALSE
         /\ IF count <= (IF mode = "VSync" THEN MaxPendingFrameCount ELSE 1) /\ inhibitCount = 0
            THEN ScheduleNextRepaint(preparing)
            ELSE pendingReschedule' = TRUE /\ UNCHANGED compositeTimer

\* scheduleRepaint of RenderLoop, with the number of pending frames and the mode as
\* they are then; other says that the request comes from something else than the
\* active window, which sets the pace.
ScheduleRepaint(other, count, mode, preparing) ==
    IF other /\ mode # "VSync"
    THEN delayedVrrTimer' = TRUE /\ Leave
    ELSE /\ delayedVrrTimer' = FALSE
         /\ IF count < (IF mode = "VSync" THEN MaxPendingFrameCount ELSE 1) /\ inhibitCount = 0
            THEN ScheduleNextRepaint(preparing)
            ELSE pendingReschedule' = TRUE /\ UNCHANGED compositeTimer

\* OutputLayer::scheduleRepaint and addDeviceRepaint, by events, by clients or by what
\* composite calls.
RequestRepaint(layer, other) ==
    /\ phase # "dropping" /\ requests < MaxRequests
    /\ requests' = requests + 1
    /\ repaints' = repaints \cup {layer}
    /\ ScheduleRepaint(other, pendingFrameCount, presentationMode, preparingNewFrame)
    /\ UNCHANGED <<frames, compositor, inhibitCount, presentationMode, terminating,
                   inhibitions>>

\* Mutant: the timer asks with the item whose repaint it delayed.
DelayedVrrTimeoutOfItem ==
    /\ phase = "idle" /\ delayedVrrTimer
    /\ ScheduleRepaint(TRUE, pendingFrameCount, presentationMode, FALSE)
    /\ UNCHANGED <<frames, compositor, inhibitCount, presentationMode, terminating,
                   repaints, bounds>>

\* The end of the delay that slower items are given.
DelayedVrrTimeout ==
    /\ phase = "idle" /\ delayedVrrTimer
    /\ ScheduleRepaint(FALSE, pendingFrameCount, presentationMode, FALSE)
    /\ UNCHANGED <<frames, compositor, inhibitCount, presentationMode, terminating,
                   repaints, bounds>>

Inhibit ==
    /\ phase = "idle" /\ inhibitCount < MaxInhibit
    /\ inhibitions < MaxInhibitions
    /\ inhibitions' = inhibitions + 1
    /\ inhibitCount' = inhibitCount + 1
    /\ compositeTimer' = (compositeTimer /\ inhibitCount > 0)
    /\ UNCHANGED <<delayedVrrTimer, pendingReschedule, frames, compositor,
                   presentationMode, terminating, repaints, requests>>

Uninhibit ==
    /\ phase = "idle" /\ inhibitCount > 0
    /\ inhibitCount' = inhibitCount - 1
    /\ IF inhibitCount' = 0 THEN ScheduleNextRepaint(FALSE) ELSE Leave
    /\ UNCHANGED <<delayedVrrTimer, frames, compositor, presentationMode, terminating,
                   repaints, bounds>>

\* setRefreshRate
SetRefreshRate ==
    /\ phase = "idle" /\ compositeTimer
    /\ Start
    /\ UNCHANGED <<delayedVrrTimer, frames, compositor, inhibitCount, presentationMode,
                   terminating, repaints, bounds>>

Terminate ==
    /\ phase = "idle" /\ ~terminating
    /\ terminating' = TRUE
    /\ UNCHANGED <<loop, frames, compositor, inhibitCount, presentationMode, repaints,
                   bounds>>

------------------------------------------------------------------------------
(* Frames *)

\* OutputFrame::presented and notifyFrameCompleted: the timer, if it is active, starts
\* again with the new timestamp.
FramePresented ==
    /\ phase = "idle" /\ inFlight > 0
    /\ inFlight' = inFlight - 1
    /\ pendingFrameCount' = pendingFrameCount - 1
    /\ IF compositeTimer THEN Start
       ELSE IF inhibitCount = 0 /\ pendingReschedule THEN ScheduleNextRepaint(FALSE) ELSE Leave
    /\ UNCHANGED <<delayedVrrTimer, compositor, inhibitCount, presentationMode,
                   terminating, repaints, bounds>>

\* Mutants: the drop of a frame does not reschedule; it is not counted.
NotifyFrameDroppedOnly ==
    pendingFrameCount' = pendingFrameCount - 1 /\ Leave
NotifyFrameDroppedUncounted ==
    /\ UNCHANGED pendingFrameCount
    /\ IF inhibitCount = 0 /\ pendingReschedule THEN ScheduleNextRepaint(FALSE) ELSE Leave

NotifyFrameDropped ==
    /\ pendingFrameCount' = pendingFrameCount - 1
    /\ IF inhibitCount = 0 /\ pendingReschedule THEN ScheduleNextRepaint(FALSE) ELSE Leave

\* ~OutputFrame, when the backend drops its last reference.
FrameDropped ==
    /\ phase = "idle" /\ inFlight > 0
    /\ inFlight' = inFlight - 1
    /\ NotifyFrameDropped
    /\ UNCHANGED <<delayedVrrTimer, compositor, inhibitCount, presentationMode,
                   terminating, repaints, bounds>>

------------------------------------------------------------------------------
(* Compositor::composite *)

\* The timer fires; composite calls prepareNewFrame.
Composite ==
    /\ phase = "idle" /\ compositeTimer
    /\ compositeTimer' = FALSE
    /\ pendingFrameCount' = pendingFrameCount + 1
    /\ preparingNewFrame' = TRUE
    /\ phase' = "preparing"
    /\ tries' = 0
    /\ UNCHANGED <<delayedVrrTimer, pendingReschedule, inFlight, left, failed, inhibitCount,
                   presentationMode, terminating, repaints, bounds>>

\* A layer configuration passes the test; newFramePrepared.
SetupLayers ==
    /\ phase = "preparing"
    /\ preparingNewFrame' = FALSE
    /\ phase' = "rendering" /\ left' = Layers
    /\ UNCHANGED <<loop, frames, tries, failed, inhibitCount, presentationMode, terminating,
                   repaints, bounds>>

\* renderLayers comes to a layer.
RenderLayer(layer) ==
    /\ phase = "rendering" /\ layer \in left
    /\ left' = left \ {layer}
    /\ repaints' = repaints \ {layer}
    /\ UNCHANGED <<loop, frames, preparingNewFrame, phase, tries, failed, inhibitCount,
                   presentationMode, terminating, bounds>>

\* The last statement of composite: brightness, dimming or an animation ask for another
\* frame.
Animate(animated, mode) ==
    IF animated /\ requests < MaxRequests
    THEN /\ ScheduleRepaint(FALSE, pendingFrameCount, mode, FALSE)
         /\ requests' = requests + 1
    ELSE UNCHANGED <<loop, requests>>

\* The backend takes the frame, with the mode it chose.
Present(mode, animated) ==
    /\ phase = "rendering" /\ left = {}
    /\ phase' = "idle" /\ failed' = FALSE
    /\ presentationMode' = mode
    /\ inFlight' = inFlight + 1
    /\ Animate(animated, mode)
    /\ UNCHANGED <<pendingFrameCount, preparingNewFrame, left, tries, inhibitCount,
                   terminating, repaints, inhibitions>>

\* Presenting fails, and another layer configuration is set up and rendered.
PresentAgain(mode) ==
    /\ phase = "rendering" /\ left = {} /\ tries < 2
    /\ tries' = tries + 1
    /\ presentationMode' = mode
    /\ left' = Layers
    /\ UNCHANGED <<loop, frames, preparingNewFrame, phase, failed, inhibitCount,
                   terminating, repaints, bounds>>

\* No configuration passes the test, a layer is not rendered or no presentation works.
CompositeFails(mode, animated) ==
    /\ MayFail
    /\ phase = "preparing" \/ (phase = "rendering" /\ (tries > 0 \/ left # Layers))
    /\ mode = presentationMode \/ (phase = "rendering" /\ left = {})
    /\ phase' = "dropping" /\ preparingNewFrame' = FALSE
    /\ left' = {} /\ failed' = TRUE
    /\ presentationMode' = mode
    /\ Animate(animated, mode)
    /\ UNCHANGED <<frames, tries, inhibitCount, terminating, repaints, inhibitions>>

\* The frame that was not presented is destroyed when composite returns.
DropFrame ==
    /\ phase = "dropping"
    /\ phase' = "idle"
    /\ NotifyFrameDropped
    /\ UNCHANGED <<delayedVrrTimer, inFlight, preparingNewFrame, left, tries, failed,
                   inhibitCount, presentationMode, terminating, repaints, bounds>>

------------------------------------------------------------------------------

Init ==
    /\ compositeTimer = FALSE /\ delayedVrrTimer = FALSE /\ pendingReschedule = FALSE
    /\ pendingFrameCount = 0 /\ inFlight = 0
    /\ preparingNewFrame = FALSE /\ phase = "idle" /\ left = {} /\ tries = 0
    /\ failed = FALSE
    /\ inhibitCount = 0 /\ inhibitions = 0
    /\ presentationMode = "VSync"
    /\ terminating = FALSE
    /\ repaints = {} /\ requests = 0

FrameDone == FramePresented \/ FrameDropped

Rendering ==
    \/ Composite \/ SetupLayers \/ DropFrame
    \/ \E layer \in Layers : RenderLayer(layer)
    \/ \E mode \in Modes :
          \/ PresentAgain(mode)
          \/ \E animated \in BOOLEAN :
                Present(mode, animated) \/ CompositeFails(mode, animated)

Next ==
    \/ \E layer \in Layers, other \in BOOLEAN : RequestRepaint(layer, other)
    \/ DelayedVrrTimeout \/ Inhibit \/ Uninhibit \/ SetRefreshRate \/ Terminate
    \/ FrameDone \/ Rendering

Spec == Init /\ [][Next]_vars

\* Timers fire, composite returns and the backend finishes its frames.
FairSpec ==
    Spec /\ WF_vars(Rendering) /\ WF_vars(DelayedVrrTimeout) /\ WF_vars(FrameDone)

------------------------------------------------------------------------------
(* Properties *)

\* 1 when another frame is certain to be started, or made.
One(b) == IF b THEN 1 ELSE 0

\* Every variable has its type; preparingNewFrame is set in composite only, from
\* prepareNewFrame until newFramePrepared.
TypeOK ==
    /\ compositeTimer \in BOOLEAN /\ delayedVrrTimer \in BOOLEAN
    /\ pendingReschedule \in BOOLEAN /\ terminating \in BOOLEAN /\ failed \in BOOLEAN
    /\ pendingFrameCount \in Nat /\ inFlight \in Nat
    /\ phase \in {"idle", "preparing", "rendering", "dropping"} /\ tries \in 0..2
    /\ preparingNewFrame = (phase = "preparing")
    /\ left \subseteq Layers /\ repaints \subseteq Layers
    /\ inhibitCount \in 0..MaxInhibit
    /\ presentationMode \in Modes
    /\ requests \in 0..MaxRequests /\ inhibitions \in 0..MaxInhibitions

\* pendingFrameCount is the number of frames that will still be presented or dropped:
\* the asserts of notifyFrameDropped and notifyFrameCompleted hold, and no frame that
\* composite gave up leaves the loop waiting for it.
FrameCountExact ==
    pendingFrameCount = inFlight + One(phase # "idle")

\* Each repaint a layer needs is on its way, whatever the loop was doing when it was asked
\* for: a timer runs, a pending frame will start one when it completes (the count can
\* reach the limit and the mode can change in between), composite has not rendered the
\* layer yet, or uninhibit will schedule.  Only a composite that failed leaves repaints
\* that wait for the next request.
NoForgottenRepaint ==
    \A layer \in repaints :
        \/ compositeTimer \/ delayedVrrTimer
        \/ pendingReschedule /\ pendingFrameCount > 0
        \/ phase = "preparing" \/ layer \in left
        \/ inhibitCount > 0 \/ terminating \/ failed

\* The frames pending and the one that is scheduled exceed the limit of pending frames by
\* no more than one for each time the loop was inhibited: uninhibit is the only way past
\* the check of scheduleRepaint.
FrameLimit ==
    pendingFrameCount + One(compositeTimer) <= MaxPendingFrameCount + inhibitions

\* A layer that needs a repaint is rendered, unless the loop is inhibited, KWin terminates
\* or composite fails.
RepaintsHappen ==
    \A layer \in Layers :
        layer \in repaints ~>
            (layer \notin repaints \/ inhibitCount > 0 \/ terminating \/ failed)
===============================================================================
