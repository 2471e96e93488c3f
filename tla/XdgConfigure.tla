----------------------------- MODULE XdgConfigure -----------------------------
(***************************************************************************)
(* How KWin and the client of an xdg_toplevel agree on the geometry and on *)
(* the maximized state of its window: XdgSurfaceWindow and                 *)
(* XdgToplevelWindow, which request a state, send it in configure events   *)
(* when the event loop is idle and remember them, the xdg_surface, whose   *)
(* commits acknowledge the events, and a client that answers.              *)
(*                                                                         *)
(* Events and commits travel in order, each in its own direction; commits  *)
(* may also be held back by the transactions of the surface. Decorations,  *)
(* gravity, window rules, tiles, interactive moves and the other states of *)
(* a toplevel are left out, and a new window is placed by a move:          *)
(* geometries are positions and sizes, of the frame and of the buffer      *)
(* alike.                                                                  *)
(***************************************************************************)
EXTENDS Naturals, Sequences

CONSTANTS
    Positions, Sizes,
    Center,         (* where a new window is                               *)
    Corner, Full,   (* position and size of a maximized window             *)
    None,           (* no size, no buffer, no serial                       *)
    MaxRequests,    (* bound: requests of the compositor                   *)
    MaxFrames       (* bound: commits of the client that answer no event   *)

Geometry == [pos : Positions, size : Sizes \cup {None}]
Area == [pos |-> Corner, size |-> Full]
ConfigureEvent == [serial : Nat, bounds : Geometry, states : BOOLEAN, position : BOOLEAN]

ASSUME GeometryAssumption ==
    /\ None \notin Positions /\ None \notin Sizes /\ None \notin Nat
    /\ Center \in Positions /\ Corner \in Positions /\ Full \in Sizes
ASSUME BoundsAssumption == MaxRequests \in Nat /\ MaxFrames \in Nat

VARIABLES
    (* XdgSurfaceWindow, XdgToplevelWindow *)
    configureTimer,         \* whether it is active
    configureEvents,        \* sent and not acknowledged by an applied commit
    configurePosition,      \* the flag in m_configureFlags
    moveResizeGeometry,     \* what was asked for last
    frameGeometry,
    geometryRestore,
    nextStates,             \* whether the window is to be maximized
    acknowledgedStates,     \* whether it is
    placed,
    lastAcknowledged,       \* m_lastAcknowledgedConfigureSerial
    (* XdgSurfaceInterfacePrivate *)
    surface,                \* "reset", "initialized" or "mapped"
    isConfigured,
    serial,                 \* the last one of the display
    (* the client *)
    wire,                   \* events that it has not dispatched
    commits,                \* its commits that are not applied
    client,                 \* "idle", "waiting", "configured" or "shown"
    clientSize, clientStates,
    (* history and bounds *)
    dragged,                \* where a move put the window, until something else is asked for
    wanted,                 \* the position that was asked for last
    overtaken,              \* whether an older event that moves the window may undo that
    requests, clientFrames

history == <<dragged, wanted, overtaken>>
requested == <<configureTimer, configurePosition, moveResizeGeometry, geometryRestore,
               nextStates, placed, history>>
shown == <<frameGeometry, acknowledgedStates, lastAcknowledged>>
xdg == <<surface, isConfigured>>
clientVars == <<client, clientSize, clientStates, clientFrames>>
vars == <<requested, shown, xdg, configureEvents, serial, wire, commits, clientVars, requests>>

------------------------------------------------------------------------------
(* Requests of the compositor *)

Request == surface # "reset" /\ requests < MaxRequests /\ requests' = requests + 1

\* Mutant: a move leaves the events alone.
UnpositionedNot(events) == events

\* Events that no longer move the window.
Unpositioned(events) == [i \in DOMAIN events |-> [events[i] EXCEPT !.position = FALSE]]

\* Window::move and moveResizeInternal with Move: positions that were asked for before
\* are cancelled.
Move(pos) ==
    /\ Request
    /\ moveResizeGeometry' = [moveResizeGeometry EXCEPT !.pos = pos]
    /\ configureEvents' = Unpositioned(configureEvents)
    /\ configurePosition' = FALSE
    /\ frameGeometry' = [frameGeometry EXCEPT !.pos = pos]
    /\ dragged' = pos /\ wanted' = pos /\ overtaken' = FALSE
    /\ UNCHANGED <<configureTimer, geometryRestore, nextStates, placed, acknowledgedStates,
                   lastAcknowledged, xdg, serial, wire, commits, clientVars>>

\* moveResizeInternal with MoveResize or Resize: the client is asked for another size,
\* and the window moves when it has it.  If it has that size already, it moves at once, and
\* the events that were sent before, and may move it elsewhere, are left alone.
MoveResizeTo(rect) ==
    /\ moveResizeGeometry' = rect
    /\ wanted' = rect.pos
    /\ overtaken' = /\ rect.size = frameGeometry.size /\ ~configurePosition
                    /\ \E i \in DOMAIN configureEvents : configureEvents[i].position
    /\ IF rect.size = frameGeometry.size
       THEN frameGeometry' = rect /\ UNCHANGED configurePosition
       ELSE configurePosition' = TRUE /\ UNCHANGED frameGeometry

MoveResize(rect) ==
    /\ Request
    /\ MoveResizeTo(rect)
    /\ configureTimer' = (configureTimer \/ rect.size # frameGeometry.size)
    /\ dragged' = IF rect.pos = moveResizeGeometry.pos THEN dragged ELSE None
    /\ UNCHANGED <<geometryRestore, nextStates, placed, acknowledgedStates,
                   lastAcknowledged, xdg, configureEvents, serial, wire, commits, clientVars>>

\* The geometry that maximize asks for: a window that was never shown at a size of its
\* own is restored to the size that the client prefers.
Restored ==
    IF geometryRestore.size = None THEN [Area EXCEPT !.size = None] ELSE geometryRestore

\* maximize
Maximize(maximized) ==
    /\ Request
    /\ nextStates # maximized
    /\ nextStates' = maximized
    /\ geometryRestore' = IF maximized THEN moveResizeGeometry ELSE geometryRestore
    /\ MoveResizeTo(IF maximized THEN Area ELSE Restored)
    /\ configureTimer' = TRUE
    /\ placed' = TRUE
    /\ dragged' = None
    /\ UNCHANGED <<acknowledgedStates, lastAcknowledged, xdg, configureEvents, serial, wire,
                   commits, clientVars>>

\* doSetActive and whatever else schedules a configure event.
ScheduleConfigure ==
    /\ Request
    /\ configureTimer' = TRUE
    /\ UNCHANGED <<configurePosition, moveResizeGeometry, geometryRestore, nextStates, placed,
                   history, shown, xdg, configureEvents, serial, wire, commits, clientVars>>

\* Mutant: an event does not inherit the position of the one before it.
SendConfigureAnew ==
    /\ configureTimer
    /\ configureTimer' = FALSE
    /\ serial' = serial + 1
    /\ configureEvents' = Append(configureEvents,
          [serial |-> serial + 1, bounds |-> moveResizeGeometry, states |-> nextStates,
           position |-> configurePosition])
    /\ configurePosition' = FALSE
    /\ wire' = Append(wire, [serial |-> serial + 1, size |-> moveResizeGeometry.size,
                             states |-> nextStates])
    /\ isConfigured' = TRUE
    /\ UNCHANGED <<moveResizeGeometry, geometryRestore, nextStates, placed, history, shown,
                   surface, commits, clientVars, requests>>

\* The timer fires: sendConfigure and sendRoleConfigure.
SendConfigure ==
    /\ configureTimer
    /\ configureTimer' = FALSE
    /\ serial' = serial + 1
    /\ LET inherited == configureEvents # <<>>
                          /\ configureEvents[Len(configureEvents)].position
       IN /\ configureEvents' = Append(configureEvents,
                [serial |-> serial + 1, bounds |-> moveResizeGeometry, states |-> nextStates,
                 position |-> inherited \/ configurePosition])
          /\ overtaken' = (overtaken /\ ~inherited)
    /\ configurePosition' = FALSE
    /\ wire' = Append(wire, [serial |-> serial + 1, size |-> moveResizeGeometry.size,
                             states |-> nextStates])
    /\ isConfigured' = TRUE
    /\ UNCHANGED <<moveResizeGeometry, geometryRestore, nextStates, placed, dragged, wanted, shown,
                   surface, commits, clientVars, requests>>

------------------------------------------------------------------------------
(* Commits *)

\* apply of a commit without a buffer, after one with a buffer: the xdg_surface is reset,
\* the window is destroyed and another one is created.
Reset ==
    /\ surface' = "reset" /\ isConfigured' = FALSE
    /\ configureTimer' = FALSE /\ configureEvents' = <<>> /\ configurePosition' = FALSE
    /\ moveResizeGeometry' = [pos |-> Center, size |-> None]
    /\ frameGeometry' = [pos |-> Center, size |-> None]
    /\ geometryRestore' = [pos |-> Center, size |-> None]
    /\ nextStates' = FALSE /\ acknowledgedStates' = FALSE
    /\ placed' = FALSE /\ dragged' = None /\ wanted' = Center /\ overtaken' = FALSE
    /\ lastAcknowledged' = None

\* The first commit: initialize, for a window that wants to be maximized or not.
Initialize(maximized) ==
    /\ surface' = "initialized"
    /\ configureTimer' = TRUE
    /\ nextStates' = maximized /\ placed' = maximized
    /\ geometryRestore' = IF maximized THEN moveResizeGeometry ELSE geometryRestore
    /\ IF maximized THEN MoveResizeTo(Area)
       ELSE UNCHANGED <<moveResizeGeometry, configurePosition, frameGeometry, wanted, overtaken>>
    /\ UNCHANGED <<configureEvents, isConfigured, acknowledgedStates, lastAcknowledged, dragged>>

\* Mutant: the loop stops at the event that was acknowledged.
TakesBefore(n, ack) ==
    IF ack = None THEN n = 0
    ELSE /\ \A i \in 1..n : configureEvents[i].serial < ack
         /\ n < Len(configureEvents) => configureEvents[n + 1].serial >= ack

\* The loop of handleCommit takes the first n events.
Takes(n, ack) ==
    IF ack = None THEN n = 0
    ELSE /\ \A i \in 1..n : configureEvents[i].serial <= ack
         /\ n < Len(configureEvents) => configureEvents[n + 1].serial > ack

\* handleNextWindowGeometry, for a buffer of that size, after n events were taken.
NextGeometry(n, size) ==
    [pos  |-> IF n > 0 /\ configureEvents[n].position
              THEN configureEvents[n].bounds.pos ELSE frameGeometry.pos,
     size |-> size]

\* handleCommit, with the events that are left: the window takes the geometry if an event
\* was taken, the size is another one or something else changed m_haveNextWindowGeometry
\* since it was reset, and moveResizeGeometry follows unless events that change it are on
\* their way.  Then a window that is shown for the first time moves to the place it is given, if any.
HandleCommit(n, size, changed, place) ==
    LET left == SubSeq(configureEvents, n + 1, Len(configureEvents))
        have == n > 0 \/ size # frameGeometry.size \/ changed
        sync == /\ have /\ ~configureTimer
                /\ \A i \in DOMAIN left : ~left[i].position
        frame == IF have THEN NextGeometry(n, size) ELSE frameGeometry
        asked == IF sync THEN frame ELSE moveResizeGeometry
        moved == place # None
    IN /\ configureEvents' = IF moved THEN Unpositioned(left) ELSE left
       /\ frameGeometry' = IF moved THEN [frame EXCEPT !.pos = place] ELSE frame
       /\ moveResizeGeometry' = IF moved THEN [asked EXCEPT !.pos = place] ELSE asked
       /\ configurePosition' = (configurePosition /\ ~moved)
       /\ dragged' = IF moved THEN place ELSE dragged
       /\ wanted' = IF moved THEN place ELSE wanted
       /\ overtaken' = (overtaken /\ ~moved)
       /\ acknowledgedStates' = IF n > 0 THEN configureEvents[n].states ELSE acknowledgedStates
       /\ lastAcknowledged' = None

Acknowledged(commit) == IF commit.ack # None THEN commit.ack ELSE lastAcknowledged

\* A commit of a window that is shown.
CommitShown(commit) ==
    /\ surface = "mapped" /\ commit.size # None
    /\ \E n \in 0..Len(configureEvents), changed \in BOOLEAN :
          Takes(n, Acknowledged(commit)) /\ HandleCommit(n, commit.size, changed, None)
    /\ UNCHANGED <<configureTimer, geometryRestore, nextStates, placed, xdg>>

\* The first commit with a buffer: markAsMapped makes the workspace place the window,
\* unless it is placed, and perhaps activate it.
CommitMaps(commit) ==
    /\ surface = "initialized" /\ isConfigured /\ commit.size # None
    /\ surface' = "mapped" /\ placed' = TRUE
    /\ \E n \in 0..Len(configureEvents), changed \in BOOLEAN,
          place \in IF placed THEN {None} ELSE Positions :
          Takes(n, Acknowledged(commit)) /\ HandleCommit(n, commit.size, changed, place)
    /\ \E activated \in BOOLEAN : configureTimer' = (configureTimer \/ activated)
    /\ UNCHANGED <<geometryRestore, nextStates, isConfigured>>

\* Mutant: the serial is forgotten on the early return.
CommitEmptyForgets(commit) ==
    /\ surface = "initialized" /\ commit.size = None
    /\ lastAcknowledged' = None
    /\ UNCHANGED <<requested, frameGeometry, acknowledgedStates, xdg, configureEvents>>

\* A commit without a buffer of a window that has not been shown: handleCommit returns,
\* and the serial is kept.
CommitEmpty(commit) ==
    /\ surface = "initialized" /\ commit.size = None
    /\ lastAcknowledged' = Acknowledged(commit)
    /\ UNCHANGED <<requested, frameGeometry, acknowledgedStates, xdg, configureEvents>>

ApplyCommit ==
    /\ commits # <<>>
    /\ commits' = Tail(commits)
    /\ LET commit == Head(commits)
       IN \/ CommitShown(commit) \/ CommitMaps(commit) \/ CommitEmpty(commit)
          \/ surface = "mapped" /\ commit.size = None /\ Reset
          \/ surface = "reset" /\ \E maximized \in BOOLEAN : Initialize(maximized)
    /\ UNCHANGED <<serial, wire, clientVars, requests>>

------------------------------------------------------------------------------
(* The client *)

Commit(size, ack) == commits' = Append(commits, [size |-> size, ack |-> ack])
CountFrame == clientFrames < MaxFrames /\ clientFrames' = clientFrames + 1

\* The initial commit.  A client that was shown before waits until its unmapping commit is
\* applied, and ignores the events of the window that it was.
InitialCommit ==
    /\ client = "idle" /\ commits = <<>>
    /\ client' = "waiting"
    /\ wire' = <<>>
    /\ Commit(None, None)
    /\ UNCHANGED <<requested, shown, xdg, configureEvents, serial, clientSize, clientStates,
                   clientFrames, requests>>

\* The client acknowledges the last of the n events it has dispatched, with a buffer of
\* the size it was given or of another one that it prefers, unless it is maximized.  For
\* the first time, the buffer may come later.
Answer(n, size) ==
    /\ client # "idle"
    /\ \/ size = wire[n].size /\ size # None
       \/ size # None /\ (wire[n].size = None \/ ~wire[n].states)
       \/ size = None /\ client # "shown"
    /\ Commit(size, wire[n].serial)
    /\ wire' = SubSeq(wire, n + 1, Len(wire))
    /\ client' = IF size = None THEN "configured" ELSE "shown"
    /\ clientSize' = size /\ clientStates' = wire[n].states
    /\ UNCHANGED <<requested, shown, xdg, configureEvents, serial, clientFrames, requests>>

\* A commit that acknowledges nothing: another frame, or another size.
Frame(size) ==
    /\ client \in {"configured", "shown"}
    /\ size = clientSize \/ clientSize = None \/ ~clientStates
    /\ CountFrame
    /\ client' = "shown" /\ clientSize' = size
    /\ Commit(size, None)
    /\ UNCHANGED <<requested, shown, xdg, configureEvents, serial, wire, clientStates, requests>>

\* The client unmaps its surface.
Unmap ==
    /\ client = "shown"
    /\ CountFrame
    /\ client' = "idle" /\ clientSize' = None
    /\ Commit(None, None)
    /\ UNCHANGED <<requested, shown, xdg, configureEvents, serial, wire, clientStates, requests>>

------------------------------------------------------------------------------

NewWindow == [pos |-> Center, size |-> None]

Init ==
    /\ surface = "reset" /\ isConfigured = FALSE /\ serial = 0
    /\ configureTimer = FALSE /\ configureEvents = <<>> /\ configurePosition = FALSE
    /\ moveResizeGeometry = NewWindow /\ frameGeometry = NewWindow
    /\ geometryRestore = NewWindow
    /\ nextStates = FALSE /\ acknowledgedStates = FALSE /\ placed = FALSE
    /\ lastAcknowledged = None /\ dragged = None /\ wanted = Center /\ overtaken = FALSE
    /\ wire = <<>> /\ commits = <<>>
    /\ client = "idle" /\ clientSize = None /\ clientStates = FALSE
    /\ requests = 0 /\ clientFrames = 0

Answers == \E n \in DOMAIN wire : \E size \in Sizes \cup {None} : Answer(n, size)

Next ==
    \/ \E pos \in Positions : Move(pos)
    \/ \E pos \in Positions, size \in Sizes : MoveResize([pos |-> pos, size |-> size])
    \/ \E maximized \in BOOLEAN : Maximize(maximized)
    \/ ScheduleConfigure \/ SendConfigure \/ ApplyCommit
    \/ InitialCommit \/ Answers \/ (\E size \in Sizes : Frame(size)) \/ Unmap

Spec == Init /\ [][Next]_vars

\* Timers fire, transactions are applied and the client answers.
FairSpec == Spec /\ WF_vars(SendConfigure) /\ WF_vars(ApplyCommit) /\ WF_vars(Answers)

------------------------------------------------------------------------------
(* Properties *)

\* Every variable that the proofs speak of has its type.
TypeOK ==
    /\ configureTimer \in BOOLEAN /\ configurePosition \in BOOLEAN
    /\ moveResizeGeometry \in Geometry /\ frameGeometry \in Geometry
    /\ geometryRestore \in Geometry
    /\ nextStates \in BOOLEAN /\ acknowledgedStates \in BOOLEAN /\ placed \in BOOLEAN
    /\ serial \in Nat /\ lastAcknowledged \in Nat \cup {None}
    /\ surface \in {"reset", "initialized", "mapped"} /\ isConfigured \in BOOLEAN
    /\ configureEvents \in Seq(ConfigureEvent)
    /\ wire \in Seq([serial : Nat, size : Sizes \cup {None}, states : BOOLEAN])
    /\ commits \in Seq([size : Sizes \cup {None}, ack : Nat \cup {None}])
    /\ dragged \in Positions \cup {None} /\ wanted \in Positions /\ overtaken \in BOOLEAN

\* Once every configure event is acknowledged and none is about to be sent, the window has
\* the requested states, it is where it was last asked to be, and moveResizeGeometry, from
\* which the next request starts, is the geometry of the frame.  Sizes are the client's
\* choice.  A position that moveResizeInternal set while an older event that moves the
\* window was not acknowledged is excepted, if no later event repeats it: the older event
\* undoes it.
Agreement ==
    surface = "mapped" /\ ~configureTimer /\ configureEvents = <<>>
        => /\ moveResizeGeometry = frameGeometry
           /\ acknowledgedStates = nextStates
           /\ overtaken \/ frameGeometry.pos = wanted

\* No configure event is left behind: the client will still dispatch it, or it has
\* acknowledged it or a later one in a commit that will be applied.
EventsAwaited ==
    \A i \in DOMAIN configureEvents :
        LET number == configureEvents[i].serial
        IN \/ \E j \in DOMAIN wire : wire[j].serial = number
           \/ \E j \in DOMAIN commits : commits[j].ack # None /\ commits[j].ack >= number
           \/ lastAcknowledged # None /\ lastAcknowledged >= number

\* A window that was moved stays there, whatever the client acknowledges afterwards,
\* until something asks for another position.
MoveSticks == dragged # None => frameGeometry.pos = dragged

\* The states that were requested are reached, unless the client unmaps the window.
StatesReached == (surface = "mapped" /\ nextStates # acknowledgedStates) ~>
                     (nextStates = acknowledgedStates \/ surface # "mapped")

===============================================================================
