------------------------- MODULE XdgConfigure_proofs -------------------------
(***************************************************************************)
(* Proofs about XdgConfigure, for any positions and sizes and any number   *)
(* of requests and commits.                                                *)
(*                                                                         *)
(* Sticks makes MoveSticks inductive: the position that a move gave is     *)
(* also the one asked for, and that of each event which still moves the    *)
(* window. Agreement needs three facts about the way there: the last event *)
(* carries the states that were requested unless another event is about to *)
(* be sent, a window is not shown before an event is sent to it, and while *)
(* some event on its way moves the window the last one does, to the        *)
(* position that was asked for last (Following). EventsAwaited needs the   *)
(* order in which serials travel, and the shape of the commits that a      *)
(* client may have on their way.                                           *)
(***************************************************************************)
EXTENDS XdgConfigure, SequenceTheorems, TLAPS

Sticks ==
    dragged # None =>
        /\ surface # "reset"
        /\ frameGeometry.pos = dragged /\ moveResizeGeometry.pos = dragged
        /\ \A i \in 1..Len(configureEvents) :
              configureEvents[i].position => configureEvents[i].bounds.pos = dragged

LastStates ==
    ~configureTimer /\ configureEvents # <<>>
        => configureEvents[Len(configureEvents)].states = nextStates

Announced == surface = "initialized" => configureTimer \/ configureEvents # <<>>

Agreed ==
    surface = "mapped" /\ ~configureTimer /\ configureEvents = <<>>
        => moveResizeGeometry = frameGeometry /\ acknowledgedStates = nextStates

XdgInv == TypeOK /\ Sticks /\ LastStates /\ Announced /\ Agreed

------------------------------------------------------------------------------

LEMMA InitHolds == Init => XdgInv
<1> SUFFICES ASSUME Init PROVE XdgInv
  OBVIOUS
<1>1. NewWindow \in Geometry
  BY GeometryAssumption DEF NewWindow, Geometry
<1>2. TypeOK
  <2>1. /\ configureTimer \in BOOLEAN /\ configurePosition \in BOOLEAN
        /\ nextStates \in BOOLEAN /\ acknowledgedStates \in BOOLEAN /\ placed \in BOOLEAN
        /\ isConfigured \in BOOLEAN /\ wanted \in Positions /\ overtaken \in BOOLEAN
    BY GeometryAssumption DEF Init
  <2>2. QED
    BY <1>1, <2>1 DEF Init, TypeOK
<1>3. Sticks /\ LastStates /\ Announced /\ Agreed
  BY DEF Init, Sticks, LastStates, Announced, Agreed
<1>4. QED
  BY <1>2, <1>3 DEF XdgInv

\* Events that no longer move the window differ in that flag only.
LEMMA UnpositionedEvents ==
    ASSUME NEW events \in Seq(ConfigureEvent)
    PROVE  /\ Unpositioned(events) \in Seq(ConfigureEvent)
           /\ Len(Unpositioned(events)) = Len(events)
           /\ \A i \in 1..Len(events) :
                 /\ ~Unpositioned(events)[i].position
                 /\ Unpositioned(events)[i].states = events[i].states
           /\ Unpositioned(events) = <<>> <=> events = <<>>
<1>1. DOMAIN events = 1..Len(events) /\ Len(events) \in Nat
  OBVIOUS
<1>2. \A i \in 1..Len(events) : events[i] \in ConfigureEvent
  OBVIOUS
<1>3. \A i \in 1..Len(events) : [events[i] EXCEPT !.position = FALSE] \in ConfigureEvent
  BY <1>2 DEF ConfigureEvent
<1>4. Unpositioned(events) = [i \in 1..Len(events) |-> [events[i] EXCEPT !.position = FALSE]]
  BY <1>1 DEF Unpositioned
<1>5. Unpositioned(events) \in Seq(ConfigureEvent) /\ Len(Unpositioned(events)) = Len(events)
  BY <1>1, <1>3, <1>4
<1>6. \A i \in 1..Len(events) :
         /\ ~Unpositioned(events)[i].position
         /\ Unpositioned(events)[i].states = events[i].states
  BY <1>2, <1>4 DEF ConfigureEvent
<1>7. Unpositioned(events) = <<>> <=> events = <<>>
  BY <1>5, EmptySeq
<1>8. QED
  BY <1>5, <1>6, <1>7

------------------------------------------------------------------------------
(* Requests *)

LEMMA MoveKeeps ==
    ASSUME XdgInv, NEW pos \in Positions, Move(pos)
    PROVE  XdgInv'
<1> USE DEF XdgInv
<1>1. /\ moveResizeGeometry' = [moveResizeGeometry EXCEPT !.pos = pos]
      /\ configureEvents' = Unpositioned(configureEvents)
      /\ configurePosition' = FALSE
      /\ frameGeometry' = [frameGeometry EXCEPT !.pos = pos]
      /\ dragged' = pos /\ wanted' = pos /\ overtaken' = FALSE /\ surface # "reset"
      /\ UNCHANGED <<configureTimer, geometryRestore, nextStates, placed, acknowledgedStates,
                     lastAcknowledged, surface, isConfigured, serial, wire, commits>>
  BY DEF Move, Request, xdg
<1>2. /\ Unpositioned(configureEvents) \in Seq(ConfigureEvent)
      /\ Len(Unpositioned(configureEvents)) = Len(configureEvents)
      /\ \A i \in 1..Len(configureEvents) :
            /\ ~Unpositioned(configureEvents)[i].position
            /\ Unpositioned(configureEvents)[i].states = configureEvents[i].states
      /\ Unpositioned(configureEvents) = <<>> <=> configureEvents = <<>>
  BY UnpositionedEvents DEF TypeOK
<1>3. moveResizeGeometry' \in Geometry /\ frameGeometry' \in Geometry
  BY <1>1 DEF TypeOK, Geometry
<1>4. TypeOK'
  BY <1>1, <1>2, <1>3 DEF TypeOK
<1>5. Sticks'
  BY <1>1, <1>2 DEF Sticks, TypeOK, Geometry
<1>6. LastStates'
  <2>1. configureEvents # <<>> => Len(configureEvents) \in 1..Len(configureEvents)
    BY EmptySeq DEF TypeOK
  <2>2. QED
    BY <1>1, <1>2, <2>1 DEF LastStates
<1>7. Announced'
  BY <1>1, <1>2 DEF Announced
<1>8. Agreed'
  BY <1>1, <1>2 DEF Agreed
<1>9. QED
  BY <1>4, <1>5, <1>6, <1>7, <1>8

LEMMA MoveResizeKeeps ==
    ASSUME XdgInv, NEW rect \in Geometry, MoveResize(rect)
    PROVE  XdgInv'
<1> USE DEF XdgInv
<1>1. /\ moveResizeGeometry' = rect
      /\ configureTimer' = (configureTimer \/ rect.size # frameGeometry.size)
      /\ dragged' = IF rect.pos = moveResizeGeometry.pos THEN dragged ELSE None
      /\ wanted' = rect.pos /\ overtaken' \in BOOLEAN
      /\ UNCHANGED <<geometryRestore, nextStates, placed, acknowledgedStates, configureEvents,
                     lastAcknowledged, surface, isConfigured, serial, wire, commits>>
      /\ IF rect.size = frameGeometry.size
         THEN frameGeometry' = rect /\ UNCHANGED configurePosition
         ELSE configurePosition' = TRUE /\ UNCHANGED frameGeometry
  BY DEF MoveResize, MoveResizeTo, xdg
<1>2. /\ configureTimer' \in BOOLEAN /\ configurePosition' \in BOOLEAN
      /\ wanted' \in Positions
  BY <1>1 DEF TypeOK, Geometry
<1>3. TypeOK'
  BY <1>1, <1>2 DEF TypeOK
<1>4. Sticks'
  BY <1>1 DEF Sticks
<1>5. configureTimer => configureTimer'
  BY <1>1
<1>6. LastStates'
  BY <1>1, <1>5 DEF LastStates
<1>7. Announced'
  BY <1>1, <1>5 DEF Announced
<1>8. Agreed'
  <2>1. ~configureTimer' => rect.size = frameGeometry.size
    BY <1>1
  <2>2. ~configureTimer' => frameGeometry' = moveResizeGeometry'
    BY <1>1, <2>1
  <2>3. QED
    BY <1>1, <1>5, <2>2 DEF Agreed
<1>9. QED
  BY <1>3, <1>4, <1>6, <1>7, <1>8

LEMMA MaximizeKeeps ==
    ASSUME XdgInv, NEW maximized \in BOOLEAN, Maximize(maximized)
    PROVE  XdgInv'
<1> USE DEF XdgInv
<1>1. /\ configureTimer' = TRUE /\ placed' = TRUE /\ dragged' = None
      /\ nextStates' = maximized
      /\ geometryRestore' = IF maximized THEN moveResizeGeometry ELSE geometryRestore
      /\ MoveResizeTo(IF maximized THEN Area ELSE Restored)
      /\ UNCHANGED <<acknowledgedStates, lastAcknowledged, surface, isConfigured,
                     configureEvents, serial, wire, commits>>
  BY DEF Maximize, xdg
<1>2. Area \in Geometry /\ Restored \in Geometry
  BY GeometryAssumption DEF Area, Restored, Geometry, TypeOK
<1>3. /\ moveResizeGeometry' \in Geometry /\ frameGeometry' \in Geometry
      /\ configurePosition' \in BOOLEAN /\ geometryRestore' \in Geometry
      /\ wanted' \in Positions /\ overtaken' \in BOOLEAN
  BY <1>1, <1>2 DEF MoveResizeTo, TypeOK, Geometry
<1>4. TypeOK'
  BY <1>1, <1>3 DEF TypeOK
<1>5. QED
  BY <1>1, <1>4 DEF Sticks, LastStates, Announced, Agreed

LEMMA ScheduleConfigureKeeps ==
    ASSUME XdgInv, ScheduleConfigure
    PROVE  XdgInv'
<1> USE DEF XdgInv
<1>1. /\ configureTimer' = TRUE
      /\ UNCHANGED <<configurePosition, moveResizeGeometry, geometryRestore, nextStates, placed,
                     dragged, wanted, overtaken, frameGeometry, acknowledgedStates, lastAcknowledged, surface,
                     isConfigured, configureEvents, serial, wire, commits>>
  BY DEF ScheduleConfigure, history, shown, xdg
<1>2. TypeOK'
  BY <1>1 DEF TypeOK
<1>3. QED
  BY <1>1, <1>2 DEF Sticks, LastStates, Announced, Agreed

LEMMA SendConfigureKeeps ==
    ASSUME XdgInv, SendConfigure
    PROVE  XdgInv'
<1> USE DEF XdgInv
<1> DEFINE inherited == configureEvents # <<>> /\ configureEvents[Len(configureEvents)].position
           event == [serial |-> serial + 1, bounds |-> moveResizeGeometry, states |-> nextStates,
                     position |-> inherited \/ configurePosition]
           sent == [serial |-> serial + 1, size |-> moveResizeGeometry.size, states |-> nextStates]
<1>1. /\ configureTimer' = FALSE /\ serial' = serial + 1
      /\ configureEvents' = Append(configureEvents, event)
      /\ wire' = Append(wire, sent)
      /\ configurePosition' = FALSE /\ isConfigured' = TRUE
      /\ UNCHANGED <<moveResizeGeometry, geometryRestore, nextStates, placed, dragged, wanted,
                     frameGeometry, acknowledgedStates, lastAcknowledged, surface, commits>>
      /\ overtaken' = (overtaken /\ ~inherited)
  BY DEF SendConfigure, shown
<1>2. /\ event \in ConfigureEvent
      /\ sent \in [serial : Nat, size : Sizes \cup {None}, states : BOOLEAN]
  BY DEF TypeOK, ConfigureEvent, Geometry
<1>3. /\ configureEvents' \in Seq(ConfigureEvent) /\ configureEvents' # <<>>
      /\ Len(configureEvents') = Len(configureEvents) + 1
      /\ configureEvents'[Len(configureEvents')] = event
      /\ \A i \in 1..Len(configureEvents) : configureEvents'[i] = configureEvents[i]
      /\ wire' \in Seq([serial : Nat, size : Sizes \cup {None}, states : BOOLEAN])
  <2> HIDE DEF event, sent
  <2>1. QED
    BY <1>1, <1>2, AppendProperties DEF TypeOK
<1>4. TypeOK'
  <2>1. /\ configureTimer' \in BOOLEAN /\ configurePosition' \in BOOLEAN
        /\ isConfigured' \in BOOLEAN /\ overtaken' \in BOOLEAN
    BY <1>1 DEF TypeOK
  <2>2. serial' \in Nat
    BY <1>1 DEF TypeOK
  <2>3. UNCHANGED <<moveResizeGeometry, geometryRestore, nextStates, placed, dragged, wanted,
                    frameGeometry, acknowledgedStates, lastAcknowledged, surface, commits>>
    BY <1>1
  <2>4. QED
    BY <1>3, <2>1, <2>2, <2>3 DEF TypeOK
<1>5. Sticks'
  <2>1. SUFFICES ASSUME dragged # None, NEW i \in 1..Len(configureEvents'),
                        configureEvents'[i].position
                 PROVE  configureEvents'[i].bounds.pos = dragged
    BY <1>1 DEF Sticks
  <2>2. CASE i \in 1..Len(configureEvents)
    BY <2>1, <2>2, <1>3 DEF Sticks
  <2>3. CASE i = Len(configureEvents')
    BY <2>1, <2>3, <1>3 DEF Sticks
  <2>4. QED
    BY <2>2, <2>3, <1>3, LenProperties DEF TypeOK
<1>6. LastStates'
  BY <1>1, <1>3 DEF LastStates
<1>7. Announced' /\ Agreed'
  BY <1>3 DEF Announced, Agreed
<1>8. QED
  BY <1>4, <1>5, <1>6, <1>7

------------------------------------------------------------------------------
(* Commits *)

\* Some of the first events are taken.
LEMMA EventsLeft ==
    ASSUME NEW events \in Seq(ConfigureEvent), NEW n \in 0..Len(events)
    PROVE  /\ SubSeq(events, n + 1, Len(events)) \in Seq(ConfigureEvent)
           /\ Len(SubSeq(events, n + 1, Len(events))) = Len(events) - n
           /\ \A i \in 1..Len(events) - n :
                 SubSeq(events, n + 1, Len(events))[i] = events[n + i]
           /\ SubSeq(events, n + 1, Len(events)) = <<>> <=> n = Len(events)
           /\ n > 0 => events[n] \in ConfigureEvent
<1> DEFINE left == SubSeq(events, n + 1, Len(events))
<1>1. Len(events) \in Nat /\ n \in Nat /\ n <= Len(events)
  BY LenProperties
<1>2. \A i \in (n + 1)..Len(events) : events[i] \in ConfigureEvent
  BY <1>1
<1>3. left \in Seq(ConfigureEvent) /\ Len(left) = Len(events) - n
  BY <1>1, <1>2, SubSeqProperties
<1>4. \A i \in 1..Len(events) - n : left[i] = events[n + i]
  BY <1>1, SubSeqProperties
<1>5. left = <<>> <=> n = Len(events)
  <2> HIDE DEF left
  <2>1. QED
    BY <1>1, <1>3, EmptySeq
<1>6. n > 0 => events[n] \in ConfigureEvent
  BY <1>1
<1>7. QED
  BY <1>3, <1>4, <1>5, <1>6

\* What handleCommit leaves, whether the window is then moved or not.
LEMMA HandleCommitKeeps ==
    ASSUME XdgInv,
           NEW n \in 0..Len(configureEvents), NEW size \in Sizes,
           NEW changed \in BOOLEAN, NEW place \in Positions \cup {None},
           HandleCommit(n, size, changed, place), surface' = "mapped",
           configureEvents = <<>> => surface = "mapped" \/ configureTimer
    PROVE  /\ configureEvents' \in Seq(ConfigureEvent)
           /\ frameGeometry' \in Geometry /\ moveResizeGeometry' \in Geometry
           /\ configurePosition' \in BOOLEAN /\ acknowledgedStates' \in BOOLEAN
           /\ dragged' \in Positions \cup {None} /\ lastAcknowledged' = None
           /\ wanted' \in Positions /\ overtaken' \in BOOLEAN
           /\ Sticks'
           /\ configureEvents' # <<>> => /\ configureEvents # <<>>
                                         /\ configureEvents'[Len(configureEvents')].states
                                              = configureEvents[Len(configureEvents)].states
           /\ configureEvents' = <<>> /\ ~configureTimer =>
                 /\ moveResizeGeometry' = frameGeometry'
                 /\ acknowledgedStates' = nextStates
<1> USE DEF XdgInv
<1> DEFINE left == SubSeq(configureEvents, n + 1, Len(configureEvents))
           have == n > 0 \/ size # frameGeometry.size \/ changed
           sync == /\ have /\ ~configureTimer
                   /\ \A i \in DOMAIN left : ~left[i].position
           frame == IF have THEN NextGeometry(n, size) ELSE frameGeometry
           asked == IF sync THEN frame ELSE moveResizeGeometry
           moved == place # None
<1>1. /\ configureEvents' = IF moved THEN Unpositioned(left) ELSE left
      /\ frameGeometry' = IF moved THEN [frame EXCEPT !.pos = place] ELSE frame
      /\ moveResizeGeometry' = IF moved THEN [asked EXCEPT !.pos = place] ELSE asked
      /\ configurePosition' = (configurePosition /\ ~moved)
      /\ dragged' = IF moved THEN place ELSE dragged
      /\ wanted' = IF moved THEN place ELSE wanted
      /\ overtaken' = (overtaken /\ ~moved)
      /\ acknowledgedStates' = IF n > 0 THEN configureEvents[n].states ELSE acknowledgedStates
      /\ lastAcknowledged' = None
  BY DEF HandleCommit
<1>2. /\ left \in Seq(ConfigureEvent) /\ Len(left) = Len(configureEvents) - n
      /\ \A i \in 1..Len(configureEvents) - n : left[i] = configureEvents[n + i]
      /\ left = <<>> <=> n = Len(configureEvents)
      /\ n > 0 => configureEvents[n] \in ConfigureEvent
      /\ Len(configureEvents) \in Nat
  BY EventsLeft, LenProperties DEF TypeOK
<1>3. /\ Unpositioned(left) \in Seq(ConfigureEvent) /\ Len(Unpositioned(left)) = Len(left)
      /\ \A i \in 1..Len(left) : /\ ~Unpositioned(left)[i].position
                                 /\ Unpositioned(left)[i].states = left[i].states
      /\ Unpositioned(left) = <<>> <=> left = <<>>
  BY <1>2, UnpositionedEvents
<1>4. NextGeometry(n, size) \in Geometry
  BY <1>2 DEF NextGeometry, Geometry, ConfigureEvent, TypeOK
<1>5. frame \in Geometry /\ asked \in Geometry
  BY <1>4 DEF TypeOK
<1>6. moved => place \in Positions
  OBVIOUS
<1>7. configureEvents' \in Seq(ConfigureEvent)
  <2> HIDE DEF left
  <2>1. QED
    BY <1>1, <1>2, <1>3
<1>8. frameGeometry' \in Geometry /\ moveResizeGeometry' \in Geometry
  <2> HIDE DEF frame, asked, moved
  <2>1. QED
    BY <1>1, <1>5, <1>6 DEF Geometry
<1>9. configurePosition' \in BOOLEAN
  BY <1>1 DEF TypeOK
<1>10. acknowledgedStates' \in BOOLEAN
  BY <1>1, <1>2 DEF TypeOK, ConfigureEvent
<1>11. /\ dragged' \in Positions \cup {None} /\ wanted' \in Positions
       /\ overtaken' \in BOOLEAN
  BY <1>1 DEF TypeOK
<1>12. Sticks'
  <2>1. CASE moved
    <3>1. frameGeometry'.pos = place /\ moveResizeGeometry'.pos = place
      <4> HIDE DEF frame, asked
      <4>1. QED
        BY <1>1, <1>5, <2>1 DEF Geometry
    <3>2. \A i \in 1..Len(configureEvents') : ~configureEvents'[i].position
      <4> HIDE DEF left
      <4>1. QED
        BY <1>1, <1>3, <2>1
    <3>3. QED
      BY <1>1, <2>1, <3>1, <3>2 DEF Sticks
  <2>2. CASE ~moved
    <3>1. SUFFICES ASSUME dragged # None
                   PROVE  /\ frame.pos = dragged /\ asked.pos = dragged
                          /\ \A i \in 1..Len(left) :
                                left[i].position => left[i].bounds.pos = dragged
      <4> HIDE DEF left, frame, asked
      <4>1. QED
        BY <1>1, <2>2 DEF Sticks
    <3>2. frame.pos = dragged
      BY <3>1, <1>2 DEF Sticks, NextGeometry
    <3>3. asked.pos = dragged
      <4> HIDE DEF frame, sync
      <4>1. QED
        BY <3>1, <3>2 DEF Sticks
    <3>4. \A i \in 1..Len(left) : left[i] = configureEvents[n + i]
                                    /\ n + i \in 1..Len(configureEvents)
      BY <1>2
    <3>5. QED
      BY <3>1, <3>2, <3>3, <3>4 DEF Sticks
  <2>3. QED
    BY <2>1, <2>2
<1>13. ASSUME configureEvents' # <<>>
       PROVE  /\ configureEvents # <<>>
              /\ configureEvents'[Len(configureEvents')].states
                   = configureEvents[Len(configureEvents)].states
  <2>1. left # <<>>
    <3> HIDE DEF left
    <3>1. QED
      BY <1>1, <1>3, <1>13
  <2>2. n < Len(configureEvents) /\ Len(left) \in 1..Len(left)
    BY <1>2, <2>1
  <2>3. left[Len(left)] = configureEvents[Len(configureEvents)]
    <3>1. left[Len(left)] = configureEvents[n + Len(left)]
      <4> HIDE DEF left
      <4>1. QED
        BY <1>2, <2>2
    <3>2. n + Len(left) = Len(configureEvents)
      <4> HIDE DEF left
      <4>1. QED
        BY <1>2
    <3>3. QED
      BY <3>1, <3>2
  <2>4. configureEvents'[Len(configureEvents')].states = left[Len(left)].states
    <3> HIDE DEF left
    <3>1. QED
      BY <1>1, <1>3, <2>2
  <2>5. configureEvents # <<>>
    BY <1>2, <2>2
  <2>6. QED
    BY <2>3, <2>4, <2>5
<1>14. ASSUME configureEvents' = <<>>, ~configureTimer
       PROVE  moveResizeGeometry' = frameGeometry' /\ acknowledgedStates' = nextStates
  <2>1. left = <<>> /\ n = Len(configureEvents)
    <3> HIDE DEF left
    <3>1. QED
      BY <1>1, <1>2, <1>3, <1>14
  <2>2. CASE n > 0
    <3>1. configureEvents # <<>> /\ acknowledgedStates' = configureEvents[Len(configureEvents)].states
      BY <1>1, <2>1, <2>2
    <3>2. acknowledgedStates' = nextStates
      BY <3>1, <1>14 DEF LastStates
    <3>3. sync
      BY <2>1, <2>2, <1>14
    <3>4. asked = frame
      BY <3>3
    <3>5. QED
      <4> HIDE DEF frame, asked
      <4>1. QED
        BY <1>1, <3>2, <3>4
  <2>3. CASE n = 0
    <3>1. configureEvents = <<>>
      BY <2>1, <2>3, EmptySeq DEF TypeOK
    <3>2. surface = "mapped"
      BY <3>1, <1>14
    <3>3. moveResizeGeometry = frameGeometry /\ acknowledgedStates = nextStates
      BY <3>1, <3>2, <1>14 DEF Agreed
    <3>4. acknowledgedStates' = nextStates
      BY <1>1, <2>3, <3>3
    <3>5. asked = frame
      BY <2>1, <2>3, <1>14, <3>3
    <3>6. QED
      <4> HIDE DEF frame, asked
      <4>1. QED
        BY <1>1, <3>4, <3>5
  <2>4. QED
    BY <2>2, <2>3
<1>15. QED
  BY <1>1, <1>7, <1>8, <1>9, <1>10, <1>11, <1>12, <1>13, <1>14

\* The commit that is applied, and the ones after it.
LEMMA HeadCommit ==
    ASSUME TypeOK, commits # <<>>
    PROVE  /\ Head(commits) \in [size : Sizes \cup {None}, ack : Nat \cup {None}]
           /\ Tail(commits) \in Seq([size : Sizes \cup {None}, ack : Nat \cup {None}])
BY HeadTailProperties DEF TypeOK

LEMMA CommitShownKeeps ==
    ASSUME XdgInv, commits # <<>>, commits' = Tail(commits), CommitShown(Head(commits)),
           UNCHANGED <<serial, wire>>
    PROVE  XdgInv'
<1> USE DEF XdgInv
<1>1. /\ surface = "mapped" /\ Head(commits).size \in Sizes
      /\ UNCHANGED <<configureTimer, geometryRestore, nextStates, placed, surface, isConfigured>>
  BY HeadCommit DEF CommitShown, xdg
<1>2. PICK n \in 0..Len(configureEvents), changed \in BOOLEAN :
         HandleCommit(n, Head(commits).size, changed, None)
  BY DEF CommitShown
<1>3. /\ configureEvents' \in Seq(ConfigureEvent)
      /\ frameGeometry' \in Geometry /\ moveResizeGeometry' \in Geometry
      /\ configurePosition' \in BOOLEAN /\ acknowledgedStates' \in BOOLEAN
      /\ dragged' \in Positions \cup {None} /\ lastAcknowledged' = None
      /\ wanted' \in Positions /\ overtaken' \in BOOLEAN
      /\ Sticks'
      /\ configureEvents' # <<>> => /\ configureEvents # <<>>
                                    /\ configureEvents'[Len(configureEvents')].states
                                         = configureEvents[Len(configureEvents)].states
      /\ configureEvents' = <<>> /\ ~configureTimer =>
            moveResizeGeometry' = frameGeometry' /\ acknowledgedStates' = nextStates
  BY <1>1, <1>2, HandleCommitKeeps
<1>4. commits' \in Seq([size : Sizes \cup {None}, ack : Nat \cup {None}])
  BY HeadCommit
<1>5. TypeOK'
  BY <1>1, <1>3, <1>4 DEF TypeOK
<1>6. LastStates' /\ Announced' /\ Agreed'
  BY <1>1, <1>3 DEF LastStates, Announced, Agreed
<1>7. QED
  BY <1>3, <1>5, <1>6

LEMMA CommitMapsKeeps ==
    ASSUME XdgInv, commits # <<>>, commits' = Tail(commits), CommitMaps(Head(commits)),
           UNCHANGED <<serial, wire>>
    PROVE  XdgInv'
<1> USE DEF XdgInv
<1>1. /\ surface = "initialized" /\ Head(commits).size \in Sizes
      /\ surface' = "mapped" /\ placed' = TRUE
      /\ UNCHANGED <<geometryRestore, nextStates, isConfigured>>
  BY HeadCommit DEF CommitMaps
<1>2. PICK activated \in BOOLEAN : configureTimer' = (configureTimer \/ activated)
  BY DEF CommitMaps
<1>3. configureTimer' \in BOOLEAN /\ (configureTimer => configureTimer')
  BY <1>2 DEF TypeOK
<1>4. PICK n \in 0..Len(configureEvents), changed \in BOOLEAN, place \in Positions \cup {None} :
         HandleCommit(n, Head(commits).size, changed, place)
  BY DEF CommitMaps
<1>5. configureEvents = <<>> => surface = "mapped" \/ configureTimer
  BY <1>1 DEF Announced
<1>6. /\ configureEvents' \in Seq(ConfigureEvent)
      /\ frameGeometry' \in Geometry /\ moveResizeGeometry' \in Geometry
      /\ configurePosition' \in BOOLEAN /\ acknowledgedStates' \in BOOLEAN
      /\ dragged' \in Positions \cup {None} /\ lastAcknowledged' = None
      /\ wanted' \in Positions /\ overtaken' \in BOOLEAN
      /\ Sticks'
      /\ configureEvents' # <<>> => /\ configureEvents # <<>>
                                    /\ configureEvents'[Len(configureEvents')].states
                                         = configureEvents[Len(configureEvents)].states
      /\ configureEvents' = <<>> /\ ~configureTimer =>
            moveResizeGeometry' = frameGeometry' /\ acknowledgedStates' = nextStates
  BY <1>1, <1>4, <1>5, HandleCommitKeeps
<1>7. commits' \in Seq([size : Sizes \cup {None}, ack : Nat \cup {None}])
  BY HeadCommit
<1>8. placed' \in BOOLEAN
  BY <1>1
<1>9. TypeOK'
  BY <1>1, <1>3, <1>6, <1>7, <1>8 DEF TypeOK
<1>10. LastStates'
  BY <1>1, <1>3, <1>6 DEF LastStates
<1>11. Announced' /\ Agreed'
  BY <1>1, <1>3, <1>6 DEF Announced, Agreed
<1>12. QED
  BY <1>6, <1>9, <1>10, <1>11

LEMMA CommitEmptyKeeps ==
    ASSUME XdgInv, commits # <<>>, commits' = Tail(commits), CommitEmpty(Head(commits)),
           UNCHANGED <<serial, wire>>
    PROVE  XdgInv'
<1> USE DEF XdgInv
<1>1. UNCHANGED <<configureTimer, configurePosition, moveResizeGeometry, geometryRestore,
                  nextStates, placed, dragged, wanted, overtaken, frameGeometry,
                  acknowledgedStates, surface, isConfigured, configureEvents>>
  BY DEF CommitEmpty, requested, history, xdg
<1>2. lastAcknowledged' \in Nat \cup {None}
  BY HeadCommit DEF CommitEmpty, Acknowledged, TypeOK
<1>3. commits' \in Seq([size : Sizes \cup {None}, ack : Nat \cup {None}])
  BY HeadCommit
<1>4. TypeOK'
  BY <1>1, <1>2, <1>3 DEF TypeOK
<1>5. QED
  BY <1>1, <1>4 DEF Sticks, LastStates, Announced, Agreed

LEMMA ResetKeeps ==
    ASSUME XdgInv, commits # <<>>, commits' = Tail(commits), Reset, UNCHANGED <<serial, wire>>
    PROVE  XdgInv'
<1> USE DEF XdgInv
<1>1. commits' \in Seq([size : Sizes \cup {None}, ack : Nat \cup {None}])
  BY HeadCommit
<1>2. [pos |-> Center, size |-> None] \in Geometry
  BY GeometryAssumption DEF Geometry
<1>3. /\ configureTimer' \in BOOLEAN /\ configurePosition' \in BOOLEAN
      /\ nextStates' \in BOOLEAN /\ acknowledgedStates' \in BOOLEAN
      /\ placed' \in BOOLEAN /\ isConfigured' \in BOOLEAN
      /\ wanted' \in Positions /\ overtaken' \in BOOLEAN
  BY GeometryAssumption DEF Reset
<1>4. /\ surface' = "reset" /\ configureEvents' = <<>> /\ dragged' = None
      /\ lastAcknowledged' = None
      /\ moveResizeGeometry' \in Geometry /\ frameGeometry' \in Geometry
      /\ geometryRestore' \in Geometry
  BY <1>2 DEF Reset
<1>5. TypeOK'
  BY <1>1, <1>3, <1>4 DEF TypeOK
<1>6. QED
  BY <1>4, <1>5 DEF Sticks, LastStates, Announced, Agreed

LEMMA InitializeKeeps ==
    ASSUME XdgInv, commits # <<>>, commits' = Tail(commits), surface = "reset",
           NEW maximized \in BOOLEAN, Initialize(maximized),
           UNCHANGED <<serial, wire>>
    PROVE  XdgInv'
<1> USE DEF XdgInv
<1>1. /\ surface' = "initialized" /\ configureTimer' = TRUE
      /\ nextStates' = maximized /\ placed' = maximized
      /\ UNCHANGED <<configureEvents, isConfigured, acknowledgedStates, lastAcknowledged, dragged>>
  BY DEF Initialize
<1>2. Area \in Geometry
  BY GeometryAssumption DEF Area, Geometry
<1>3. /\ moveResizeGeometry' \in Geometry /\ frameGeometry' \in Geometry
      /\ configurePosition' \in BOOLEAN /\ geometryRestore' \in Geometry
      /\ wanted' \in Positions /\ overtaken' \in BOOLEAN
  BY <1>2 DEF Initialize, MoveResizeTo, TypeOK, Geometry
<1>4. commits' \in Seq([size : Sizes \cup {None}, ack : Nat \cup {None}])
  BY HeadCommit
<1>5. TypeOK'
  BY <1>1, <1>3, <1>4 DEF TypeOK
<1>6. QED
  BY <1>1, <1>5 DEF Sticks, LastStates, Announced, Agreed

LEMMA ApplyCommitKeeps == XdgInv /\ ApplyCommit => XdgInv'
<1> SUFFICES ASSUME XdgInv, ApplyCommit PROVE XdgInv'
  OBVIOUS
<1>1. commits # <<>> /\ commits' = Tail(commits) /\ UNCHANGED <<serial, wire>>
  BY DEF ApplyCommit
<1>2. CASE CommitShown(Head(commits))
  BY <1>1, <1>2, CommitShownKeeps
<1>3. CASE CommitMaps(Head(commits))
  BY <1>1, <1>3, CommitMapsKeeps
<1>4. CASE CommitEmpty(Head(commits))
  BY <1>1, <1>4, CommitEmptyKeeps
<1>5. CASE Reset
  BY <1>1, <1>5, ResetKeeps
<1>6. CASE surface = "reset" /\ \E maximized \in BOOLEAN : Initialize(maximized)
  BY <1>1, <1>6, InitializeKeeps
<1>7. QED
  BY <1>2, <1>3, <1>4, <1>5, <1>6 DEF ApplyCommit

------------------------------------------------------------------------------
(* The client changes only what is on its way *)

LEMMA ClientKeeps ==
    ASSUME XdgInv, UNCHANGED <<requested, shown, xdg, configureEvents, serial>>,
           wire' \in Seq([serial : Nat, size : Sizes \cup {None}, states : BOOLEAN]),
           commits' \in Seq([size : Sizes \cup {None}, ack : Nat \cup {None}])
    PROVE  XdgInv'
<1> USE DEF XdgInv
<1>1. UNCHANGED <<configureTimer, configurePosition, moveResizeGeometry, geometryRestore,
                  nextStates, placed, dragged, wanted, overtaken, frameGeometry,
                  acknowledgedStates, lastAcknowledged, surface, isConfigured,
                  configureEvents, serial>>
  BY DEF requested, history, shown, xdg
<1>2. TypeOK'
  BY <1>1 DEF TypeOK
<1>3. QED
  BY <1>1, <1>2 DEF Sticks, LastStates, Announced, Agreed

LEMMA CommitTyped ==
    ASSUME TypeOK, NEW size \in Sizes \cup {None}, NEW ack \in Nat \cup {None},
           Commit(size, ack)
    PROVE  commits' \in Seq([size : Sizes \cup {None}, ack : Nat \cup {None}])
<1>1. [size |-> size, ack |-> ack] \in [size : Sizes \cup {None}, ack : Nat \cup {None}]
  OBVIOUS
<1>2. QED
  BY <1>1, AppendProperties DEF Commit, TypeOK

LEMMA AnswerKeeps ==
    ASSUME XdgInv, NEW n \in DOMAIN wire, NEW size \in Sizes \cup {None}, Answer(n, size)
    PROVE  XdgInv'
<1> DEFINE Sent == [serial : Nat, size : Sizes \cup {None}, states : BOOLEAN]
<1>1. wire \in Seq(Sent) /\ TypeOK
  BY DEF XdgInv, TypeOK
<1>2. n \in 1..Len(wire) /\ Len(wire) \in Nat
  BY <1>1, LenProperties
<1>3. \A i \in 1..Len(wire) : wire[i] \in Sent
  <2> HIDE DEF Sent
  <2>1. QED
    BY <1>1, ElementOfSeq
<1>4. wire[n].serial \in Nat \cup {None}
  BY <1>2, <1>3
<1>5. commits' \in Seq([size : Sizes \cup {None}, ack : Nat \cup {None}])
  BY <1>1, <1>4, CommitTyped DEF Answer
<1>6. SubSeq(wire, n + 1, Len(wire)) \in Seq(Sent)
  <2> HIDE DEF Sent
  <2>1. \A i \in (n + 1)..Len(wire) : wire[i] \in Sent
    BY <1>2, <1>3
  <2>2. QED
    BY <1>1, <1>2, <2>1, SubSeqProperties
<1>7. QED
  BY <1>5, <1>6, ClientKeeps DEF Answer

------------------------------------------------------------------------------

\* Every step keeps the invariant.
LEMMA StepKeeps == XdgInv /\ [Next]_vars => XdgInv'
<1> SUFFICES ASSUME XdgInv, [Next]_vars PROVE XdgInv'
  OBVIOUS
<1>1. TypeOK /\ None \in Sizes \cup {None} /\ None \in Nat \cup {None}
  BY DEF XdgInv
<1>2. /\ wire \in Seq([serial : Nat, size : Sizes \cup {None}, states : BOOLEAN])
      /\ <<>> \in Seq([serial : Nat, size : Sizes \cup {None}, states : BOOLEAN])
  BY <1>1 DEF TypeOK
<1>3. ASSUME NEW pos \in Positions, Move(pos) PROVE XdgInv'
  BY <1>3, MoveKeeps
<1>4. ASSUME NEW pos \in Positions, NEW size \in Sizes, MoveResize([pos |-> pos, size |-> size])
      PROVE  XdgInv'
  <2>1. [pos |-> pos, size |-> size] \in Geometry
    BY DEF Geometry
  <2>2. QED
    BY <1>4, <2>1, MoveResizeKeeps
<1>5. ASSUME NEW maximized \in BOOLEAN, Maximize(maximized) PROVE XdgInv'
  BY <1>5, MaximizeKeeps
<1>6. CASE ScheduleConfigure
  BY <1>6, ScheduleConfigureKeeps
<1>7. CASE SendConfigure
  BY <1>7, SendConfigureKeeps
<1>8. CASE ApplyCommit
  BY <1>8, ApplyCommitKeeps
<1>9. CASE InitialCommit
  <2>1. commits' \in Seq([size : Sizes \cup {None}, ack : Nat \cup {None}])
    BY <1>1, <1>9, CommitTyped DEF InitialCommit
  <2>2. QED
    BY <1>2, <1>9, <2>1, ClientKeeps DEF InitialCommit
<1>10. CASE Answers
  BY <1>10, AnswerKeeps DEF Answers
<1>11. ASSUME NEW size \in Sizes, Frame(size) PROVE XdgInv'
  <2>1. commits' \in Seq([size : Sizes \cup {None}, ack : Nat \cup {None}])
    BY <1>1, <1>11, CommitTyped DEF Frame
  <2>2. QED
    BY <1>2, <1>11, <2>1, ClientKeeps DEF Frame
<1>12. CASE Unmap
  <2>1. commits' \in Seq([size : Sizes \cup {None}, ack : Nat \cup {None}])
    BY <1>1, <1>12, CommitTyped DEF Unmap
  <2>2. QED
    BY <1>2, <1>12, <2>1, ClientKeeps DEF Unmap
<1>13. CASE UNCHANGED vars
  <2>1. UNCHANGED <<requested, shown, xdg, configureEvents, serial, wire, commits>>
    BY <1>13 DEF vars
  <2>2. commits' \in Seq([size : Sizes \cup {None}, ack : Nat \cup {None}])
    BY <1>1, <2>1 DEF TypeOK
  <2>3. QED
    BY <1>2, <2>1, <2>2, ClientKeeps
<1>14. QED
  BY <1>3, <1>4, <1>5, <1>6, <1>7, <1>8, <1>9, <1>10, <1>11, <1>12, <1>13 DEF Next

LEMMA InvariantHolds == Spec => []XdgInv
<1>1. QED
  BY InitHolds, StepKeeps, PTL DEF Spec

\* A window that the user has moved stays where it was put, whatever configure events the
\* client acknowledges afterwards, until something asks for another position
\* (moveResizeInternal, handleNextWindowGeometry).
THEOREM MoveSticksHolds == Spec => []MoveSticks
<1>1. XdgInv => MoveSticks
  BY DEF XdgInv, Sticks, MoveSticks
<1>2. QED
  BY InvariantHolds, <1>1, PTL

------------------------------------------------------------------------------
(* The position that was asked for last: while an event on its way moves   *)
(* the window, the last event does, and carries that position.             *)

Moves(events) == \E i \in 1..Len(events) : events[i].position
MovesLast(events) == Len(events) > 0 /\ events[Len(events)].position

Follows(events, pending, lost, pos, asked, frame) ==
    /\ Moves(events) => MovesLast(events)
    /\ pending => ~lost
    /\ ~lost \/ Moves(events) => asked = pos
    /\ MovesLast(events) /\ ~pending /\ ~lost => events[Len(events)].bounds.pos = pos
    /\ ~lost /\ ~Moves(events) /\ ~pending => frame = pos

Following ==
    /\ configurePosition => configureTimer
    /\ Follows(configureEvents, configurePosition, overtaken, wanted,
               moveResizeGeometry.pos, frameGeometry.pos)

LEMMA InitFollows == Init => Following
<1> SUFFICES ASSUME Init PROVE Following
  OBVIOUS
<1>1. /\ configureEvents = <<>> /\ ~configurePosition /\ ~overtaken /\ wanted = Center
      /\ moveResizeGeometry.pos = Center /\ frameGeometry.pos = Center
  BY DEF Init, NewWindow
<1>2. ~Moves(<<>>) /\ ~MovesLast(<<>>)
  BY DEF Moves, MovesLast
<1>3. QED
  BY <1>1, <1>2 DEF Following, Follows

\* Events without the flag move nothing.
LEMMA UnpositionedMovesNot ==
    ASSUME NEW events \in Seq(ConfigureEvent)
    PROVE  ~Moves(Unpositioned(events)) /\ ~MovesLast(Unpositioned(events))
<1>1. /\ Len(Unpositioned(events)) = Len(events) /\ Len(events) \in Nat
      /\ \A i \in 1..Len(events) : ~Unpositioned(events)[i].position
  BY UnpositionedEvents
<1>2. QED
  BY <1>1 DEF Moves, MovesLast

LEMMA MovesLastMoves ==
    ASSUME NEW events \in Seq(ConfigureEvent), MovesLast(events)
    PROVE  Moves(events)
<1>1. Len(events) \in 1..Len(events)
  BY DEF MovesLast
<1>2. QED
  BY <1>1 DEF Moves, MovesLast

LEMMA MoveFollows ==
    ASSUME TypeOK, Following, NEW pos \in Positions, Move(pos)
    PROVE  Following'
<1>1. /\ ~configurePosition' /\ ~overtaken' /\ wanted' = pos
      /\ configureEvents' = Unpositioned(configureEvents)
      /\ moveResizeGeometry'.pos = pos /\ frameGeometry'.pos = pos
  BY DEF Move, TypeOK, Geometry
<1>2. ~Moves(configureEvents') /\ ~MovesLast(configureEvents')
  BY <1>1, UnpositionedMovesNot DEF TypeOK
<1>3. QED
  BY <1>1, <1>2 DEF Following, Follows

\* A request that may move the window at once.
LEMMA MoveResizeToFollows ==
    ASSUME TypeOK, Following, NEW rect \in Geometry, MoveResizeTo(rect), UNCHANGED configureEvents,
           configureTimer' = TRUE \/ configureTimer' = (configureTimer \/ rect.size # frameGeometry.size)
    PROVE  Following'
<1>1. /\ moveResizeGeometry'.pos = rect.pos /\ wanted' = rect.pos
      /\ configureEvents \in Seq(ConfigureEvent) /\ DOMAIN configureEvents = 1..Len(configureEvents)
  BY DEF MoveResizeTo, TypeOK
<1>2. overtaken' <=> /\ rect.size = frameGeometry.size /\ ~configurePosition
                     /\ Moves(configureEvents)
  BY <1>1 DEF MoveResizeTo, Moves
<1>3. configurePosition \in BOOLEAN /\ configureTimer \in BOOLEAN
  BY DEF TypeOK
<1>4. MovesLast(configureEvents) => Moves(configureEvents)
  BY <1>1, MovesLastMoves
<1>5. CASE rect.size = frameGeometry.size
  <2>1. frameGeometry'.pos = rect.pos /\ configurePosition' = configurePosition
    BY <1>5 DEF MoveResizeTo
  <2>2. configureTimer => configureTimer'
    OBVIOUS
  <2>3. QED
    BY <1>1, <1>2, <1>4, <1>5, <2>1, <2>2 DEF Following, Follows
<1>6. CASE rect.size # frameGeometry.size
  <2>1. configurePosition' = TRUE /\ ~overtaken'
    BY <1>2, <1>6 DEF MoveResizeTo
  <2>2. configureTimer'
    BY <1>6
  <2>3. QED
    BY <1>1, <2>1, <2>2 DEF Following, Follows
<1>7. QED
  BY <1>5, <1>6

LEMMA SendConfigureFollows ==
    ASSUME TypeOK, Following, SendConfigure
    PROVE  Following'
<1> DEFINE inherited == configureEvents # <<>> /\ configureEvents[Len(configureEvents)].position
           event == [serial |-> serial + 1, bounds |-> moveResizeGeometry, states |-> nextStates,
                     position |-> inherited \/ configurePosition]
<1>1. /\ configureEvents' = Append(configureEvents, event)
      /\ ~configurePosition' /\ overtaken' = (overtaken /\ ~inherited)
      /\ UNCHANGED <<wanted, moveResizeGeometry, frameGeometry>>
  BY DEF SendConfigure, shown
<1>2. event.position <=> inherited \/ configurePosition
  OBVIOUS
<1>3. event.bounds.pos = moveResizeGeometry.pos
  OBVIOUS
<1>4. inherited <=> MovesLast(configureEvents)
  <2>1. configureEvents # <<>> <=> Len(configureEvents) > 0
    BY EmptySeq DEF TypeOK
  <2>2. QED
    BY <2>1 DEF MovesLast
<1>5. /\ Len(configureEvents') = Len(configureEvents) + 1
      /\ configureEvents'[Len(configureEvents')] = event
      /\ \A i \in 1..Len(configureEvents) : configureEvents'[i] = configureEvents[i]
      /\ Len(configureEvents) \in Nat
  <2>1. event \in ConfigureEvent
    BY DEF TypeOK, ConfigureEvent, Geometry
  <2> HIDE DEF event
  <2>2. QED
    BY <1>1, <2>1, AppendProperties DEF TypeOK
<1> HIDE DEF event, inherited
<1>6. MovesLast(configureEvents') <=> inherited \/ configurePosition
  BY <1>2, <1>5 DEF MovesLast
<1>7. Moves(configureEvents') <=> Moves(configureEvents) \/ inherited \/ configurePosition
  <2>1. Len(configureEvents') \in 1..Len(configureEvents')
    BY <1>5
  <2>2. \A i \in 1..Len(configureEvents') :
           i \in 1..Len(configureEvents) \/ i = Len(configureEvents')
    BY <1>5
  <2>3. \A i \in 1..Len(configureEvents) : i \in 1..Len(configureEvents')
    BY <1>5
  <2>4. Moves(configureEvents) => Moves(configureEvents')
    BY <1>5, <2>3 DEF Moves
  <2>5. inherited \/ configurePosition => Moves(configureEvents')
    BY <1>2, <1>5, <2>1 DEF Moves
  <2>6. Moves(configureEvents') => Moves(configureEvents) \/ inherited \/ configurePosition
    BY <1>2, <1>5, <2>2 DEF Moves
  <2>7. QED
    BY <2>4, <2>5, <2>6
<1>8. inherited => Moves(configureEvents)
  BY <1>4, MovesLastMoves DEF TypeOK
<1>9. QED
  BY <1>1, <1>3, <1>4, <1>5, <1>6, <1>7, <1>8 DEF Following, Follows

\* What is left of the events, and where the window is, after n of them were taken.
LEMMA HandleCommitFollows ==
    ASSUME TypeOK, Following,
           NEW n \in 0..Len(configureEvents), NEW size \in Sizes,
           NEW changed \in BOOLEAN, NEW place \in Positions \cup {None},
           HandleCommit(n, size, changed, place), configureTimer => configureTimer'
    PROVE  Following'
<1> DEFINE left == SubSeq(configureEvents, n + 1, Len(configureEvents))
           have == n > 0 \/ size # frameGeometry.size \/ changed
           sync == /\ have /\ ~configureTimer
                   /\ \A i \in DOMAIN left : ~left[i].position
           frame == IF have THEN NextGeometry(n, size) ELSE frameGeometry
           asked == IF sync THEN frame ELSE moveResizeGeometry
           moved == place # None
           L == Len(configureEvents)
<1>1. /\ configureEvents' = IF moved THEN Unpositioned(left) ELSE left
      /\ frameGeometry' = IF moved THEN [frame EXCEPT !.pos = place] ELSE frame
      /\ moveResizeGeometry' = IF moved THEN [asked EXCEPT !.pos = place] ELSE asked
      /\ configurePosition' = (configurePosition /\ ~moved)
      /\ wanted' = IF moved THEN place ELSE wanted
      /\ overtaken' = (overtaken /\ ~moved)
  BY DEF HandleCommit
<1>2. /\ left \in Seq(ConfigureEvent) /\ Len(left) = L - n
      /\ \A i \in 1..L - n : left[i] = configureEvents[n + i]
      /\ n > 0 => configureEvents[n] \in ConfigureEvent
      /\ L \in Nat /\ n \in Nat /\ n <= L
  BY EventsLeft, LenProperties DEF TypeOK
<1>3. NextGeometry(n, size) \in Geometry
  BY <1>2 DEF NextGeometry, Geometry, ConfigureEvent, TypeOK
<1>4. frame \in Geometry /\ asked \in Geometry
  BY <1>3 DEF TypeOK
<1>5. frame.pos = IF n > 0 /\ configureEvents[n].position
                  THEN configureEvents[n].bounds.pos ELSE frameGeometry.pos
  BY DEF NextGeometry
<1>6. sync => ~configureTimer /\ ~Moves(left)
  <2>1. DOMAIN left = 1..Len(left)
    BY <1>2
  <2> HIDE DEF left, have
  <2>2. QED
    BY <2>1 DEF Moves
<1>7. (asked = frame /\ sync) \/ asked = moveResizeGeometry
  OBVIOUS
<1> HIDE DEF left, frame, asked, sync, L
<1>8. CASE moved
  <2>1. frameGeometry'.pos = place /\ moveResizeGeometry'.pos = place
    BY <1>1, <1>4, <1>8 DEF Geometry
  <2>2. configureEvents' = Unpositioned(left) /\ ~configurePosition' /\ ~overtaken' /\ wanted' = place
    BY <1>1, <1>8
  <2>3. ~Moves(configureEvents') /\ ~MovesLast(configureEvents')
    BY <1>2, <2>2, UnpositionedMovesNot
  <2>4. QED
    BY <2>1, <2>2, <2>3 DEF Following, Follows
<1>9. CASE ~moved
  <2>1. /\ configureEvents' = left /\ frameGeometry' = frame /\ moveResizeGeometry' = asked
        /\ configurePosition' = configurePosition /\ wanted' = wanted /\ overtaken' = overtaken
    BY <1>1, <1>9 DEF TypeOK
  <2>2. n < L => /\ Len(left) > 0 /\ left[Len(left)] = configureEvents[L]
                 /\ (MovesLast(left) <=> MovesLast(configureEvents))
    <3>1. n < L => Len(left) > 0 /\ Len(left) \in 1..L - n /\ n + Len(left) = L
      BY <1>2
    <3>2. n < L => left[Len(left)] = configureEvents[L]
      BY <1>2, <3>1
    <3>3. QED
      BY <1>2, <3>1, <3>2 DEF MovesLast, L
  <2>3. n = L => ~Moves(left) /\ ~MovesLast(left)
    BY <1>2 DEF Moves, MovesLast
  <2>4. Moves(left) => Moves(configureEvents)
    <3>1. \A i \in 1..Len(left) : n + i \in 1..L /\ left[i] = configureEvents[n + i]
      BY <1>2
    <3>2. QED
      BY <3>1 DEF Moves, L
  <2>5. Moves(configureEvents) => MovesLast(configureEvents)
    BY DEF Following, Follows
  <2>6. MovesLast(left) => Moves(left)
    BY <1>2, MovesLastMoves
  <2>7. n > 0 /\ configureEvents[n].position => Moves(configureEvents)
    <3>1. n > 0 => n \in 1..L
      BY <1>2
    <3>2. QED
      BY <3>1 DEF Moves, L
  <2>8. n < L \/ n = L
    BY <1>2
  <2>9. MovesLast(configureEvents) => L > 0 /\ configureEvents[L].position
    BY DEF MovesLast, L
  <2>10. ASSUME ~overtaken, ~Moves(left), ~configurePosition
         PROVE  frame.pos = wanted
    <3>1. n < L => ~Moves(configureEvents)
      BY <2>2, <2>5, <2>6, <2>10
    <3>2. CASE n > 0 /\ configureEvents[n].position
      <4>1. n = L /\ MovesLast(configureEvents)
        BY <2>5, <2>7, <2>8, <3>1, <3>2
      <4>2. configureEvents[L].bounds.pos = wanted
        BY <4>1, <2>10 DEF Following, Follows, L
      <4>3. QED
        BY <1>5, <3>2, <4>1, <4>2
    <3>3. CASE ~(n > 0 /\ configureEvents[n].position)
      <4>1. ~Moves(configureEvents)
        BY <2>5, <2>8, <2>9, <3>1, <3>3
      <4>2. frameGeometry.pos = wanted
        BY <4>1, <2>10 DEF Following, Follows
      <4>3. QED
        BY <1>5, <3>3, <4>2
    <3>4. QED
      BY <3>2, <3>3
  <2>11. ~overtaken \/ Moves(left) => asked.pos = wanted
    <3>1. CASE asked = frame /\ sync
      <4>1. ~Moves(left) /\ ~configurePosition
        BY <1>6, <3>1 DEF Following
      <4>2. QED
        BY <2>10, <3>1, <4>1
    <3>2. CASE asked = moveResizeGeometry
      BY <2>4, <3>2 DEF Following, Follows
    <3>3. QED
      BY <1>7, <3>1, <3>2
  <2>12. MovesLast(left) /\ ~configurePosition /\ ~overtaken => left[Len(left)].bounds.pos = wanted
    <3>1. MovesLast(left) => /\ MovesLast(configureEvents)
                             /\ left[Len(left)] = configureEvents[Len(configureEvents)]
      BY <2>2, <2>3, <2>8 DEF L
    <3>2. QED
      BY <3>1 DEF Following, Follows
  <2>13. Moves(left) => MovesLast(left)
    BY <2>2, <2>3, <2>4, <2>5, <2>8
  <2>14. (configurePosition => configureTimer') /\ (configurePosition => ~overtaken)
    BY DEF Following, Follows
  <2>15. QED
    BY <2>1, <2>10, <2>11, <2>12, <2>13, <2>14 DEF Following, Follows
<1>10. QED
  BY <1>8, <1>9

LEMMA ApplyCommitFollows ==
    ASSUME TypeOK, Following, ApplyCommit
    PROVE  Following'
<1> DEFINE commit == Head(commits)
<1>1. commits # <<>> /\ commit.size \in Sizes \cup {None}
  <2>1. commits # <<>>
    BY DEF ApplyCommit
  <2>2. QED
    BY <2>1, HeadCommit
<1>2. CASE CommitShown(commit)
  <2>1. commit.size \in Sizes /\ UNCHANGED configureTimer
    BY <1>1, <1>2 DEF CommitShown
  <2>2. PICK n \in 0..Len(configureEvents), changed \in BOOLEAN :
           HandleCommit(n, commit.size, changed, None)
    BY <1>2 DEF CommitShown
  <2>3. QED
    BY <2>1, <2>2, HandleCommitFollows
<1>3. CASE CommitMaps(commit)
  <2>1. commit.size \in Sizes /\ (configureTimer => configureTimer')
    BY <1>1, <1>3 DEF CommitMaps
  <2>2. PICK n \in 0..Len(configureEvents), changed \in BOOLEAN, place \in Positions \cup {None} :
           HandleCommit(n, commit.size, changed, place)
    BY <1>3 DEF CommitMaps
  <2>3. QED
    BY <2>1, <2>2, HandleCommitFollows
<1>4. CASE CommitEmpty(commit)
  <2>1. UNCHANGED <<configureTimer, configurePosition, configureEvents, overtaken, wanted,
                    moveResizeGeometry, frameGeometry>>
    BY <1>4 DEF CommitEmpty, requested, history
  <2>2. QED
    BY <2>1 DEF Following
<1>5. CASE Reset
  <2>1. /\ configureEvents' = <<>> /\ ~configurePosition' /\ ~overtaken' /\ wanted' = Center
        /\ moveResizeGeometry'.pos = Center /\ frameGeometry'.pos = Center
    BY <1>5 DEF Reset
  <2>2. ~Moves(<<>>) /\ ~MovesLast(<<>>)
    BY DEF Moves, MovesLast
  <2>3. QED
    BY <2>1, <2>2 DEF Following, Follows
<1>6. ASSUME NEW maximized \in BOOLEAN, Initialize(maximized) PROVE Following'
  <2>1. configureTimer' = TRUE /\ UNCHANGED configureEvents
    BY <1>6 DEF Initialize
  <2>2. CASE maximized
    <3>1. Area \in Geometry
      BY GeometryAssumption DEF Area, Geometry
    <3>2. MoveResizeTo(Area)
      BY <1>6, <2>2 DEF Initialize
    <3>3. QED
      BY <2>1, <3>1, <3>2, MoveResizeToFollows
  <2>3. CASE ~maximized
    <3>1. UNCHANGED <<moveResizeGeometry, configurePosition, frameGeometry, wanted, overtaken>>
      BY <1>6, <2>3 DEF Initialize
    <3>2. QED
      BY <2>1, <3>1 DEF Following
  <2>4. QED
    BY <2>2, <2>3
<1>7. QED
  BY <1>2, <1>3, <1>4, <1>5, <1>6 DEF ApplyCommit

\* Steps that leave the window and the events alone.
LEMMA OthersFollow ==
    ASSUME Following, configureTimer => configureTimer',
           UNCHANGED <<configurePosition, configureEvents, history, moveResizeGeometry,
                       frameGeometry>>
    PROVE  Following'
BY DEF Following, history

LEMMA StepFollows ==
    ASSUME TypeOK, Following, [Next]_vars
    PROVE  Following'
<1>1. ASSUME NEW pos \in Positions, Move(pos) PROVE Following'
  BY <1>1, MoveFollows
<1>2. ASSUME NEW pos \in Positions, NEW size \in Sizes, MoveResize([pos |-> pos, size |-> size])
      PROVE  Following'
  <2>1. [pos |-> pos, size |-> size] \in Geometry
    BY DEF Geometry
  <2>2. QED
    BY <1>2, <2>1, MoveResizeToFollows DEF MoveResize
<1>3. ASSUME NEW maximized \in BOOLEAN, Maximize(maximized) PROVE Following'
  <2>1. Area \in Geometry /\ Restored \in Geometry
    BY GeometryAssumption DEF Area, Restored, Geometry, TypeOK
  <2>2. (IF maximized THEN Area ELSE Restored) \in Geometry
    BY <2>1
  <2>3. /\ MoveResizeTo(IF maximized THEN Area ELSE Restored)
        /\ configureTimer' = TRUE /\ UNCHANGED configureEvents
    BY <1>3 DEF Maximize
  <2>4. QED
    BY <2>2, <2>3, MoveResizeToFollows
<1>4. CASE ScheduleConfigure
  BY <1>4, OthersFollow DEF ScheduleConfigure, shown
<1>5. CASE SendConfigure
  BY <1>5, SendConfigureFollows
<1>6. CASE ApplyCommit
  BY <1>6, ApplyCommitFollows
<1>7. ASSUME UNCHANGED <<requested, shown, configureEvents>> PROVE Following'
  BY <1>7, OthersFollow DEF requested, shown
<1>8. CASE InitialCommit
  BY <1>7, <1>8 DEF InitialCommit
<1>9. CASE Answers
  BY <1>7, <1>9 DEF Answers, Answer
<1>10. ASSUME NEW size \in Sizes, Frame(size) PROVE Following'
  BY <1>7, <1>10 DEF Frame
<1>11. CASE Unmap
  BY <1>7, <1>11 DEF Unmap
<1>12. CASE UNCHANGED vars
  BY <1>7, <1>12 DEF vars
<1>13. QED
  BY <1>1, <1>2, <1>3, <1>4, <1>5, <1>6, <1>8, <1>9, <1>10, <1>11, <1>12 DEF Next

\* When no configure event is outstanding, the states are the requested ones and the window
\* is where it was last asked to be, whoever asked and however many events and commits were
\* on their way, except where moveResizeInternal moved it at once and left an older event
\* that moves it to its answer (moveResizeInternal, sendConfigure, handleCommit,
\* maybeUpdateMoveResizeGeometry).
THEOREM AgreementHolds == Spec => []Agreement
<1>1. XdgInv => TypeOK
  BY DEF XdgInv
<1>2. TypeOK /\ Following /\ [Next]_vars => Following'
  BY StepFollows
<1>3. XdgInv /\ Following => Agreement
  <2>1. SUFFICES ASSUME XdgInv, Following, surface = "mapped", ~configureTimer,
                        configureEvents = <<>>, ~overtaken
                 PROVE  frameGeometry.pos = wanted
    BY DEF XdgInv, Agreed, Agreement
  <2>2. ~Moves(configureEvents) /\ ~configurePosition
    BY <2>1 DEF Moves, Following
  <2>3. QED
    BY <2>1, <2>2 DEF Following, Follows
<1>4. QED
  BY InvariantHolds, InitFollows, <1>1, <1>2, <1>3, PTL DEF Spec

------------------------------------------------------------------------------
(* Events that wait for an answer: Ordered is how serials travel, and Life *)
(* is why a client that starts again finds its surface reset.              *)

Requested == [size : Sizes \cup {None}, ack : Nat \cup {None}]
Sent == [serial : Nat, size : Sizes \cup {None}, states : BOOLEAN]

\* A surface, a client and the commits between them: once the client has committed a
\* buffer, a commit without one is its last, and unmaps the surface.
Life(sf, cl, cs) ==
    /\ cl \in {"idle", "waiting", "configured", "shown"}
    /\ \A i, j \in 1..Len(cs) :
          i < j /\ cs[i].size # None /\ cs[j].size = None => j = Len(cs) /\ cl = "idle"
    /\ sf = "mapped" =>
          \A i \in 1..Len(cs) : cs[i].size = None => i = Len(cs) /\ cl = "idle"
    /\ sf = "reset" /\ Len(cs) > 0 => cs[1].size = None
    /\ cl = "idle" /\ Len(cs) = 0 => sf = "reset"
    /\ cl = "idle" /\ Len(cs) = 1 => cs[1].size = None /\ sf = "mapped"
    /\ cl = "idle" /\ Len(cs) > 1 => cs[Len(cs)].size = None /\ cs[Len(cs) - 1].size # None
    /\ cl = "shown" /\ Len(cs) = 0 => sf = "mapped"
    /\ cl = "shown" /\ Len(cs) > 0 => cs[Len(cs)].size # None
    /\ cl # "idle" /\ sf = "reset" => Len(cs) > 0
    /\ cl \in {"waiting", "configured"} =>
          sf # "mapped" /\ \A i \in 1..Len(cs) : cs[i].size = None

\* A window that is reset has nothing outstanding.
Quiet ==
    surface = "reset" => ~configureTimer /\ configureEvents = <<>> /\ lastAcknowledged = None

\* Applying the first commit.
LEMMA LifeApplied ==
    ASSUME NEW cs \in Seq(Requested), cs # <<>>, NEW sf, NEW sf2, NEW cl, Life(sf, cl, cs),
           \/ sf = "mapped" /\ cs[1].size # None /\ sf2 = "mapped"
           \/ sf = "initialized" /\ cs[1].size # None /\ sf2 = "mapped"
           \/ sf = "initialized" /\ cs[1].size = None /\ sf2 = "initialized"
           \/ sf = "mapped" /\ cs[1].size = None /\ sf2 = "reset"
           \/ sf = "reset" /\ sf2 = "initialized"
    PROVE  Life(sf2, cl, Tail(cs))
<1> DEFINE L == Len(cs)
           rest == Tail(cs)
<1>1. L \in Nat /\ L > 0
  BY EmptySeq
<1>2. Len(rest) = L - 1 /\ \A i \in 1..L - 1 : rest[i] = cs[i + 1]
  BY HeadTailProperties
<1> HIDE DEF L, rest
<1>3. \A i, j \in 1..L : i < j /\ cs[i].size # None /\ cs[j].size = None => j = L /\ cl = "idle"
  BY DEF Life, L
<1>4. /\ cl \in {"idle", "waiting", "configured", "shown"}
      /\ sf = "mapped" => \A i \in 1..L : cs[i].size = None => i = L /\ cl = "idle"
      /\ sf = "reset" => cs[1].size = None
      /\ cl = "idle" /\ L = 1 => cs[1].size = None /\ sf = "mapped"
      /\ cl = "idle" /\ L > 1 => cs[L].size = None /\ cs[L - 1].size # None
      /\ cl = "shown" => cs[L].size # None
      /\ cl \in {"waiting", "configured"} =>
            sf # "mapped" /\ \A i \in 1..L : cs[i].size = None
  BY <1>1 DEF Life, L
<1>5. \A i, j \in 1..Len(rest) :
         i < j /\ rest[i].size # None /\ rest[j].size = None => j = Len(rest) /\ cl = "idle"
  <2>1. SUFFICES ASSUME NEW i \in 1..L - 1, NEW j \in 1..L - 1,
                        i < j, rest[i].size # None, rest[j].size = None
                 PROVE  j = L - 1 /\ cl = "idle"
    BY <1>2
  <2>2. i + 1 \in 1..L /\ j + 1 \in 1..L /\ i + 1 < j + 1
    BY <1>1, <2>1
  <2>3. j + 1 = L /\ cl = "idle"
    BY <1>2, <1>3, <2>1, <2>2
  <2>4. QED
    BY <1>1, <2>3
<1>6. sf2 = "mapped" =>
         \A i \in 1..Len(rest) : rest[i].size = None => i = Len(rest) /\ cl = "idle"
  <2>1. SUFFICES ASSUME sf2 = "mapped", NEW i \in 1..L - 1, rest[i].size = None
                 PROVE  i = L - 1 /\ cl = "idle"
    BY <1>2
  <2>2. 1 \in 1..L /\ i + 1 \in 1..L /\ 1 < i + 1
    BY <1>1
  <2>3. i + 1 = L /\ cl = "idle"
    BY <1>2, <1>3, <1>4, <2>1, <2>2
  <2>4. QED
    BY <1>1, <2>3
<1>7. sf2 = "reset" => cl = "idle" /\ L = 1
  BY <1>1, <1>4
<1>8. cl = "idle" /\ L = 1 => sf2 = "reset"
  BY <1>4
<1>9. cl = "idle" /\ L = 2 => rest[1].size = None /\ sf2 = "mapped"
  BY <1>2, <1>4
<1>10. cl = "idle" /\ L > 2 => rest[L - 1].size = None /\ rest[L - 2].size # None
  BY <1>1, <1>2, <1>4
<1>11. /\ cl = "shown" /\ L = 1 => sf2 = "mapped"
       /\ cl = "shown" /\ L > 1 => rest[L - 1].size # None
  BY <1>1, <1>2, <1>4
<1>12. cl \in {"waiting", "configured"} =>
          sf2 # "mapped" /\ \A i \in 1..L - 1 : rest[i].size = None
  <2>1. \A i \in 1..L - 1 : i + 1 \in 1..L /\ i + 1 > 1
    BY <1>1
  <2>2. QED
    BY <1>1, <1>2, <1>4, <2>1
<1>13. QED
  <2>1. Len(rest) = L - 1 /\ L - 1 \in Nat
    BY <1>1, <1>2
  <2>2. /\ sf2 = "reset" /\ Len(rest) > 0 => rest[1].size = None
        /\ cl = "idle" /\ Len(rest) = 0 => sf2 = "reset"
        /\ cl = "idle" /\ Len(rest) = 1 => rest[1].size = None /\ sf2 = "mapped"
        /\ cl = "shown" /\ Len(rest) = 0 => sf2 = "mapped"
        /\ cl = "shown" /\ Len(rest) > 0 => rest[Len(rest)].size # None
        /\ cl # "idle" /\ sf2 = "reset" => Len(rest) > 0
    BY <1>1, <2>1, <1>7, <1>8, <1>9, <1>11
  <2>3. cl = "idle" /\ Len(rest) > 1 =>
           rest[Len(rest)].size = None /\ rest[Len(rest) - 1].size # None
    BY <1>1, <2>1, <1>10
  <2>4. cl \in {"waiting", "configured"} =>
           sf2 # "mapped" /\ \A i \in 1..Len(rest) : rest[i].size = None
    BY <2>1, <1>12
  <2>5. Life(sf2, cl, rest)
    BY <1>4, <1>5, <1>6, <2>2, <2>3, <2>4 DEF Life
  <2>6. QED
    BY <2>5 DEF rest

\* The client commits.
LEMMA LifeCommitted ==
    ASSUME NEW cs \in Seq(Requested), NEW c \in Requested,
           NEW sf, NEW cl, NEW cl2, Life(sf, cl, cs),
           \/ cl = "idle" /\ cs = <<>> /\ c.size = None /\ cl2 = "waiting"
           \/ cl \in {"waiting", "configured"} /\ c.size = None /\ cl2 = "configured"
           \/ cl # "idle" /\ c.size # None /\ cl2 = "shown"
           \/ cl = "shown" /\ c.size = None /\ cl2 = "idle"
    PROVE  Life(sf, cl2, Append(cs, c))
<1> DEFINE L == Len(cs)
           more == Append(cs, c)
<1>1. L \in Nat /\ (cs = <<>> <=> L = 0)
  BY EmptySeq
<1>2. Len(more) = L + 1 /\ more[L + 1] = c /\ \A i \in 1..L : more[i] = cs[i]
  BY AppendProperties
<1> HIDE DEF L, more
<1>3. \A i, j \in 1..L : i < j /\ cs[i].size # None /\ cs[j].size = None => j = L /\ cl = "idle"
  BY DEF Life, L
<1>4. /\ cl \in {"idle", "waiting", "configured", "shown"}
      /\ sf = "mapped" => \A i \in 1..L : cs[i].size = None => i = L /\ cl = "idle"
      /\ sf = "reset" /\ L > 0 => cs[1].size = None
      /\ cl = "idle" /\ L = 0 => sf = "reset"
      /\ cl = "shown" /\ L = 0 => sf = "mapped"
      /\ cl = "shown" /\ L > 0 => cs[L].size # None
      /\ cl # "idle" /\ sf = "reset" => L > 0
      /\ cl \in {"waiting", "configured"} =>
            sf # "mapped" /\ \A i \in 1..L : cs[i].size = None
  BY DEF Life, L
<1>5. \A i \in 1..L + 1 : i \in 1..L \/ i = L + 1
  BY <1>1
<1>6. \A i, j \in 1..Len(more) :
         i < j /\ more[i].size # None /\ more[j].size = None => j = Len(more) /\ cl2 = "idle"
  <2>1. SUFFICES ASSUME NEW i \in 1..L + 1, NEW j \in 1..L + 1,
                        i < j, more[i].size # None, more[j].size = None
                 PROVE  j = L + 1 /\ cl2 = "idle"
    BY <1>2
  <2>2. i \in 1..L /\ cs[i].size # None
    BY <1>1, <1>2, <2>1
  <2>3. cl \notin {"idle", "waiting", "configured"}
    BY <1>1, <1>4, <2>2
  <2>4. j = L + 1
    BY <1>2, <1>3, <1>5, <2>1, <2>2, <2>3
  <2>5. QED
    BY <1>2, <2>1, <2>3, <2>4
<1>7. sf = "mapped" =>
         \A i \in 1..Len(more) : more[i].size = None => i = Len(more) /\ cl2 = "idle"
  <2>1. SUFFICES ASSUME sf = "mapped", NEW i \in 1..L + 1, more[i].size = None
                 PROVE  i = L + 1 /\ cl2 = "idle"
    BY <1>2
  <2>2. cl \notin {"waiting", "configured"} /\ ~(cl = "idle" /\ L = 0)
    BY <1>4, <2>1
  <2>3. i = L + 1
    BY <1>1, <1>2, <1>4, <1>5, <2>1, <2>2
  <2>4. QED
    BY <1>1, <1>2, <2>1, <2>2, <2>3
<1>8. sf = "reset" => more[1].size = None
  <2>1. L > 0 => 1 \in 1..L
    BY <1>1
  <2>2. QED
    BY <1>1, <1>2, <1>4, <2>1
<1>9. cl2 = "idle" => /\ L = 0 => sf = "mapped" 
                      /\ more[L + 1].size = None
                      /\ L > 0 => more[L].size # None
  BY <1>1, <1>2, <1>4
<1>10. cl2 = "shown" => more[L + 1].size # None
  BY <1>2
<1>11. cl2 \in {"waiting", "configured"} =>
          sf # "mapped" /\ \A i \in 1..L + 1 : more[i].size = None
  BY <1>1, <1>2, <1>4, <1>5
<1>12. QED
  <2>1. Len(more) = L + 1 /\ L + 1 > 0 /\ (L + 1) - 1 = L
    BY <1>1, <1>2
  <2>2. /\ cl2 = "idle" /\ Len(more) = 1 => more[1].size = None /\ sf = "mapped"
        /\ cl2 = "idle" /\ Len(more) > 1 =>
              more[Len(more)].size = None /\ more[Len(more) - 1].size # None
    BY <1>1, <2>1, <1>9
  <2>3. /\ Len(more) > 0 /\ Len(more) # 0
        /\ cl2 = "shown" => more[Len(more)].size # None
    BY <1>1, <2>1, <1>10
  <2>4. cl2 \in {"waiting", "configured"} =>
           sf # "mapped" /\ \A i \in 1..Len(more) : more[i].size = None
    BY <2>1, <1>11
  <2>5. cl2 \in {"idle", "waiting", "configured", "shown"}
    OBVIOUS
  <2>6. Life(sf, cl2, more)
    BY <1>6, <1>7, <1>8, <2>2, <2>3, <2>4, <2>5 DEF Life
  <2>7. QED
    BY <2>6 DEF more

Increasing(events) ==
    \A i, j \in 1..Len(events) : i < j => events[i].serial < events[j].serial
Bounded(events, top) == \A i \in 1..Len(events) : events[i].serial <= top
Dispatched(ack, sent, top) ==
    ack # None => ack <= top /\ \A j \in 1..Len(sent) : ack < sent[j].serial

\* Serials grow along what the client has acknowledged in applied commits, in commits
\* that are on their way, and in events that it has not dispatched.
Ordered(events, sent, cs, last, top) ==
    /\ Increasing(events) /\ Bounded(events, top)
    /\ Increasing(sent) /\ Bounded(sent, top)
    /\ Dispatched(last, sent, top)
    /\ \A i \in 1..Len(cs) : Dispatched(cs[i].ack, sent, top)
    /\ \A i \in 1..Len(cs) : last # None /\ cs[i].ack # None => last <= cs[i].ack
    /\ \A i, j \in 1..Len(cs) :
          i < j /\ cs[i].ack # None /\ cs[j].ack # None => cs[i].ack <= cs[j].ack

Awaited(events, sent, cs, last) ==
    \A i \in 1..Len(events) :
        \/ \E j \in 1..Len(sent) : sent[j].serial = events[i].serial
        \/ \E j \in 1..Len(cs) : cs[j].ack # None /\ cs[j].ack >= events[i].serial
        \/ last # None /\ last >= events[i].serial

\* The members of the sequences.
LEMMA Members ==
    ASSUME NEW events \in Seq(ConfigureEvent), NEW sent \in Seq(Sent), NEW cs \in Seq(Requested)
    PROVE  /\ Len(events) \in Nat /\ Len(sent) \in Nat /\ Len(cs) \in Nat
           /\ \A i \in 1..Len(events) : events[i].serial \in Nat
           /\ \A i \in 1..Len(sent) : sent[i].serial \in Nat
           /\ \A i \in 1..Len(cs) : cs[i].ack \in Nat \cup {None}
<1>1. Len(events) \in Nat /\ Len(sent) \in Nat /\ Len(cs) \in Nat
  OBVIOUS
<1>2. \A i \in 1..Len(events) : events[i] \in ConfigureEvent
  BY ElementOfSeq
<1>3. \A i \in 1..Len(sent) : sent[i] \in Sent
  BY ElementOfSeq
<1>4. \A i \in 1..Len(cs) : cs[i] \in Requested
  BY ElementOfSeq
<1>5. QED
  BY <1>1, <1>2, <1>3, <1>4 DEF ConfigureEvent, Sent, Requested

\* An event is sent: its serial is the last.
LEMMA SentLast ==
    ASSUME NEW events \in Seq(ConfigureEvent), NEW sent \in Seq(Sent), NEW cs \in Seq(Requested),
           NEW last \in Nat \cup {None}, NEW top \in Nat,
           NEW e \in ConfigureEvent, NEW s \in Sent, e.serial = top + 1, s.serial = top + 1,
           Ordered(events, sent, cs, last, top), Awaited(events, sent, cs, last)
    PROVE  /\ Ordered(Append(events, e), Append(sent, s), cs, last, top + 1)
           /\ Awaited(Append(events, e), Append(sent, s), cs, last)
<1> DEFINE events2 == Append(events, e)
           sent2 == Append(sent, s)
<1>1. /\ Len(events) \in Nat /\ Len(sent) \in Nat /\ Len(cs) \in Nat
      /\ \A i \in 1..Len(events) : events[i].serial \in Nat
      /\ \A i \in 1..Len(sent) : sent[i].serial \in Nat
      /\ \A i \in 1..Len(cs) : cs[i].ack \in Nat \cup {None}
  BY Members
<1>2. /\ Len(events2) = Len(events) + 1 /\ events2[Len(events) + 1] = e
      /\ \A i \in 1..Len(events) : events2[i] = events[i]
  BY AppendProperties
<1>3. /\ Len(sent2) = Len(sent) + 1 /\ sent2[Len(sent) + 1] = s
      /\ \A i \in 1..Len(sent) : sent2[i] = sent[i]
  BY AppendProperties
<1> HIDE DEF events2, sent2
<1>4. /\ \A i \in 1..Len(events2) : i \in 1..Len(events) \/ i = Len(events) + 1
      /\ \A i \in 1..Len(sent2) : i \in 1..Len(sent) \/ i = Len(sent) + 1
      /\ Len(sent) + 1 \in 1..Len(sent2)
      /\ \A i \in 1..Len(sent) : i \in 1..Len(sent2)
  BY <1>1, <1>2, <1>3
<1>5. None \notin Nat
  BY GeometryAssumption
<1>6. Increasing(events2) /\ Bounded(events2, top + 1)
  <2>1. \A i \in 1..Len(events) : events[i].serial <= top /\ events[i].serial < top + 1
    BY <1>1 DEF Ordered, Bounded
  <2>2. ASSUME NEW i \in 1..Len(events2) PROVE events2[i].serial <= top + 1
    <3>1. CASE i \in 1..Len(events)
      BY <3>1, <2>1, <1>1, <1>2
    <3>2. CASE i = Len(events) + 1
      BY <3>2, <1>2
    <3>3. QED
      BY <3>1, <3>2, <1>4
  <2>3. ASSUME NEW i \in 1..Len(events2), NEW j \in 1..Len(events2), i < j
        PROVE  events2[i].serial < events2[j].serial
    <3>1. i \in 1..Len(events) /\ events2[i] = events[i]
      BY <2>3, <1>1, <1>2
    <3>2. CASE j \in 1..Len(events)
      BY <3>1, <3>2, <2>3, <1>2 DEF Ordered, Increasing
    <3>3. CASE j = Len(events) + 1
      <4>1. events2[j].serial = top + 1
        BY <3>3, <1>2
      <4>2. QED
        BY <3>1, <4>1, <2>1
    <3>4. QED
      BY <3>2, <3>3, <1>4
  <2>4. QED
    BY <2>2, <2>3 DEF Increasing, Bounded
<1>7. Increasing(sent2) /\ Bounded(sent2, top + 1)
  <2>1. \A i \in 1..Len(sent) : sent[i].serial <= top /\ sent[i].serial < top + 1
    BY <1>1 DEF Ordered, Bounded
  <2>2. ASSUME NEW i \in 1..Len(sent2) PROVE sent2[i].serial <= top + 1
    <3>1. CASE i \in 1..Len(sent)
      <4>1. sent2[i] = sent[i] /\ sent[i].serial \in Nat
        BY <3>1, <1>1, <1>3
      <4>2. sent[i].serial <= top
        BY <3>1, <2>1
      <4>3. QED
        BY <4>1, <4>2
    <3>2. CASE i = Len(sent) + 1
      BY <3>2, <1>3
    <3>3. QED
      BY <3>1, <3>2, <1>4
  <2>3. ASSUME NEW i \in 1..Len(sent2), NEW j \in 1..Len(sent2), i < j
        PROVE  sent2[i].serial < sent2[j].serial
    <3>1. i \in 1..Len(sent) /\ sent2[i] = sent[i]
      BY <2>3, <1>1, <1>3
    <3>2. CASE j \in 1..Len(sent)
      BY <3>1, <3>2, <2>3, <1>3 DEF Ordered, Increasing
    <3>3. CASE j = Len(sent) + 1
      BY <3>1, <3>3, <2>1, <1>3
    <3>4. QED
      BY <3>2, <3>3, <1>4
  <2>4. QED
    BY <2>2, <2>3 DEF Increasing, Bounded
<1>8. ASSUME NEW ack \in Nat \cup {None}, Dispatched(ack, sent, top)
      PROVE  Dispatched(ack, sent2, top + 1)
  <2>1. SUFFICES ASSUME ack # None
                 PROVE  ack <= top + 1 /\ \A j \in 1..Len(sent2) : ack < sent2[j].serial
    BY DEF Dispatched
  <2>2. ack \in Nat /\ ack <= top /\ \A j \in 1..Len(sent) : ack < sent[j].serial
    BY <2>1, <1>8 DEF Dispatched
  <2>3. ack <= top + 1 /\ ack < top + 1
    BY <2>2
  <2>4. ASSUME NEW j \in 1..Len(sent2) PROVE ack < sent2[j].serial
    BY <2>2, <2>3, <1>3, <1>4
  <2>5. QED
    BY <2>3, <2>4
<1>9. Dispatched(last, sent2, top + 1) /\ \A i \in 1..Len(cs) : Dispatched(cs[i].ack, sent2, top + 1)
  BY <1>1, <1>8 DEF Ordered
<1>10. Ordered(events2, sent2, cs, last, top + 1)
  BY <1>6, <1>7, <1>9 DEF Ordered
<1>11. Awaited(events2, sent2, cs, last)
  <2>1. SUFFICES ASSUME NEW i \in 1..Len(events2)
                 PROVE  \/ \E j \in 1..Len(sent2) : sent2[j].serial = events2[i].serial
                        \/ \E j \in 1..Len(cs) : cs[j].ack # None /\ cs[j].ack >= events2[i].serial
                        \/ last # None /\ last >= events2[i].serial
    BY DEF Awaited
  <2>2. CASE i = Len(events) + 1
    BY <2>2, <1>2, <1>3, <1>4
  <2>3. CASE i \in 1..Len(events)
    <3>1. events2[i] = events[i]
      BY <2>3, <1>2
    <3>2. \/ \E j \in 1..Len(sent) : sent[j].serial = events[i].serial
          \/ \E j \in 1..Len(cs) : cs[j].ack # None /\ cs[j].ack >= events[i].serial
          \/ last # None /\ last >= events[i].serial
      BY <2>3 DEF Awaited
    <3>3. QED
      BY <3>1, <3>2, <1>3, <1>4
  <2>4. QED
    BY <2>2, <2>3, <1>4
<1>12. QED
  BY <1>10, <1>11 DEF events2, sent2

\* The client dispatches n events and acknowledges the last of them, or acknowledges none.
LEMMA Answered ==
    ASSUME NEW events \in Seq(ConfigureEvent), NEW sent \in Seq(Sent), NEW cs \in Seq(Requested),
           NEW last \in Nat \cup {None}, NEW top \in Nat,
           NEW c \in Requested, NEW n \in 0..Len(sent),
           IF n = 0 THEN c.ack = None ELSE c.ack = sent[n].serial,
           Ordered(events, sent, cs, last, top), Awaited(events, sent, cs, last)
    PROVE  /\ Ordered(events, SubSeq(sent, n + 1, Len(sent)), Append(cs, c), last, top)
           /\ Awaited(events, SubSeq(sent, n + 1, Len(sent)), Append(cs, c), last)
<1> DEFINE cs2 == Append(cs, c)
           sent2 == SubSeq(sent, n + 1, Len(sent))
<1>1. /\ Len(events) \in Nat /\ Len(sent) \in Nat /\ Len(cs) \in Nat
      /\ \A i \in 1..Len(events) : events[i].serial \in Nat
      /\ \A i \in 1..Len(sent) : sent[i].serial \in Nat
      /\ \A i \in 1..Len(cs) : cs[i].ack \in Nat \cup {None}
      /\ n \in Nat /\ n <= Len(sent)
  BY Members
<1>2. /\ Len(cs2) = Len(cs) + 1 /\ cs2[Len(cs) + 1] = c
      /\ \A i \in 1..Len(cs) : cs2[i] = cs[i]
  BY AppendProperties
<1>3. /\ Len(sent2) = Len(sent) - n
      /\ \A i \in 1..Len(sent) - n : sent2[i] = sent[n + i]
  BY <1>1, SubSeqProperties
<1> HIDE DEF cs2, sent2
<1>4. /\ \A i \in 1..Len(cs2) : i \in 1..Len(cs) \/ i = Len(cs) + 1
      /\ \A i \in 1..Len(cs) : i \in 1..Len(cs2)
      /\ Len(cs) + 1 \in 1..Len(cs2)
      /\ \A i \in 1..Len(sent2) : n + i \in 1..Len(sent) /\ sent2[i] = sent[n + i]
      /\ n > 0 => n \in 1..Len(sent)
  BY <1>1, <1>2, <1>3
<1>5. None \notin Nat
  BY GeometryAssumption
<1>6. Increasing(sent2) /\ Bounded(sent2, top)
  <2>1. ASSUME NEW i \in 1..Len(sent2), NEW j \in 1..Len(sent2), i < j
        PROVE  sent2[i].serial < sent2[j].serial
    <3>1. n + i < n + j
      BY <1>1, <1>3, <2>1
    <3>2. QED
      BY <3>1, <1>4 DEF Ordered, Increasing
  <2>2. QED
    BY <2>1, <1>4 DEF Ordered, Increasing, Bounded
<1>7. ASSUME NEW ack \in Nat \cup {None}, Dispatched(ack, sent, top)
      PROVE  Dispatched(ack, sent2, top) /\ (ack # None /\ c.ack # None => ack <= c.ack)
  <2>1. Dispatched(ack, sent2, top)
    BY <1>4, <1>7 DEF Dispatched
  <2>2. ack # None /\ c.ack # None => ack < sent[n].serial /\ c.ack = sent[n].serial
    BY <1>1, <1>4, <1>7 DEF Dispatched
  <2>3. QED
    BY <2>1, <2>2, <1>1, <1>4, <1>5
<1>8. Dispatched(c.ack, sent2, top)
  <2>1. SUFFICES ASSUME c.ack # None
                 PROVE  c.ack <= top /\ \A j \in 1..Len(sent2) : c.ack < sent2[j].serial
    BY DEF Dispatched
  <2>2. n \in 1..Len(sent) /\ c.ack = sent[n].serial
    BY <2>1, <1>1, <1>4
  <2>3. c.ack <= top
    BY <2>2 DEF Ordered, Bounded
  <2>4. ASSUME NEW j \in 1..Len(sent2) PROVE c.ack < sent2[j].serial
    <3>1. n < n + j
      BY <1>1, <1>3
    <3>2. QED
      BY <3>1, <2>2, <1>4 DEF Ordered, Increasing
  <2>5. QED
    BY <2>3, <2>4
<1>9. /\ Dispatched(last, sent2, top)
      /\ \A i \in 1..Len(cs2) : Dispatched(cs2[i].ack, sent2, top)
      /\ \A i \in 1..Len(cs2) : last # None /\ cs2[i].ack # None => last <= cs2[i].ack
  BY <1>1, <1>2, <1>4, <1>7, <1>8 DEF Ordered
<1>10. \A i, j \in 1..Len(cs2) :
          i < j /\ cs2[i].ack # None /\ cs2[j].ack # None => cs2[i].ack <= cs2[j].ack
  <2>1. SUFFICES ASSUME NEW i \in 1..Len(cs2), NEW j \in 1..Len(cs2),
                        i < j, cs2[i].ack # None, cs2[j].ack # None
                 PROVE  cs2[i].ack <= cs2[j].ack
    OBVIOUS
  <2>2. i \in 1..Len(cs) /\ cs2[i] = cs[i]
    BY <2>1, <1>1, <1>2
  <2>3. CASE j \in 1..Len(cs)
    BY <2>1, <2>2, <2>3, <1>2 DEF Ordered
  <2>4. CASE j = Len(cs) + 1
    BY <2>1, <2>2, <2>4, <1>1, <1>2, <1>7 DEF Ordered
  <2>5. QED
    BY <2>3, <2>4, <1>4
<1>11. Ordered(events, sent2, cs2, last, top)
  BY <1>6, <1>9, <1>10 DEF Ordered
<1>12. Awaited(events, sent2, cs2, last)
  <2>1. SUFFICES ASSUME NEW i \in 1..Len(events)
                 PROVE  \/ \E j \in 1..Len(sent2) : sent2[j].serial = events[i].serial
                        \/ \E j \in 1..Len(cs2) : cs2[j].ack # None /\ cs2[j].ack >= events[i].serial
                        \/ last # None /\ last >= events[i].serial
    BY DEF Awaited
  <2>2. ASSUME NEW j \in 1..Len(sent), sent[j].serial = events[i].serial
        PROVE  \/ \E k \in 1..Len(sent2) : sent2[k].serial = events[i].serial
               \/ \E k \in 1..Len(cs2) : cs2[k].ack # None /\ cs2[k].ack >= events[i].serial
    <3>1. CASE j > n
      <4>1. j - n \in 1..Len(sent2) /\ sent2[j - n] = sent[j]
        BY <3>1, <1>1, <1>3
      <4>2. QED
        BY <4>1, <2>2
    <3>2. CASE j <= n
      <4>1. n \in 1..Len(sent) /\ c.ack = sent[n].serial /\ (j < n \/ j = n)
        BY <3>2, <1>1, <1>4
      <4>2. j < n => sent[j].serial < sent[n].serial
        BY <4>1 DEF Ordered, Increasing
      <4>3. c.ack # None /\ c.ack >= events[i].serial
        BY <4>1, <4>2, <2>2, <1>1, <1>5
      <4>4. QED
        BY <4>3, <1>2, <1>4
    <3>3. QED
      BY <3>1, <3>2, <1>1
  <2>3. ASSUME NEW j \in 1..Len(cs), cs[j].ack # None /\ cs[j].ack >= events[i].serial
        PROVE  \E k \in 1..Len(cs2) : cs2[k].ack # None /\ cs2[k].ack >= events[i].serial
    BY <2>3, <1>2, <1>4
  <2>4. \/ \E j \in 1..Len(sent) : sent[j].serial = events[i].serial
        \/ \E j \in 1..Len(cs) : cs[j].ack # None /\ cs[j].ack >= events[i].serial
        \/ last # None /\ last >= events[i].serial
    BY DEF Awaited
  <2>5. QED
    BY <2>2, <2>3, <2>4
<1>13. QED
  BY <1>11, <1>12 DEF cs2, sent2

\* Acked is what handleCommit reads of the first commit.
Acked(cs, last) == IF cs[1].ack # None THEN cs[1].ack ELSE last

\* The first commit is applied and its serial is kept: only who remembers it changes.
LEMMA AppliedKept ==
    ASSUME NEW events \in Seq(ConfigureEvent), NEW sent \in Seq(Sent), NEW cs \in Seq(Requested),
           NEW last \in Nat \cup {None}, NEW top \in Nat, cs # <<>>,
           Ordered(events, sent, cs, last, top), Awaited(events, sent, cs, last)
    PROVE  /\ Ordered(events, sent, Tail(cs), Acked(cs, last), top)
           /\ Awaited(events, sent, Tail(cs), Acked(cs, last))
           /\ Acked(cs, last) \in Nat \cup {None}
<1> DEFINE rest == Tail(cs)
           ack == Acked(cs, last)
<1>1. /\ Len(events) \in Nat /\ Len(cs) \in Nat /\ Len(cs) > 0
      /\ \A i \in 1..Len(events) : events[i].serial \in Nat
      /\ \A i \in 1..Len(cs) : cs[i].ack \in Nat \cup {None}
  BY Members, EmptySeq
<1>2. Len(rest) = Len(cs) - 1 /\ \A i \in 1..Len(cs) - 1 : rest[i] = cs[i + 1]
  BY HeadTailProperties
<1> HIDE DEF rest
<1>3. \A i \in 1..Len(rest) : i + 1 \in 1..Len(cs) /\ rest[i] = cs[i + 1] /\ 1 < i + 1
  BY <1>1, <1>2
<1>4. 1 \in 1..Len(cs) /\ None \notin Nat
  BY <1>1, GeometryAssumption
<1>5. ack \in Nat \cup {None} /\ (ack = cs[1].ack \/ ack = last)
  BY <1>1, <1>4 DEF Acked
<1>6. Dispatched(ack, sent, top)
  BY <1>4, <1>5 DEF Ordered
<1>7. \A i \in 1..Len(rest) : Dispatched(rest[i].ack, sent, top)
  BY <1>3 DEF Ordered
<1>8. \A i \in 1..Len(rest) : ack # None /\ rest[i].ack # None => ack <= rest[i].ack
  BY <1>3, <1>4, <1>5 DEF Ordered
<1>9. \A i, j \in 1..Len(rest) :
         i < j /\ rest[i].ack # None /\ rest[j].ack # None => rest[i].ack <= rest[j].ack
  <2>1. SUFFICES ASSUME NEW i \in 1..Len(rest), NEW j \in 1..Len(rest),
                        i < j, rest[i].ack # None, rest[j].ack # None
                 PROVE  rest[i].ack <= rest[j].ack
    OBVIOUS
  <2>2. i + 1 < j + 1
    BY <1>1, <1>2, <2>1
  <2>3. QED
    BY <1>3, <2>1, <2>2 DEF Ordered
<1>10. Ordered(events, sent, rest, ack, top)
  <2> HIDE DEF ack
  <2>1. QED
    BY <1>6, <1>7, <1>8, <1>9 DEF Ordered
<1>11. last # None => ack # None /\ last <= ack
  BY <1>1, <1>4 DEF Ordered, Acked
<1>12. Awaited(events, sent, rest, ack)
  <2> HIDE DEF ack
  <2>1. SUFFICES ASSUME NEW i \in 1..Len(events)
                 PROVE  \/ \E j \in 1..Len(sent) : sent[j].serial = events[i].serial
                        \/ \E j \in 1..Len(rest) : rest[j].ack # None /\ rest[j].ack >= events[i].serial
                        \/ ack # None /\ ack >= events[i].serial
    BY DEF Awaited
  <2>2. ASSUME last # None, last >= events[i].serial
        PROVE  ack # None /\ ack >= events[i].serial
    <3>1. last \in Nat /\ ack \in Nat /\ events[i].serial \in Nat /\ last <= ack
      BY <2>2, <1>1, <1>5, <1>11
    <3>2. QED
      BY <3>1, <2>2, <1>11
  <2>3. ASSUME NEW j \in 1..Len(cs), cs[j].ack # None, cs[j].ack >= events[i].serial
        PROVE  \/ \E k \in 1..Len(rest) : rest[k].ack # None /\ rest[k].ack >= events[i].serial
               \/ ack # None /\ ack >= events[i].serial
    <3>1. CASE j = 1
      BY <3>1, <2>3 DEF ack, Acked
    <3>2. CASE j > 1
      <4>1. j - 1 \in 1..Len(rest) /\ rest[j - 1] = cs[j]
        BY <3>2, <1>1, <1>2
      <4>2. QED
        BY <4>1, <2>3
    <3>3. QED
      BY <3>1, <3>2, <1>1
  <2>4. \/ \E j \in 1..Len(sent) : sent[j].serial = events[i].serial
        \/ \E j \in 1..Len(cs) : cs[j].ack # None /\ cs[j].ack >= events[i].serial
        \/ last # None /\ last >= events[i].serial
    BY DEF Awaited
  <2>5. QED
    BY <2>2, <2>3, <2>4
<1>13. QED
  BY <1>5, <1>10, <1>12 DEF rest

\* handleCommit takes the events up to the serial that was acknowledged, and forgets it.
LEMMA Taken ==
    ASSUME NEW events \in Seq(ConfigureEvent), NEW sent \in Seq(Sent), NEW cs \in Seq(Requested),
           NEW ack \in Nat \cup {None}, NEW top \in Nat,
           NEW n \in 0..Len(events), NEW left \in Seq(ConfigureEvent),
           Len(left) = Len(events) - n,
           \A i \in 1..Len(events) - n : left[i].serial = events[n + i].serial,
           ack = None => n = 0,
           ack # None /\ n < Len(events) => events[n + 1].serial > ack,
           Ordered(events, sent, cs, ack, top), Awaited(events, sent, cs, ack)
    PROVE  Ordered(left, sent, cs, None, top) /\ Awaited(left, sent, cs, None)
<1>1. /\ Len(events) \in Nat /\ n \in Nat /\ n <= Len(events)
      /\ \A i \in 1..Len(events) : events[i].serial \in Nat
  BY Members
<1>2. \A i \in 1..Len(left) : n + i \in 1..Len(events) /\ left[i].serial = events[n + i].serial
  BY <1>1
<1>3. None \notin Nat
  BY GeometryAssumption
<1>4. Increasing(left) /\ Bounded(left, top)
  <2>1. ASSUME NEW i \in 1..Len(left), NEW j \in 1..Len(left), i < j
        PROVE  left[i].serial < left[j].serial
    <3>1. n + i < n + j
      BY <1>1, <2>1
    <3>2. QED
      BY <3>1, <1>2 DEF Ordered, Increasing
  <2>2. \A i \in 1..Len(left) : left[i].serial <= top
    BY <1>2 DEF Ordered, Bounded
  <2>3. QED
    BY <2>1, <2>2 DEF Increasing, Bounded
<1>5. Ordered(left, sent, cs, None, top)
  BY <1>4 DEF Ordered, Dispatched
<1>6. ASSUME NEW i \in 1..Len(left), ack # None PROVE ~(ack >= left[i].serial)
  <2>1. n + 1 \in 1..Len(events) /\ n < Len(events) /\ n + i \in 1..Len(events)
    BY <1>1, <1>2
  <2>2. events[n + 1].serial > ack
    BY <2>1, <1>6
  <2>3. CASE i = 1
    BY <2>1, <2>2, <2>3, <1>1, <1>2, <1>3, <1>6
  <2>4. CASE i > 1
    <3>1. n + 1 < n + i
      BY <2>4, <1>1
    <3>2. events[n + 1].serial < events[n + i].serial
      BY <2>1, <3>1 DEF Ordered, Increasing
    <3>3. ack \in Nat /\ events[n + 1].serial \in Nat /\ events[n + i].serial \in Nat
      BY <2>1, <1>1, <1>6
    <3>4. left[i].serial = events[n + i].serial
      BY <1>2
    <3>5. ~(ack >= events[n + i].serial)
      BY <2>2, <3>2, <3>3
    <3>6. QED
      BY <3>4, <3>5
  <2>5. QED
    BY <2>3, <2>4, <1>1
<1>7. Awaited(left, sent, cs, None)
  <2>1. SUFFICES ASSUME NEW i \in 1..Len(left)
                 PROVE  \/ \E j \in 1..Len(sent) : sent[j].serial = left[i].serial
                        \/ \E j \in 1..Len(cs) : cs[j].ack # None /\ cs[j].ack >= left[i].serial
    BY DEF Awaited
  <2>2. \/ \E j \in 1..Len(sent) : sent[j].serial = left[i].serial
        \/ \E j \in 1..Len(cs) : cs[j].ack # None /\ cs[j].ack >= left[i].serial
        \/ ack # None /\ ack >= left[i].serial
    BY <1>2 DEF Awaited
  <2>3. QED
    BY <2>2, <1>6
<1>8. QED
  BY <1>5, <1>7

\* Without events or serials to remember, nothing is awaited.
LEMMA Forgotten ==
    ASSUME NEW sent, NEW cs, NEW last, NEW events, NEW top, Ordered(events, sent, cs, last, top)
    PROVE  /\ Ordered(<<>>, sent, cs, None, top) /\ Awaited(<<>>, sent, cs, None)
           /\ Ordered(<<>>, <<>>, cs, None, top) /\ Awaited(<<>>, <<>>, cs, None)
<1>1. 1..Len(<<>>) = {}
  OBVIOUS
<1>2. QED
  BY <1>1 DEF Ordered, Awaited, Increasing, Bounded, Dispatched

\* Only the serials of the events matter.
LEMMA SameSerials ==
    ASSUME NEW events, NEW events2, NEW sent, NEW cs, NEW last, NEW top,
           Len(events2) = Len(events),
           \A i \in 1..Len(events) : events2[i].serial = events[i].serial,
           Ordered(events, sent, cs, last, top), Awaited(events, sent, cs, last)
    PROVE  Ordered(events2, sent, cs, last, top) /\ Awaited(events2, sent, cs, last)
<1>1. Increasing(events2) /\ Bounded(events2, top)
  BY DEF Ordered, Increasing, Bounded
<1>2. Ordered(events2, sent, cs, last, top)
  BY <1>1 DEF Ordered
<1>3. Awaited(events2, sent, cs, last)
  BY DEF Awaited
<1>4. QED
  BY <1>2, <1>3

LEMMA UnpositionedSerials ==
    ASSUME NEW events \in Seq(ConfigureEvent)
    PROVE  \A i \in 1..Len(events) : Unpositioned(events)[i].serial = events[i].serial
<1>1. DOMAIN events = 1..Len(events)
  OBVIOUS
<1>2. \A i \in 1..Len(events) : events[i] \in ConfigureEvent
  OBVIOUS
<1>3. Unpositioned(events) = [i \in 1..Len(events) |-> [events[i] EXCEPT !.position = FALSE]]
  BY <1>1 DEF Unpositioned
<1>4. QED
  BY <1>2, <1>3 DEF ConfigureEvent

Waiting ==
    /\ Ordered(configureEvents, wire, commits, lastAcknowledged, serial)
    /\ Awaited(configureEvents, wire, commits, lastAcknowledged)
    /\ Life(surface, client, commits) /\ Quiet

LEMMA Typed ==
    TypeOK => /\ configureEvents \in Seq(ConfigureEvent) /\ wire \in Seq(Sent)
              /\ commits \in Seq(Requested)
              /\ lastAcknowledged \in Nat \cup {None} /\ serial \in Nat
BY DEF TypeOK, Sent, Requested

LEMMA InitWaiting == Init => Waiting
<1> SUFFICES ASSUME Init PROVE Waiting
  OBVIOUS
<1>1. /\ configureEvents = <<>> /\ wire = <<>> /\ commits = <<>> /\ lastAcknowledged = None
      /\ surface = "reset" /\ client = "idle" /\ ~configureTimer
  BY DEF Init
<1>2. Len(<<>>) = 0 /\ 1..Len(<<>>) = {}
  OBVIOUS
<1>3. Ordered(<<>>, <<>>, <<>>, None, serial) /\ Awaited(<<>>, <<>>, <<>>, None)
  BY <1>2 DEF Ordered, Awaited, Increasing, Bounded, Dispatched
<1>4. Life("reset", "idle", <<>>)
  BY <1>2 DEF Life
<1>5. QED
  BY <1>1, <1>3, <1>4 DEF Waiting, Quiet

\* Requests of the compositor send nothing yet.
LEMMA RequestWaits ==
    ASSUME TypeOK, Waiting,
           UNCHANGED <<lastAcknowledged, surface, serial, wire, commits, client>>,
           surface # "reset" \/ UNCHANGED configureTimer,
           \/ UNCHANGED configureEvents
           \/ surface # "reset" /\ configureEvents' = Unpositioned(configureEvents)
    PROVE  Waiting'
<1>1. CASE UNCHANGED configureEvents
  BY <1>1 DEF Waiting, Quiet
<1>2. CASE surface # "reset" /\ configureEvents' = Unpositioned(configureEvents)
  <2>1. /\ Len(configureEvents') = Len(configureEvents)
        /\ \A i \in 1..Len(configureEvents) :
              configureEvents'[i].serial = configureEvents[i].serial
    BY <1>2, Typed, UnpositionedEvents, UnpositionedSerials
  <2>2. /\ Ordered(configureEvents', wire, commits, lastAcknowledged, serial)
        /\ Awaited(configureEvents', wire, commits, lastAcknowledged)
    BY <2>1, SameSerials DEF Waiting
  <2>3. QED
    BY <1>2, <2>2 DEF Waiting, Quiet
<1>3. QED
  BY <1>1, <1>2

LEMMA SendConfigureWaits ==
    ASSUME TypeOK, Waiting, SendConfigure
    PROVE  Waiting'
<1> DEFINE inherited == configureEvents # <<>> /\ configureEvents[Len(configureEvents)].position
           event == [serial |-> serial + 1, bounds |-> moveResizeGeometry, states |-> nextStates,
                     position |-> inherited \/ configurePosition]
           sent == [serial |-> serial + 1, size |-> moveResizeGeometry.size, states |-> nextStates]
<1>1. /\ serial' = serial + 1
      /\ configureEvents' = Append(configureEvents, event)
      /\ wire' = Append(wire, sent)
      /\ UNCHANGED <<lastAcknowledged, surface, commits, client>>
  BY DEF SendConfigure, shown, clientVars
<1>2. event \in ConfigureEvent /\ sent \in Sent
  BY DEF TypeOK, ConfigureEvent, Geometry, Sent
<1>3. event.serial = serial + 1 /\ sent.serial = serial + 1
  OBVIOUS
<1> HIDE DEF event, sent
<1>4. /\ Ordered(configureEvents', wire', commits, lastAcknowledged, serial + 1)
      /\ Awaited(configureEvents', wire', commits, lastAcknowledged)
  BY <1>1, <1>2, <1>3, Typed, SentLast DEF Waiting
<1>5. surface # "reset"
  BY DEF SendConfigure, Waiting, Quiet
<1>6. QED
  BY <1>1, <1>4, <1>5 DEF Waiting, Quiet

\* handleCommit of the first commit, with a buffer.
LEMMA HandleCommitWaits ==
    ASSUME TypeOK, Waiting, commits # <<>>, commits' = Tail(commits),
           surface \in {"initialized", "mapped"}, surface' = "mapped",
           Head(commits).size # None,
           NEW n \in 0..Len(configureEvents), NEW size, NEW changed, NEW place,
           Takes(n, Acknowledged(Head(commits))), HandleCommit(n, size, changed, place),
           UNCHANGED <<serial, wire, client>>
    PROVE  Waiting'
<1> DEFINE left == SubSeq(configureEvents, n + 1, Len(configureEvents))
           ack == Acked(commits, lastAcknowledged)
           rest == Tail(commits)
<1>1. /\ configureEvents \in Seq(ConfigureEvent) /\ wire \in Seq(Sent)
      /\ commits \in Seq(Requested) /\ lastAcknowledged \in Nat \cup {None} /\ serial \in Nat
      /\ rest \in Seq(Requested)
  BY Typed, HeadTailProperties
<1>2. Head(commits) = commits[1] /\ Acknowledged(Head(commits)) = ack
  BY <1>1 DEF Acknowledged, Acked
<1>3. Ordered(configureEvents, wire, rest, ack, serial) /\ Awaited(configureEvents, wire, rest, ack)
  BY <1>1, AppliedKept DEF Waiting
<1>4. ack \in Nat \cup {None}
  BY <1>1, AppliedKept DEF Waiting
<1>5. /\ left \in Seq(ConfigureEvent) /\ Len(left) = Len(configureEvents) - n
      /\ \A i \in 1..Len(configureEvents) - n : left[i] = configureEvents[n + i]
  BY <1>1, EventsLeft
<1>6. /\ configureEvents' = left \/ configureEvents' = Unpositioned(left)
      /\ lastAcknowledged' = None
  BY DEF HandleCommit
<1> HIDE DEF left, ack, rest
<1>7. /\ configureEvents' \in Seq(ConfigureEvent) /\ Len(configureEvents') = Len(left)
      /\ \A i \in 1..Len(left) : configureEvents'[i].serial = left[i].serial
  <2>1. /\ Unpositioned(left) \in Seq(ConfigureEvent) /\ Len(Unpositioned(left)) = Len(left)
        /\ \A i \in 1..Len(left) : Unpositioned(left)[i].serial = left[i].serial
    BY <1>5, UnpositionedEvents, UnpositionedSerials
  <2>2. CASE configureEvents' = left
    BY <1>5, <2>2
  <2>3. CASE configureEvents' = Unpositioned(left)
    BY <2>1, <2>3
  <2>4. QED
    BY <1>6, <2>2, <2>3
<1>8. \A i \in 1..Len(configureEvents) - n :
         configureEvents'[i].serial = configureEvents[n + i].serial
  BY <1>5, <1>7
<1>9. /\ ack = None => n = 0
      /\ ack # None /\ n < Len(configureEvents) => configureEvents[n + 1].serial > ack
  BY <1>2 DEF Takes
<1>10. /\ Ordered(configureEvents', wire, rest, None, serial)
       /\ Awaited(configureEvents', wire, rest, None)
  BY <1>1, <1>3, <1>4, <1>5, <1>7, <1>8, <1>9, Taken
<1>11. Life(surface', client, rest)
  BY <1>1, <1>2, LifeApplied DEF Waiting, rest
<1>12. QED
  BY <1>6, <1>10, <1>11 DEF Waiting, Quiet, rest

LEMMA ApplyCommitWaits ==
    ASSUME TypeOK, Waiting, ApplyCommit
    PROVE  Waiting'
<1> DEFINE commit == Head(commits)
           rest == Tail(commits)
<1>1. /\ commits # <<>> /\ commits' = rest
      /\ UNCHANGED <<serial, wire, client>>
  BY DEF ApplyCommit, clientVars
<1>2. /\ configureEvents \in Seq(ConfigureEvent) /\ wire \in Seq(Sent)
      /\ commits \in Seq(Requested) /\ lastAcknowledged \in Nat \cup {None} /\ serial \in Nat
      /\ commit = commits[1]
  BY <1>1, Typed, HeadTailProperties
<1>3. /\ Ordered(configureEvents, wire, rest, Acked(commits, lastAcknowledged), serial)
      /\ Awaited(configureEvents, wire, rest, Acked(commits, lastAcknowledged))
  BY <1>1, <1>2, AppliedKept DEF Waiting
<1>4. Life(surface, client, commits)
  BY DEF Waiting
<1>5. CASE CommitShown(commit)
  <2>1. PICK n \in 0..Len(configureEvents), changed \in BOOLEAN :
           Takes(n, Acknowledged(commit)) /\ HandleCommit(n, commit.size, changed, None)
    BY <1>5 DEF CommitShown
  <2>2. surface = "mapped" /\ surface' = "mapped" /\ commit.size # None
    BY <1>5 DEF CommitShown, xdg
  <2>3. QED
    BY <1>1, <2>1, <2>2, HandleCommitWaits
<1>6. CASE CommitMaps(commit)
  <2>1. PICK n \in 0..Len(configureEvents), changed \in BOOLEAN, place \in Positions \cup {None} :
           Takes(n, Acknowledged(commit)) /\ HandleCommit(n, commit.size, changed, place)
    BY <1>6 DEF CommitMaps
  <2>2. surface = "initialized" /\ surface' = "mapped" /\ commit.size # None
    BY <1>6 DEF CommitMaps
  <2>3. QED
    BY <1>1, <2>1, <2>2, HandleCommitWaits
<1>7. CASE CommitEmpty(commit)
  <2>1. /\ surface = "initialized" /\ commit.size = None /\ surface' = "initialized"
        /\ lastAcknowledged' = Acked(commits, lastAcknowledged)
        /\ UNCHANGED configureEvents
    BY <1>2, <1>7 DEF CommitEmpty, xdg, Acknowledged, Acked
  <2>2. Life(surface', client, rest)
    BY <1>1, <1>2, <1>4, <2>1, LifeApplied
  <2>3. QED
    BY <1>1, <1>3, <2>1, <2>2 DEF Waiting, Quiet
<1>8. CASE surface = "mapped" /\ commit.size = None /\ Reset
  <2>1. /\ surface' = "reset" /\ ~configureTimer' /\ configureEvents' = <<>>
        /\ lastAcknowledged' = None
    BY <1>8 DEF Reset
  <2>2. Ordered(<<>>, wire, rest, None, serial) /\ Awaited(<<>>, wire, rest, None)
    BY <1>3, Forgotten
  <2>3. Life(surface', client, rest)
    BY <1>1, <1>2, <1>4, <1>8, <2>1, LifeApplied
  <2>4. QED
    BY <1>1, <2>1, <2>2, <2>3 DEF Waiting, Quiet
<1>9. CASE surface = "reset" /\ \E maximized \in BOOLEAN : Initialize(maximized)
  <2>1. surface' = "initialized" /\ UNCHANGED <<configureEvents, lastAcknowledged>>
    BY <1>9 DEF Initialize
  <2>2. configureEvents = <<>> /\ lastAcknowledged = None
    BY <1>9 DEF Waiting, Quiet
  <2>3. Ordered(<<>>, wire, rest, None, serial) /\ Awaited(<<>>, wire, rest, None)
    BY <1>3, Forgotten
  <2>4. Life(surface', client, rest)
    BY <1>1, <1>2, <1>4, <1>9, <2>1, LifeApplied
  <2>5. QED
    BY <1>1, <2>1, <2>2, <2>3, <2>4 DEF Waiting, Quiet
<1>10. QED
  BY <1>5, <1>6, <1>7, <1>8, <1>9 DEF ApplyCommit

\* The client answers, or commits without an answer.
LEMMA ClientWaits ==
    ASSUME TypeOK, Waiting, UNCHANGED <<requested, shown, xdg, configureEvents, serial>>,
           NEW size \in Sizes \cup {None}, NEW n \in 0..Len(wire), NEW ack \in Nat \cup {None},
           IF n = 0 THEN ack = None ELSE ack = wire[n].serial,
           Commit(size, ack), wire' = SubSeq(wire, n + 1, Len(wire)),
           \/ client \in {"waiting", "configured"} /\ size = None /\ client' = "configured"
           \/ client # "idle" /\ size # None /\ client' = "shown"
           \/ client = "shown" /\ size = None /\ client' = "idle"
    PROVE  Waiting'
<1> DEFINE c == [size |-> size, ack |-> ack]
<1>1. /\ configureEvents \in Seq(ConfigureEvent) /\ wire \in Seq(Sent)
      /\ commits \in Seq(Requested) /\ lastAcknowledged \in Nat \cup {None} /\ serial \in Nat
  BY Typed
<1>2. UNCHANGED <<configureTimer, lastAcknowledged, surface, configureEvents, serial>>
  BY DEF requested, shown, xdg
<1>3. c \in Requested /\ c.size = size /\ c.ack = ack
  BY DEF Requested
<1>4. commits' = Append(commits, c)
  BY DEF Commit
<1> HIDE DEF c
<1>5. /\ Ordered(configureEvents, wire', commits', lastAcknowledged, serial)
      /\ Awaited(configureEvents, wire', commits', lastAcknowledged)
  BY <1>1, <1>3, <1>4, Answered DEF Waiting
<1>6. Life(surface, client', commits')
  BY <1>1, <1>3, <1>4, LifeCommitted DEF Waiting
<1>7. QED
  BY <1>2, <1>5, <1>6 DEF Waiting, Quiet

LEMMA InitialCommitWaits ==
    ASSUME TypeOK, Waiting, InitialCommit
    PROVE  Waiting'
<1> DEFINE c == [size |-> None, ack |-> None]
<1>1. /\ client = "idle" /\ commits = <<>> /\ client' = "waiting" /\ wire' = <<>>
      /\ commits' = Append(commits, c) /\ commits \in Seq(Requested)
      /\ UNCHANGED <<configureTimer, lastAcknowledged, surface, configureEvents, serial>>
  BY Typed DEF InitialCommit, Commit, requested, shown, xdg
<1>2. c \in Requested /\ c.size = None /\ c.ack = None
  BY DEF Requested
<1> HIDE DEF c
<1>3. Life(surface, client', commits')
  BY <1>1, <1>2, LifeCommitted DEF Waiting
<1>4. surface = "reset"
  <2>1. Len(commits) = 0
    BY <1>1
  <2>2. QED
    BY <1>1, <2>1 DEF Waiting, Life
<1>5. configureEvents = <<>> /\ lastAcknowledged = None
  BY <1>4 DEF Waiting, Quiet
<1>6. Len(commits') = 1 /\ commits'[1] = c
  BY <1>1
<1>7. Ordered(<<>>, <<>>, commits', None, serial) /\ Awaited(<<>>, <<>>, commits', None)
  <2>1. \A i \in 1..Len(commits') : commits'[i].ack = None
    BY <1>2, <1>6
  <2>2. 1..Len(<<>>) = {}
    OBVIOUS
  <2>3. QED
    BY <2>1, <2>2 DEF Ordered, Awaited, Increasing, Bounded, Dispatched
<1>8. QED
  BY <1>1, <1>3, <1>4, <1>5, <1>7 DEF Waiting, Quiet

LEMMA StepWaits ==
    ASSUME TypeOK, Waiting, [Next]_vars
    PROVE  Waiting'
<1>1. ASSUME NEW pos \in Positions, Move(pos) PROVE Waiting'
  BY <1>1, RequestWaits DEF Move, Request, xdg, clientVars
<1>2. ASSUME NEW rect, MoveResize(rect) PROVE Waiting'
  BY <1>2, RequestWaits DEF MoveResize, Request, xdg, clientVars
<1>3. ASSUME NEW maximized \in BOOLEAN, Maximize(maximized) PROVE Waiting'
  BY <1>3, RequestWaits DEF Maximize, Request, xdg, clientVars
<1>4. CASE ScheduleConfigure
  BY <1>4, RequestWaits DEF ScheduleConfigure, Request, shown, xdg, clientVars
<1>5. CASE SendConfigure
  BY <1>5, SendConfigureWaits
<1>6. CASE ApplyCommit
  BY <1>6, ApplyCommitWaits
<1>7. CASE InitialCommit
  BY <1>7, InitialCommitWaits
<1>8. /\ Len(wire) \in Nat /\ 0 \in 0..Len(wire) /\ DOMAIN wire = 1..Len(wire)
      /\ wire = SubSeq(wire, 0 + 1, Len(wire)) /\ None \notin Sizes
      /\ \A i \in 1..Len(wire) : wire[i].serial \in Nat
  <2>1. wire \in Seq(Sent)
    BY Typed
  <2>2. \A i \in 1..Len(wire) : wire[i] \in Sent
    BY <2>1, ElementOfSeq
  <2>3. \A i \in 1..Len(wire) : wire[i].serial \in Nat
    BY <2>2 DEF Sent
  <2>4. QED
    BY <2>1, <2>3, GeometryAssumption
<1>9. ASSUME NEW n \in DOMAIN wire, NEW size \in Sizes \cup {None}, Answer(n, size)
      PROVE  Waiting'
  <2>1. n \in 1..Len(wire) /\ n # 0 /\ wire[n].serial \in Nat \cup {None}
    BY <1>8
  <2>2. n \in 0..Len(wire)
    BY <1>8, <2>1
  <2>3. \/ client \in {"waiting", "configured"} /\ size = None /\ client' = "configured"
        \/ client # "idle" /\ size # None /\ client' = "shown"
    BY <1>9 DEF Answer, Waiting, Life
  <2>4. /\ Commit(size, wire[n].serial) /\ wire' = SubSeq(wire, n + 1, Len(wire))
        /\ UNCHANGED <<requested, shown, xdg, configureEvents, serial>>
    BY <1>9 DEF Answer
  <2>5. QED
    BY <2>1, <2>2, <2>3, <2>4, ClientWaits
<1>10. ASSUME NEW size \in Sizes, Frame(size) PROVE Waiting'
  <2>1. client # "idle" /\ size # None /\ client' = "shown" /\ size \in Sizes \cup {None}
    BY <1>8, <1>10 DEF Frame
  <2>2. /\ Commit(size, None) /\ wire' = SubSeq(wire, 0 + 1, Len(wire))
        /\ UNCHANGED <<requested, shown, xdg, configureEvents, serial>>
    BY <1>8, <1>10 DEF Frame
  <2>3. QED
    BY <1>8, <2>1, <2>2, ClientWaits
<1>11. CASE Unmap
  <2>1. /\ client = "shown" /\ client' = "idle"
        /\ Commit(None, None) /\ wire' = SubSeq(wire, 0 + 1, Len(wire))
        /\ UNCHANGED <<requested, shown, xdg, configureEvents, serial>>
    BY <1>8, <1>11 DEF Unmap
  <2>2. QED
    BY <1>8, <2>1, ClientWaits
<1>12. CASE UNCHANGED vars
  BY <1>12, RequestWaits DEF vars, requested, shown, xdg, clientVars
<1>13. QED
  BY <1>1, <1>2, <1>3, <1>4, <1>5, <1>6, <1>7, <1>9, <1>10, <1>11, <1>12 DEF Next, Answers

\* No configure event is left behind: the client will still dispatch it, or it has
\* acknowledged it or a later one in a commit that handleCommit will see, also when the
\* commits are delayed or the window is unmapped and shown again (sendConfigure,
\* handleCommit, XdgSurfaceInterfacePrivate::apply and reset).
THEOREM EventsAwaitedHolds == Spec => []EventsAwaited
<1>1. XdgInv => TypeOK
  BY DEF XdgInv
<1>2. TypeOK /\ Waiting /\ [Next]_vars => Waiting'
  BY StepWaits
<1>3. TypeOK /\ Waiting => EventsAwaited
  <2>1. SUFFICES ASSUME TypeOK, Waiting PROVE EventsAwaited
    OBVIOUS
  <2>2. /\ DOMAIN configureEvents = 1..Len(configureEvents)
        /\ DOMAIN wire = 1..Len(wire) /\ DOMAIN commits = 1..Len(commits)
    BY <2>1, Typed
  <2>3. QED
    BY <2>1, <2>2 DEF Waiting, Awaited, EventsAwaited
<1>4. QED
  BY InvariantHolds, InitWaiting, <1>1, <1>2, <1>3, PTL DEF Spec

==============================================================================
