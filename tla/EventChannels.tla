---------------------------- MODULE EventChannels ----------------------------
(***************************************************************************)
(* What the threads of a Wayland client may take for granted: every event  *)
(* queue is a channel of its own from the server.  A queue's events are    *)
(* handled one by one in the order the server sent them, none twice, none  *)
(* by a queue it was not sent to, and none that is not for a live object.  *)
(* That all channels share one socket, which any thread may read for all,  *)
(* is not visible here.                                                    *)
(***************************************************************************)
EXTENDS Naturals, Sequences

CONSTANTS
    Threads,   (* threads, each with an event queue of its own              *)
    Display,   (* the queue of the display's own events, shared by all      *)
    None       (* no event                                                  *)

VARIABLES
    channel,   \* events sent and not yet handled or discarded, per queue
    hand,      \* the event each thread is handling
    dead       \* objects the client has destroyed

vars == <<channel, hand, dead>>

Queues == Threads \cup {Display}

Init ==
    /\ channel = [q \in Queues |-> <<>>]
    /\ hand = [t \in Threads |-> None]
    /\ dead = {}

\* The server sends an event.
Send ==
    /\ \E q \in Queues :
          /\ Len(channel'[q]) = Len(channel[q]) + 1
          /\ channel' = [channel EXCEPT ![q] = Append(@, channel'[q][Len(@) + 1])]
    /\ UNCHANGED <<hand, dead>>

\* Events of destroyed objects may go at any time: what a channel becomes when
\* some of them do.
Trimmed(q) ==
    LET stale == {channel[q][i] : i \in
                    {j \in 1..Len(channel[q]) : channel[q][j].proxy \in dead}}
    IN  {SelectSeq(channel[q], LAMBDA e : e \notin D) : D \in SUBSET stale}

Discard ==
    /\ \A q \in Queues : channel'[q] \in Trimmed(q)
    /\ DOMAIN channel' = Queues
    /\ UNCHANGED <<hand, dead>>

\* A thread is done with its event, and goes on to the next of its own queue or
\* of the display's.
Handle(t) ==
    /\ \/ /\ hand' = [hand EXCEPT ![t] = None]
          /\ channel' = [channel EXCEPT ![t] = channel'[t]]
          /\ channel'[t] \in Trimmed(t)
       \/ \E q \in {t, Display} : \E rest \in Trimmed(q) :
             /\ rest # <<>> /\ Head(rest).proxy \notin dead
             /\ hand' = [hand EXCEPT ![t] = Head(rest)]
             /\ channel' = [channel EXCEPT ![q] = Tail(rest)]
    /\ UNCHANGED dead

\* The client destroys an object.
Destroy ==
    /\ dead \subseteq dead'
    /\ UNCHANGED <<channel, hand>>

Next == Send \/ Discard \/ (\E t \in Threads : Handle(t)) \/ Destroy

Spec == Init /\ [][Next]_vars
=============================================================================
