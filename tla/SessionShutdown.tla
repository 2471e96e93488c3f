--------------------------- MODULE SessionShutdown ---------------------------
(***************************************************************************)
(* The end of a session: ksmserver asks its clients to save themselves,    *)
(* lets them talk to the user one at a time, serves a second phase, tells  *)
(* them to die and answers plasma-shutdown, which then has KWin close the  *)
(* Wayland windows and ends the session or, if the user objects, resets    *)
(* the session manager.  A client may cancel; a timer gives up on clients  *)
(* that do not react; checkpoints save the session without ending it.      *)
(*                                                                         *)
(* ksmserver is single threaded: a step is one message of a client, one    *)
(* D-Bus call or one timer.  Messages from clients take time, so they may  *)
(* arrive after the server has changed its mind; what the server sends is  *)
(* seen at once, which loses no order of events since a client that reacts *)
(* late can as well have its answer delivered late.                        *)
(***************************************************************************)
EXTENDS Naturals, Sequences, FiniteSets

CONSTANTS
    Clients,         (* X session clients                                   *)
    Phase2Clients,   (* those that ask for a second phase                   *)
    Late,            (* those that connect only after the start             *)
    None,            (* nullptr                                             *)
    MayRefuse,       (* whether a Wayland window may refuse to be closed    *)
    MayRestore,      (* whether the session starts by restoring another     *)
    Leftovers,       (* whether executions go on once a logout is abandoned *)
                     (* with a part of it still to come that the next one   *)
                     (* is not meant to meet, see Abandon                   *)
    MaxRequests      (* bound: calls of restore-, close-, saveCurrentSession *)

ASSUME ClientsAssumption == None \notin Clients /\ Late \subseteq Clients /\ Phase2Clients \subseteq Clients
ASSUME BoundsAssumption ==
    /\ MayRefuse \in BOOLEAN /\ MayRestore \in BOOLEAN /\ Leftovers \in BOOLEAN
    /\ MaxRequests \in Nat

VARIABLES
    state,
    clients,           \* the connected clients
    done,              \* clients with saveYourselfDone
    pending,           \* clients with pendingInteraction
    phase2,            \* clients with waitForPhase2
    interacting,       \* clientInteracting
    timer,             \* protectionTimer.isActive()
    calls,             \* single shots and signals that are still to come
    waiting,           \* callers of closeSession that have no answer yet
    closing,           \* logouts of plasma-shutdown that wait for KWin to close windows
    over,              \* plasma-shutdown ends the session
    todo,              \* saves each client has been asked for, unanswered
    stage,             \* how far it is with the first of them
    out,               \* its messages on their way to the server
    requests, fresh,                      \* bounds
    asked, answered, gaveUp, unready,     \* history of this logout, see Ask
    stale,             \* history: a logout was abandoned with parts of it to come
    outlived           \* history: quit timers that go on after their logout

flags == <<done, pending, phase2>>
callers == <<waiting, closing, over>>
client == <<todo, stage, out>>
bounds == <<requests, fresh>>
history == <<asked, answered, gaveUp, unready, stale, outlived>>
vars == <<state, clients, flags, interacting, timer, calls, callers, client,
          bounds, history>>

ShuttingDown == {"Shutdown", "Checkpoint", "Killing", "WaitingForKNotify"}
Saving == {"Shutdown", "Checkpoint"}

\* retry: performLogout after a second.  closed: the exit notification closes.
\* notify, quit: the timers that stop waiting for it and for the clients.
\* restored: KWin has loaded the session to restore.
CallKinds == {"retry", "closed", "notify", "quit", "restored"}

Called(kind) == [calls EXCEPT ![kind] = @ - 1]
Plus(f, kinds) == [k \in CallKinds |-> IF k \in kinds THEN f[k] + 1 ELSE f[k]]

------------------------------------------------------------------------------
(* What the server does *)

\* SmsSaveYourself to all, after resetState; who still owes an earlier answer is
\* noted, as that answer cannot be told from the one to this request.
Ask(kind) ==
    /\ done' = done \ clients
    /\ pending' = pending \ clients
    /\ phase2' = phase2 \ clients
    /\ todo' = [c \in Clients |-> IF c \in clients THEN Append(todo[c], kind) ELSE todo[c]]
    /\ asked' = IF kind = "shutdown" THEN clients ELSE {}
    /\ answered' = {} /\ gaveUp' = {}
    /\ UNCHANGED <<stale, outlived>>
    /\ unready' = {c \in clients : todo[c] # <<>> \/ out[c] # <<>>}

\* The exit notification is shown, and a timer does not trust it to close.
Notified(f) == Plus(f, {"closed", "notify"})

\* Of the clients cs that are ready, those that get a second phase; and a mutant, in
\* which nobody does.
NoSecondPhase(cs, d) == {}
SecondPhase(cs, d) == cs \ d

\* The state after the last save; and a mutant, in which the logout goes on as before.
SavedStill == IF state = "Checkpoint" THEN "Idle" ELSE state
Saved == IF state = "Checkpoint" THEN "Idle" ELSE "WaitingForKNotify"

\* completeShutdownOrCheckpoint with clients cs, of which d have saved and w wait
\* for phase 2; the clients in granted have just been sent Interact.
Complete(cs, d, w, granted) ==
    LET ready == state \in Saving /\ cs \subseteq d \cup w
        second == IF ready THEN SecondPhase(cs, d) ELSE {}
        finished == ready /\ second = {}
    IN  /\ done' = d
        /\ phase2' = w \ second
        /\ stage' = [c \in Clients |->
              CASE c \notin cs -> "saving"
                [] c \in second /\ stage[c] = "phase2asked" -> "phase2"
                [] c \in granted /\ stage[c] = "asked" -> "talking"
                [] OTHER -> stage[c]]
        /\ state' = IF finished THEN Saved ELSE state
        /\ calls' = IF finished /\ state = "Shutdown" THEN Notified(calls) ELSE calls

\* handlePendingInteractions, of the clients in p: one of them is sent Interact.
HandlePending(p, cs) ==
    IF p \cap cs = {}
    THEN interacting' = None /\ timer' = TRUE /\ pending' = p
    ELSE \E c \in p \cap cs : interacting' = c /\ timer' = FALSE /\ pending' = p \ {c}

\* Who that is.
Granted == {interacting'} \ {interacting, None}

\* The logout is given up.  Nothing stops its timers, its notification and KWin's
\* answer to plasma-shutdown, and no client takes back a request it has sent.  The
\* next logout meets the timers that stop waiting; a notification that closes, an
\* answer of KWin, a request to interact and the retry of performLogout, which starts
\* a logout that nobody has asked for, count as parts of the old one.
Abandon ==
    /\ outlived' = calls["quit"]
    /\ stale' = \/ stale \/ closing' > 0 \/ calls["closed"] > 0 \/ calls["retry"] > 0
                \/ \E c \in Clients : \E i \in DOMAIN out[c] : out[c][i] = "interactRequest"

\* Q_EMIT logoutFinished, which answers all callers of closeSession.
LogoutFinished(closed) ==
    /\ waiting' = 0
    /\ closing' = IF closed THEN closing + waiting ELSE closing
    /\ UNCHANGED over

\* performLogout, with the calls f still to come.
PerformLogout(f) ==
    IF state \in ShuttingDown
    THEN calls' = f /\ UNCHANGED <<state, flags, timer, todo, history>>
    ELSE /\ Ask("shutdown")
         /\ timer' = TRUE
         /\ state' = IF clients = {} THEN "WaitingForKNotify" ELSE "Shutdown"
         /\ LET g == IF state = "Restoring" THEN Plus(f, {"retry"}) ELSE f
            IN  calls' = IF clients = {} THEN Notified(g) ELSE g

\* closeSession, called by plasma-shutdown.
CloseSession ==
    /\ requests < MaxRequests
    /\ requests' = requests + 1
    /\ waiting' = waiting + 1
    /\ PerformLogout(calls)
    /\ UNCHANGED <<clients, interacting, closing, over, stage, out, fresh>>

\* The timer of a performLogout that came while the session was restored.
RetryLogout ==
    /\ calls["retry"] > 0
    /\ PerformLogout(Called("retry"))
    /\ UNCHANGED <<clients, interacting, callers, stage, out, bounds>>

SaveCurrentSession ==
    /\ requests < MaxRequests /\ state = "Idle"
    /\ requests' = requests + 1
    /\ Ask("checkpoint")
    /\ state' = IF clients = {} THEN "Idle" ELSE "Checkpoint"
    /\ UNCHANGED <<clients, interacting, timer, calls, callers, stage, out,
                   fresh>>

------------------------------------------------------------------------------
(* Messages of the clients *)

\* The next message of client c is m.
Receive(c, m) ==
    /\ c \in clients /\ out[c] # <<>> /\ Head(out[c]) = m
    /\ out' = [out EXCEPT ![c] = Tail(@)]

\* saveYourselfDone.  One that comes after the end of a save is only discarded.
SaveYourselfDone(c) ==
    /\ Receive(c, "saveYourselfDone")
    /\ IF state = "Idle"
       THEN UNCHANGED <<state, done, phase2, timer, calls, stage>>
       ELSE Complete(clients, done \cup {c}, phase2, {}) /\ timer' = TRUE
    /\ UNCHANGED <<clients, pending, interacting, callers, todo, bounds, history>>

\* A mutant of InteractRequest: a client may talk although another one does.
InteractRequestAtOnce(c) ==
    /\ Receive(c, "interactRequest")
    /\ HandlePending(IF state = "Shutdown" THEN pending \cup {c} ELSE pending, clients)
    /\ LET talks == Granted \cup (IF state = "Shutdown" THEN {} ELSE {c})
       IN  stage' = [d \in Clients |-> IF d \in talks /\ stage[d] = "asked"
                                       THEN "talking" ELSE stage[d]]
    /\ UNCHANGED <<state, clients, done, phase2, calls, callers, todo, bounds, history>>

\* interactRequest.  Outside a shutdown everybody may talk at once.
InteractRequest(c) ==
    /\ Receive(c, "interactRequest")
    /\ LET p == IF state = "Shutdown" THEN pending \cup {c} ELSE pending
       IN  IF interacting # None
           THEN pending' = p /\ UNCHANGED <<interacting, timer>>
           ELSE HandlePending(p, clients)
    /\ LET talks == Granted \cup (IF state = "Shutdown" THEN {} ELSE {c})
       IN  stage' = [d \in Clients |-> IF d \in talks /\ stage[d] = "asked"
                                       THEN "talking" ELSE stage[d]]
    /\ UNCHANGED <<state, clients, done, phase2, calls, callers, todo, bounds, history>>

\* A mutant of InteractDone: the next interaction is not started.
InteractDoneOnly(c) ==
    /\ Receive(c, "interactDone")
    /\ interacting' = IF interacting = c THEN None ELSE interacting
    /\ UNCHANGED <<state, clients, flags, timer, stage, calls, callers, todo, bounds, history>>

\* interactDone of a client that does not cancel.
InteractDone(c) ==
    /\ Receive(c, "interactDone")
    /\ IF interacting = c
       THEN HandlePending(pending, clients)
       ELSE UNCHANGED <<pending, interacting, timer>>
    /\ stage' = [d \in Clients |-> IF d \in Granted /\ stage[d] = "asked"
                                   THEN "talking" ELSE stage[d]]
    /\ UNCHANGED <<state, clients, done, phase2, calls, callers, todo, bounds, history>>

\* A mutant of CancelShutdown: callers are told that the session is closed.
CancelShutdownAsClosed(c) ==
    /\ Receive(c, "cancel") /\ interacting = c
    /\ interacting' = None
    /\ state' = "Idle"
    /\ LogoutFinished(TRUE)
    /\ UNCHANGED <<clients, flags, timer, calls, todo, stage, bounds, history>>

\* interactDone of a client that cancels, and cancelShutdown.
CancelShutdown(c) ==
    /\ Receive(c, "cancel")
    /\ IF interacting # c
       THEN UNCHANGED <<state, flags, interacting, callers, todo, stage, history>>
       ELSE /\ interacting' = None
            /\ done' = done \ clients
            /\ pending' = pending \ clients
            /\ phase2' = phase2 \ clients
            /\ state' = "Idle"
            /\ todo' = [d \in Clients |-> [i \in 1..Len(todo[d]) |->
                  IF todo[d][i] = "shutdown" THEN "aborted" ELSE todo[d][i]]]
            /\ stage' = [d \in Clients |-> IF todo[d] # <<>> /\ Head(todo[d]) = "shutdown"
                                           THEN "saving" ELSE stage[d]]
            /\ LogoutFinished(FALSE)
            /\ Abandon
            /\ asked' = {} /\ answered' = {} /\ gaveUp' = {} /\ unready' = {}
    /\ UNCHANGED <<clients, timer, calls, bounds>>

Phase2Request(c) ==
    /\ Receive(c, "phase2Request")
    /\ Complete(clients, done, phase2 \cup {c}, {})
    /\ UNCHANGED <<clients, pending, interacting, timer, callers, todo, bounds, history>>

------------------------------------------------------------------------------
(* Connections *)

\* newClient and registerClient, which asks for a first save.
NewClient(c) ==
    /\ c \in fresh /\ state # "Killing"
    /\ fresh' = fresh \ {c}
    /\ clients' = clients \cup {c}
    /\ todo' = [todo EXCEPT ![c] = <<"local">>]
    /\ UNCHANGED <<state, flags, interacting, timer, calls, callers, stage, out,
                   requests, history>>

\* Mutant: the server goes on waiting for the interaction of the client.
DeleteClientInteracting(c) ==
    /\ c \in clients /\ out[c] = <<>>
    /\ clients' = clients \ {c}
    /\ pending' = pending \ {c}
    /\ Complete(clients', done \ {c}, phase2 \ {c}, {})
    /\ IF state = "Killing" /\ clients' = {}
       THEN LogoutFinished(TRUE) ELSE UNCHANGED callers
    /\ todo' = [todo EXCEPT ![c] = <<>>]
    /\ asked' = asked \ {c} /\ answered' = answered \ {c} /\ gaveUp' = gaveUp \ {c}
    /\ unready' = unready \ {c}
    /\ UNCHANGED <<interacting, timer, out, bounds, stale, outlived>>

\* deleteClient, when the client has exited or its connection broke.
DeleteClient(c) ==
    /\ c \in clients /\ out[c] = <<>>
    /\ clients' = clients \ {c}
    /\ IF interacting = c
       THEN HandlePending(pending \ {c}, clients')
       ELSE pending' = pending \ {c} /\ UNCHANGED <<interacting, timer>>
    /\ Complete(clients', done \ {c}, phase2 \ {c}, Granted)
    /\ IF state = "Killing" /\ clients' = {}
       THEN LogoutFinished(TRUE) ELSE UNCHANGED callers
    /\ todo' = [todo EXCEPT ![c] = <<>>]
    /\ asked' = asked \ {c} /\ answered' = answered \ {c} /\ gaveUp' = gaveUp \ {c}
    /\ unready' = unready \ {c}
    /\ UNCHANGED <<out, bounds, stale, outlived>>

------------------------------------------------------------------------------
(* Timers *)

ProtectionTimeout ==
    /\ timer
    /\ IF state \notin Saving \/ interacting # None
       THEN /\ timer' = FALSE
            /\ UNCHANGED <<state, done, phase2, calls, stage, gaveUp>>
       ELSE /\ timer' = TRUE
            /\ Complete(clients, done \cup (clients \ phase2), phase2, {})
            /\ gaveUp' = gaveUp \cup (clients \ (done \cup phase2))
    /\ UNCHANGED <<clients, pending, interacting, callers, todo, out, bounds,
                   asked, answered, unready, stale, outlived>>

\* startKilling, with the calls f still to come.
StartKilling(f) ==
    IF state = "Killing"
    THEN calls' = f /\ UNCHANGED <<state, callers>>
    ELSE /\ state' = "Killing"
         /\ calls' = Plus(f, {"quit"})
         /\ IF clients = {} THEN LogoutFinished(TRUE) ELSE UNCHANGED callers

\* The exit notification closes, by itself or with its sound.
NotificationClosed ==
    /\ calls["closed"] > 0
    /\ StartKilling(Called("closed"))
    /\ UNCHANGED <<clients, flags, interacting, timer, client, bounds, history>>

\* "if sound is not working for some reason the closed() signal never happens"
NotificationTimeout ==
    /\ calls["notify"] > 0
    /\ IF state = "WaitingForKNotify"
       THEN StartKilling(Called("notify"))
       ELSE calls' = Called("notify") /\ UNCHANGED <<state, callers>>
    /\ UNCHANGED <<clients, flags, interacting, timer, client, bounds, history>>

\* timeoutQuit, by the timer that was started first.
TimeoutQuit ==
    /\ calls["quit"] > 0
    /\ calls' = Called("quit")
    /\ outlived' = IF outlived > 0 THEN outlived - 1 ELSE 0
    /\ LogoutFinished(TRUE)
    /\ UNCHANGED <<state, clients, flags, interacting, timer, client, bounds,
                   asked, answered, gaveUp, unready, stale>>

------------------------------------------------------------------------------
(* plasma-shutdown and startplasma *)

\* ksmServerComplete hears from KWin: all Wayland windows are closed, or the user
\* kept one of them and resetLogout makes the session manager idle again.
WindowsClosed ==
    /\ closing > 0
    /\ closing' = closing - 1
    /\ over' = TRUE
    /\ UNCHANGED <<state, clients, flags, interacting, timer, calls, waiting, client,
                   bounds, history>>

ResetLogout ==
    /\ MayRefuse /\ closing > 0
    /\ closing' = closing - 1
    /\ state' = "Idle"
    /\ Abandon
    /\ UNCHANGED <<clients, flags, interacting, timer, calls, waiting, over, client,
                   bounds, asked, answered, gaveUp, unready>>

\* restoreSession, called once, when the session starts.
RestoreSession ==
    /\ MayRestore /\ requests = 0 /\ state = "Idle"
    /\ requests' = 1
    /\ state' = "Restoring"
    /\ calls' = Plus(calls, {"restored"})
    /\ UNCHANGED <<clients, flags, interacting, timer, callers, client, fresh,
                   history>>

TryRestore ==
    /\ calls["restored"] > 0
    /\ calls' = Called("restored")
    /\ state' = IF state = "Restoring" THEN "Idle" ELSE state
    /\ UNCHANGED <<clients, flags, interacting, timer, callers, client, bounds, history>>

------------------------------------------------------------------------------
(* The clients, as far as the protocol binds them: what a client sends while it *)
(* saves, from the request at the head of its todo list to its saveYourselfDone *)

Emit(c, m) == out' = [out EXCEPT ![c] = Append(@, m)]

\* Client c works on a request of one of the given kinds and is at one of the stages.
Working(c, kinds, stages) ==
    c \in clients /\ todo[c] # <<>> /\ Head(todo[c]) \in kinds /\ stage[c] \in stages

Advance(c, next, m) ==
    /\ stage' = [stage EXCEPT ![c] = next]
    /\ Emit(c, m)
    /\ UNCHANGED <<state, clients, flags, interacting, timer, calls, callers, todo,
                   bounds, history>>

RequestInteraction(c) ==
    Working(c, {"shutdown"}, {"saving"}) /\ Advance(c, "asked", "interactRequest")

FinishInteraction(c) ==
    /\ Working(c, {"shutdown"}, {"talking"})
    /\ \/ Advance(c, "talked", "interactDone")
       \/ Advance(c, "talked", "cancel")

RequestPhase2(c) ==
    /\ c \in Phase2Clients
    /\ Working(c, {"shutdown", "checkpoint"}, {"saving", "talked"})
    /\ Advance(c, "phase2asked", "phase2Request")

FinishSaving(c) ==
    /\ Working(c, {"shutdown", "checkpoint", "local", "aborted"}, {"saving", "talked", "phase2"})
    /\ todo' = [todo EXCEPT ![c] = Tail(@)]
    /\ stage' = [stage EXCEPT ![c] = "saving"]
    /\ Emit(c, "saveYourselfDone")
    /\ answered' = IF Head(todo[c]) = "shutdown" THEN answered \cup {c} ELSE answered
    /\ UNCHANGED <<state, clients, flags, interacting, timer, calls, callers, bounds,
                   asked, gaveUp, unready, stale, outlived>>

------------------------------------------------------------------------------

Init ==
    /\ state = "Idle"
    /\ clients = Clients \ Late /\ fresh = Late
    /\ done = {} /\ pending = {} /\ phase2 = {}
    /\ interacting = None
    /\ timer = FALSE
    /\ calls = [k \in CallKinds |-> 0]
    /\ waiting = 0 /\ closing = 0 /\ over = FALSE
    /\ todo = [c \in Clients |-> <<>>]
    /\ stage = [c \in Clients |-> "saving"]
    /\ out = [c \in Clients |-> <<>>]
    /\ requests = 0
    /\ asked = {} /\ answered = {} /\ gaveUp = {} /\ unready = {}
    /\ stale = FALSE /\ outlived = 0

HandleMessage(c) ==
    \/ SaveYourselfDone(c) \/ InteractRequest(c) \/ InteractDone(c)
    \/ CancelShutdown(c) \/ Phase2Request(c)

ClientStep(c) ==
    \/ RequestInteraction(c) \/ FinishInteraction(c) \/ RequestPhase2(c) \/ FinishSaving(c)

Callback ==
    \/ RetryLogout \/ ProtectionTimeout \/ NotificationClosed \/ NotificationTimeout
    \/ TimeoutQuit \/ TryRestore

Running == ~over /\ (Leftovers \/ ~stale)

Next ==
    /\ Running
    /\ \/ CloseSession \/ SaveCurrentSession \/ RestoreSession
       \/ Callback
       \/ WindowsClosed \/ ResetLogout
       \/ \E c \in Clients :
             \/ HandleMessage(c) \/ ClientStep(c) \/ NewClient(c) \/ DeleteClient(c)

Spec == Init /\ [][Next]_vars

\* Messages and timers are served by the event loop; KWin answers; and whoever was
\* asked by a client with a dialog answers the dialog.  Nothing makes a client save.
Fairness ==
    /\ WF_vars(Running /\ RetryLogout) /\ WF_vars(Running /\ ProtectionTimeout)
    /\ WF_vars(Running /\ NotificationTimeout) /\ WF_vars(Running /\ TimeoutQuit)
    /\ WF_vars(Running /\ TryRestore)
    /\ WF_vars(Running /\ (WindowsClosed \/ ResetLogout))
    /\ \A c \in Clients : /\ WF_vars(Running /\ HandleMessage(c))
                          /\ WF_vars(Running /\ FinishInteraction(c))

FairSpec == Spec /\ Fairness

------------------------------------------------------------------------------
(* Properties *)

\* clientInteracting never points to a client that deleteClient has deleted.
InteractingConnected == interacting \in clients \cup {None}

\* While clients save for a logout, a client that was told to go ahead with its dialog
\* is the one the server waits for: dialogs are shown one at a time
\* (handlePendingInteractions), and none of them is cut short by the protection timer.
\* Clients that are still busy with an older request are not bound by this.
OneDialog ==
    state = "Shutdown" =>
        \A c \in asked \ unready : stage[c] = "talking" => interacting = c

\* Clients are told to die (startKilling) only when each of those that performLogout
\* asked to save itself has really saved, was given up by protectionTimeout, or still
\* owed the answer to an older request, which the server takes for this one.
SavedBeforeKilled ==
    [][state' = "Killing" /\ state # "Killing" =>
          asked \subseteq answered \cup gaveUp \cup unready]_vars

\* Clients are told to die only at the end of a logout that nobody has cancelled.
KillOnlyAfterSaving ==
    [][state' = "Killing" /\ state # "Killing" => state = "WaitingForKNotify"]_vars

\* plasma-shutdown is told that the session is closed (killingCompleted, "shutdown is
\* fully complete") only once the clients have been told to die; or by a quit timer
\* that startKilling has started for an earlier logout and that nobody stopped when
\* the user kept a window open or a client cancelled, and by no such timer twice.
ClosedWhenComplete ==
    [][closing' > closing => state' = "Killing" \/ outlived' < outlived]_vars

\* Whoever asked for a logout that has begun is answered, although no client has to
\* react: the protection timer, the notification timer and the quit timer see to it.
LogoutEnds == (state = "Shutdown" /\ waiting > 0) ~> (waiting = 0 \/ ~Running)
=============================================================================
