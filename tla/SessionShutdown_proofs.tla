------------------------ MODULE SessionShutdown_proofs ------------------------
(***************************************************************************)
(* Proofs about the end of a session, for every set of clients and every    *)
(* number of requests: clientInteracting never dangles, one client at a     *)
(* time talks to the user, and the session is only reported closed while    *)
(* clients are being killed or by a quit timer of an earlier killing; and,  *)
(* in executions that end when a logout is abandoned with parts of it still *)
(* to come, clients are only killed after they were served, each that was   *)
(* told to die has saved or was given up.                                   *)
(***************************************************************************)
EXTENDS SessionShutdown, SequenceTheorems, TLAPS

\* The notification of a logout that is still to close finds its state as it expects it.
CallbacksExpected ==
    ~stale => (calls["closed"] > 0 => state \in {"WaitingForKNotify", "Killing"})

\* Outside the killing every quit timer that runs has outlived the logout it belongs to.
OutlivedExact ==
    /\ outlived \in Nat /\ outlived <= calls["quit"]
    /\ state # "Killing" => outlived = calls["quit"]

\* The inductive invariant of the two action properties.
KillInv ==
    /\ calls \in [CallKinds -> Nat]
    /\ waiting \in Nat /\ closing \in Nat
    /\ CallbacksExpected
    /\ OutlivedExact

\* What every step does, besides keeping KillInv.
KillStep ==
    /\ ~stale /\ state' = "Killing" /\ state # "Killing" => state = "WaitingForKNotify"
    /\ closing' > closing => state' = "Killing" \/ outlived' < outlived

------------------------------------------------------------------------------
(* Helpers *)

LEMMA PlusType ==
    ASSUME NEW f \in [CallKinds -> Nat], NEW kinds
    PROVE  /\ Plus(f, kinds) \in [CallKinds -> Nat]
           /\ \A k \in CallKinds \ kinds : Plus(f, kinds)[k] = f[k]
  BY DEF Plus

LEMMA CalledType ==
    ASSUME calls \in [CallKinds -> Nat], NEW kind \in CallKinds, calls[kind] > 0
    PROVE  /\ Called(kind) \in [CallKinds -> Nat]
           /\ \A k \in CallKinds : Called(kind)[k] <= calls[k]
           /\ \A k \in CallKinds \ {kind} : Called(kind)[k] = calls[k]
  BY DEF Called

LEMMA KillKinds == {"closed", "notify", "quit", "retry", "restored"} \subseteq CallKinds
  BY DEF CallKinds

LEMMA KillCounts ==
    ASSUME KillInv
    PROVE  calls["closed"] \in Nat /\ calls["quit"] \in Nat
  BY KillKinds DEF KillInv

\* A step that changes neither the state nor the callers and starts no quit timer.
LEMMA QuietStep ==
    ASSUME KillInv, UNCHANGED <<state, closing, stale, outlived>>, waiting' \in Nat,
           calls' \in [CallKinds -> Nat],
           calls'["closed"] <= calls["closed"], calls'["quit"] = calls["quit"]
    PROVE  KillInv' /\ KillStep
  <1>1. calls["closed"] \in Nat /\ calls'["closed"] \in Nat
    BY KillKinds DEF KillInv
  <1>2. CallbacksExpected'
    BY <1>1 DEF KillInv, CallbacksExpected
  <1>3. OutlivedExact'
    BY DEF KillInv, OutlivedExact
  <1>4. KillStep
    BY DEF KillStep, KillInv
  <1> QED
    BY <1>2, <1>3, <1>4 DEF KillInv

\* A step from one state to another, neither of which is Killing.
LEMMA OutsideKilling ==
    ASSUME KillInv, state # "Killing", state' # "Killing",
           UNCHANGED <<closing, outlived>>, waiting' \in Nat,
           calls' \in [CallKinds -> Nat], calls'["quit"] = calls["quit"],
           CallbacksExpected'
    PROVE  KillInv' /\ KillStep
  <1>1. OutlivedExact'
    BY DEF KillInv, OutlivedExact
  <1>2. KillStep
    BY DEF KillStep, KillInv
  <1> QED
    BY <1>1, <1>2 DEF KillInv

\* Before the clients are served no notification is open.
LEMMA NotClosingYet ==
    ASSUME KillInv, ~stale, state \notin {"WaitingForKNotify", "Killing"}
    PROVE  calls["closed"] = 0
  BY KillCounts DEF KillInv, CallbacksExpected

\* completeShutdownOrCheckpoint; what it is called with does not matter here.
LEMMA CompletePreserves ==
    ASSUME KillInv, NEW cs, NEW d, NEW w, NEW g, Complete(cs, d, w, g),
           UNCHANGED <<waiting, closing, stale, outlived>>
    PROVE  KillInv' /\ KillStep
  <1>1. CASE UNCHANGED <<state, calls>>
    BY <1>1, KillCounts, QuietStep DEF KillInv
  <1>2. CASE state = "Shutdown" /\ state' = "WaitingForKNotify" /\ calls' = Notified(calls)
    <2>1. calls' \in [CallKinds -> Nat] /\ calls'["quit"] = calls["quit"]
      BY <1>2, PlusType, KillKinds DEF KillInv, Notified
    <2>2. CallbacksExpected'
      BY <1>2 DEF CallbacksExpected
    <2> QED
      BY <1>2, <2>1, <2>2, OutsideKilling DEF KillInv
  <1>3. CASE state = "Checkpoint" /\ state' = "Idle" /\ calls' = calls
    <2>1. CallbacksExpected'
      BY <1>3, NotClosingYet DEF CallbacksExpected
    <2> QED
      BY <1>3, <2>1, OutsideKilling DEF KillInv
  <1> QED
    BY <1>1, <1>2, <1>3 DEF Complete, Saved, Saving

\* performLogout, called by closeSession or by its timer.
LEMMA PerformLogoutPreserves ==
    ASSUME KillInv, NEW f \in [CallKinds -> Nat], PerformLogout(f),
           f["closed"] = calls["closed"], f["quit"] = calls["quit"],
           waiting' \in Nat, UNCHANGED closing
    PROVE  KillInv' /\ KillStep
  <1>1. CASE state \in ShuttingDown
    <2>1. UNCHANGED <<state, stale, outlived>> /\ calls' = f
      BY <1>1 DEF PerformLogout, history
    <2> QED
      BY <2>1, KillCounts, QuietStep
  <1>2. CASE state \notin ShuttingDown
    <2> DEFINE g == IF state = "Restoring" THEN Plus(f, {"retry"}) ELSE f
    <2>1. /\ UNCHANGED <<stale, outlived>>
          /\ state' = IF clients = {} THEN "WaitingForKNotify" ELSE "Shutdown"
          /\ calls' = IF clients = {} THEN Notified(g) ELSE g
      BY <1>2 DEF PerformLogout, Ask
    <2>2. state \notin {"WaitingForKNotify", "Killing"}
      BY <1>2 DEF ShuttingDown
    <2>3. /\ g \in [CallKinds -> Nat]
          /\ g["closed"] = calls["closed"] /\ g["quit"] = calls["quit"]
      BY PlusType, KillKinds
    <2>4. /\ Notified(g) \in [CallKinds -> Nat]
          /\ Notified(g)["quit"] = g["quit"]
      BY <2>3, PlusType, KillKinds DEF Notified
    <2>5. calls' \in [CallKinds -> Nat] /\ calls'["quit"] = calls["quit"]
      BY <2>1, <2>3, <2>4
    <2>6. CallbacksExpected'
      <3>1. CASE clients = {}
        BY <2>1, <3>1 DEF CallbacksExpected
      <3>2. CASE clients # {}
        <4>1. calls'["closed"] = calls["closed"]
          BY <2>1, <2>3, <3>2
        <4> QED
          BY <2>1, <2>2, <4>1, NotClosingYet DEF CallbacksExpected
      <3> QED
        BY <3>1, <3>2
    <2>7. state' # "Killing"
      BY <2>1
    <2> QED
      BY <2>1, <2>2, <2>5, <2>6, <2>7, OutsideKilling
  <1> QED
    BY <1>1, <1>2

\* The quit timers of the logout outlive it, or there are none.
LEMMA AbandonPreserves ==
    ASSUME KillInv, Abandon, state' = "Idle", UNCHANGED calls,
           waiting' \in Nat, closing' \in Nat, closing' <= closing
    PROVE  KillInv' /\ KillStep
  <1>1. ~stale' => ~(calls["closed"] > 0)
    BY DEF Abandon
  <1>2. CallbacksExpected'
    BY <1>1 DEF CallbacksExpected
  <1>3. OutlivedExact'
    BY KillCounts DEF Abandon, OutlivedExact
  <1> QED
    BY <1>2, <1>3 DEF KillInv, KillStep

\* startKilling, reached from a callback.
LEMMA StartKillingPreserves ==
    ASSUME KillInv, NEW f \in [CallKinds -> Nat], StartKilling(f),
           f["closed"] <= calls["closed"], f["quit"] = calls["quit"],
           ~stale => state \in {"WaitingForKNotify", "Killing"},
           UNCHANGED <<stale, outlived>>
    PROVE  KillInv' /\ KillStep
  <1>1. CASE state = "Killing"
    <2>1. UNCHANGED <<state, waiting, closing>> /\ calls' = f
      BY <1>1 DEF StartKilling, callers
    <2> QED
      BY <2>1, QuietStep DEF KillInv
  <1>2. CASE state # "Killing"
    <2>1. state' = "Killing" /\ calls' = Plus(f, {"quit"})
      BY <1>2 DEF StartKilling
    <2>2. calls' \in [CallKinds -> Nat] /\ calls'["quit"] = calls["quit"] + 1
      BY <2>1, PlusType, KillKinds DEF Plus
    <2>3. waiting' \in Nat /\ closing' \in Nat
      BY <1>2 DEF StartKilling, LogoutFinished, callers, KillInv
    <2>4. OutlivedExact'
      BY <2>1, <2>2, KillCounts DEF KillInv, OutlivedExact
    <2>5. CallbacksExpected' /\ KillStep
      BY <1>2, <2>1 DEF CallbacksExpected, KillStep
    <2> QED
      BY <2>2, <2>3, <2>4, <2>5 DEF KillInv
  <1> QED
    BY <1>1, <1>2

------------------------------------------------------------------------------
(* The steps *)

LEMMA RequestsPreserve ==
    ASSUME KillInv, CloseSession \/ RetryLogout \/ SaveCurrentSession \/ RestoreSession
    PROVE  KillInv' /\ KillStep
  <1>1. CASE CloseSession
    <2>1. PerformLogout(calls) /\ waiting' \in Nat /\ UNCHANGED closing
      BY <1>1 DEF CloseSession, KillInv
    <2> QED
      BY <2>1, PerformLogoutPreserves DEF KillInv
  <1>2. CASE RetryLogout
    <2>1. PerformLogout(Called("retry")) /\ UNCHANGED <<waiting, closing>> /\ calls["retry"] > 0
      BY <1>2 DEF RetryLogout, callers
    <2>2. /\ Called("retry") \in [CallKinds -> Nat]
          /\ Called("retry")["closed"] = calls["closed"]
          /\ Called("retry")["quit"] = calls["quit"]
      BY <2>1, CalledType, KillKinds DEF KillInv
    <2> QED
      BY <2>1, <2>2, PerformLogoutPreserves DEF KillInv
  <1>3. CASE SaveCurrentSession
    <2>1. /\ UNCHANGED <<calls, waiting, closing, stale, outlived>>
          /\ state = "Idle" /\ state' # "Killing"
      BY <1>3 DEF SaveCurrentSession, Ask, callers
    <2>2. CallbacksExpected'
      BY <2>1, NotClosingYet DEF CallbacksExpected
    <2> QED
      BY <2>1, <2>2, OutsideKilling DEF KillInv
  <1>4. CASE RestoreSession
    <2>1. /\ UNCHANGED <<waiting, closing, stale, outlived>>
          /\ state = "Idle" /\ state' = "Restoring" /\ calls' = Plus(calls, {"restored"})
      BY <1>4 DEF RestoreSession, callers, history
    <2>2. /\ calls' \in [CallKinds -> Nat]
          /\ calls'["closed"] = calls["closed"] /\ calls'["quit"] = calls["quit"]
      BY <2>1, PlusType, KillKinds DEF KillInv
    <2>3. CallbacksExpected'
      BY <2>1, <2>2, NotClosingYet DEF CallbacksExpected
    <2> QED
      BY <2>1, <2>2, <2>3, OutsideKilling DEF KillInv
  <1> QED
    BY <1>1, <1>2, <1>3, <1>4

LEMMA MessagesPreserve ==
    ASSUME KillInv, NEW c \in Clients, HandleMessage(c)
    PROVE  KillInv' /\ KillStep
  <1>1. CASE SaveYourselfDone(c)
    <2>1. UNCHANGED <<waiting, closing, stale, outlived>>
      BY <1>1 DEF SaveYourselfDone, callers, history
    <2>2. CASE state = "Idle"
      <3>1. UNCHANGED <<state, calls>>
        BY <1>1, <2>2 DEF SaveYourselfDone
      <3> QED
        BY <2>1, <3>1, KillCounts, QuietStep DEF KillInv
    <2>3. CASE state # "Idle"
      <3>1. Complete(clients, done \cup {c}, phase2, {})
        BY <1>1, <2>3 DEF SaveYourselfDone
      <3> QED
        BY <2>1, <3>1, CompletePreserves
    <2> QED
      BY <2>2, <2>3
  <1>2. CASE InteractRequest(c) \/ InteractDone(c)
    <2>1. UNCHANGED <<state, calls, waiting, closing, stale, outlived>>
      BY <1>2 DEF InteractRequest, InteractDone, callers, history
    <2> QED
      BY <2>1, KillCounts, QuietStep DEF KillInv
  <1>3. CASE CancelShutdown(c)
    <2>1. UNCHANGED calls
      BY <1>3 DEF CancelShutdown
    <2>2. CASE interacting = c
      <3>1. state' = "Idle" /\ Abandon /\ waiting' = 0 /\ closing' = closing
        BY <1>3, <2>2 DEF CancelShutdown, LogoutFinished
      <3> QED
        BY <2>1, <3>1, AbandonPreserves DEF KillInv
    <2>3. CASE interacting # c
      <3>1. UNCHANGED <<state, waiting, closing, stale, outlived>>
        BY <1>3, <2>3 DEF CancelShutdown, callers, history
      <3> QED
        BY <2>1, <3>1, KillCounts, QuietStep DEF KillInv
    <2> QED
      BY <2>2, <2>3
  <1>4. CASE Phase2Request(c)
    <2>1. /\ Complete(clients, done, phase2 \cup {c}, {})
          /\ UNCHANGED <<waiting, closing, stale, outlived>>
      BY <1>4 DEF Phase2Request, callers, history
    <2> QED
      BY <2>1, CompletePreserves
  <1> QED
    BY <1>1, <1>2, <1>3, <1>4 DEF HandleMessage

LEMMA ConnectionsPreserve ==
    ASSUME KillInv, NEW c \in Clients, NewClient(c) \/ DeleteClient(c)
    PROVE  KillInv' /\ KillStep
  <1>1. CASE NewClient(c)
    <2>1. UNCHANGED <<state, calls, waiting, closing, stale, outlived>>
      BY <1>1 DEF NewClient, callers, history
    <2> QED
      BY <2>1, KillCounts, QuietStep DEF KillInv
  <1>2. CASE DeleteClient(c)
    <2>1. /\ Complete(clients', done \ {c}, phase2 \ {c}, Granted)
          /\ UNCHANGED <<stale, outlived>>
      BY <1>2 DEF DeleteClient
    <2>2. CASE state = "Killing" /\ clients' = {}
      <3>1. UNCHANGED <<state, calls>>
        BY <2>1, <2>2 DEF Complete, Saving
      <3>2. waiting' \in Nat /\ closing' \in Nat
        BY <1>2, <2>2 DEF DeleteClient, LogoutFinished, KillInv
      <3>3. CallbacksExpected' /\ OutlivedExact' /\ KillStep
        BY <2>1, <2>2, <3>1 DEF KillInv, CallbacksExpected, OutlivedExact, KillStep
      <3> QED
        BY <3>1, <3>2, <3>3 DEF KillInv
    <2>3. CASE ~(state = "Killing" /\ clients' = {})
      <3>1. UNCHANGED <<waiting, closing>>
        BY <1>2, <2>3 DEF DeleteClient, callers
      <3> QED
        BY <2>1, <3>1, CompletePreserves
    <2> QED
      BY <2>2, <2>3
  <1> QED
    BY <1>1, <1>2

LEMMA CallbacksPreserve ==
    ASSUME KillInv, Callback
    PROVE  KillInv' /\ KillStep
  <1>1. CASE RetryLogout
    BY <1>1, RequestsPreserve
  <1>2. CASE ProtectionTimeout
    <2>1. UNCHANGED <<waiting, closing, stale, outlived>>
      BY <1>2 DEF ProtectionTimeout, callers
    <2>2. CASE state \notin Saving \/ interacting # None
      <3>1. UNCHANGED <<state, calls>>
        BY <1>2, <2>2 DEF ProtectionTimeout
      <3> QED
        BY <2>1, <3>1, KillCounts, QuietStep DEF KillInv
    <2>3. CASE ~(state \notin Saving \/ interacting # None)
      <3>1. Complete(clients, done \cup (clients \ phase2), phase2, {})
        BY <1>2, <2>3 DEF ProtectionTimeout
      <3> QED
        BY <2>1, <3>1, CompletePreserves
    <2> QED
      BY <2>2, <2>3
  <1>3. CASE NotificationClosed
    <2>1. calls["closed"] > 0 /\ StartKilling(Called("closed")) /\ UNCHANGED <<stale, outlived>>
      BY <1>3 DEF NotificationClosed, history
    <2>2. /\ Called("closed") \in [CallKinds -> Nat]
          /\ Called("closed")["closed"] <= calls["closed"]
          /\ Called("closed")["quit"] = calls["quit"]
      BY <2>1, CalledType, KillKinds DEF KillInv
    <2>3. ~stale => state \in {"WaitingForKNotify", "Killing"}
      BY <2>1 DEF KillInv, CallbacksExpected
    <2> QED
      BY <2>1, <2>2, <2>3, StartKillingPreserves
  <1>4. CASE NotificationTimeout
    <2>1. calls["notify"] > 0 /\ UNCHANGED <<stale, outlived>>
      BY <1>4 DEF NotificationTimeout, history
    <2>2. /\ Called("notify") \in [CallKinds -> Nat]
          /\ Called("notify")["closed"] <= calls["closed"]
          /\ Called("notify")["quit"] = calls["quit"]
      BY <2>1, CalledType, KillKinds DEF KillInv
    <2>3. CASE state = "WaitingForKNotify"
      <3>1. StartKilling(Called("notify"))
        BY <1>4, <2>3 DEF NotificationTimeout
      <3> QED
        BY <2>1, <2>2, <2>3, <3>1, StartKillingPreserves
    <2>4. CASE state # "WaitingForKNotify"
      <3>1. calls' = Called("notify") /\ UNCHANGED <<state, waiting, closing>>
        BY <1>4, <2>4 DEF NotificationTimeout, callers
      <3> QED
        BY <2>1, <2>2, <3>1, QuietStep DEF KillInv
    <2> QED
      BY <2>3, <2>4
  <1>5. CASE TimeoutQuit
    <2>1. /\ calls["quit"] > 0 /\ calls' = Called("quit") /\ LogoutFinished(TRUE)
          /\ UNCHANGED <<state, stale>>
          /\ outlived' = IF outlived > 0 THEN outlived - 1 ELSE 0
      BY <1>5 DEF TimeoutQuit
    <2>2. /\ calls' \in [CallKinds -> Nat]
          /\ calls'["closed"] = calls["closed"] /\ calls'["quit"] = calls["quit"] - 1
      BY <2>1, CalledType, KillKinds DEF KillInv, Called
    <2>3. waiting' \in Nat /\ closing' \in Nat
      BY <2>1 DEF LogoutFinished, KillInv
    <2>4. OutlivedExact'
      BY <2>1, <2>2, KillCounts DEF KillInv, OutlivedExact
    <2>5. state # "Killing" => outlived' < outlived
      BY <2>1, KillCounts DEF KillInv, OutlivedExact
    <2>6. CallbacksExpected' /\ KillStep
      BY <2>1, <2>2, <2>5 DEF KillInv, CallbacksExpected, KillStep
    <2> QED
      BY <2>2, <2>3, <2>4, <2>6 DEF KillInv
  <1>6. CASE TryRestore
    <2>1. /\ calls["restored"] > 0 /\ calls' = Called("restored")
          /\ UNCHANGED <<waiting, closing, stale, outlived>>
          /\ state' = IF state = "Restoring" THEN "Idle" ELSE state
      BY <1>6 DEF TryRestore, callers, history
    <2>2. /\ calls' \in [CallKinds -> Nat]
          /\ calls'["closed"] = calls["closed"] /\ calls'["quit"] = calls["quit"]
      BY <2>1, CalledType, KillKinds DEF KillInv
    <2>3. CASE state = "Restoring"
      <3>1. CallbacksExpected'
        BY <2>1, <2>2, <2>3, NotClosingYet DEF CallbacksExpected
      <3> QED
        BY <2>1, <2>2, <2>3, <3>1, OutsideKilling DEF KillInv
    <2>4. CASE state # "Restoring"
      BY <2>1, <2>2, <2>4, KillCounts, QuietStep DEF KillInv
    <2> QED
      BY <2>3, <2>4
  <1> QED
    BY <1>1, <1>2, <1>3, <1>4, <1>5, <1>6 DEF Callback

LEMMA RepliesPreserve ==
    ASSUME KillInv, WindowsClosed \/ ResetLogout
    PROVE  KillInv' /\ KillStep
  <1>0. closing > 0 /\ closing' = closing - 1 /\ UNCHANGED <<calls, waiting>>
    BY DEF WindowsClosed, ResetLogout
  <1>1. closing' \in Nat /\ closing' <= closing
    BY <1>0 DEF KillInv
  <1>2. CASE WindowsClosed
    <2>1. UNCHANGED <<state, stale, outlived>>
      BY <1>2 DEF WindowsClosed, history
    <2>2. CallbacksExpected' /\ OutlivedExact' /\ KillStep
      BY <1>0, <1>1, <2>1 DEF KillInv, CallbacksExpected, OutlivedExact, KillStep
    <2> QED
      BY <1>0, <1>1, <2>2 DEF KillInv
  <1>3. CASE ResetLogout
    <2>1. state' = "Idle" /\ Abandon
      BY <1>3 DEF ResetLogout
    <2> QED
      BY <1>0, <1>1, <2>1, AbandonPreserves DEF KillInv
  <1> QED
    BY <1>2, <1>3

LEMMA ClientStepsPreserve ==
    ASSUME KillInv, NEW c \in Clients, ClientStep(c)
    PROVE  KillInv' /\ KillStep
  <1>1. UNCHANGED <<state, calls, waiting, closing, stale, outlived>>
    BY DEF ClientStep, RequestInteraction, FinishInteraction, RequestPhase2, FinishSaving,
           Advance, callers, history
  <1> QED
    BY <1>1, KillCounts, QuietStep DEF KillInv

------------------------------------------------------------------------------
(* Theorems *)

LEMMA KillInvInitially == Init => KillInv
  <1> SUFFICES ASSUME Init PROVE KillInv
    OBVIOUS
  <1>1. calls = [k \in CallKinds |-> 0] /\ waiting = 0 /\ closing = 0 /\ outlived = 0
    BY DEF Init
  <1>2. calls["closed"] = 0 /\ calls["quit"] = 0
    BY <1>1, KillKinds
  <1> QED
    BY <1>1, <1>2 DEF KillInv, CallbacksExpected, OutlivedExact

LEMMA NextPreserves ==
    ASSUME KillInv, Next
    PROVE  KillInv' /\ KillStep
  <1>1. CASE CloseSession \/ SaveCurrentSession \/ RestoreSession
    BY <1>1, RequestsPreserve
  <1>2. CASE Callback
    BY <1>2, CallbacksPreserve
  <1>3. CASE WindowsClosed \/ ResetLogout
    BY <1>3, RepliesPreserve
  <1>4. ASSUME NEW c \in Clients, HandleMessage(c) PROVE KillInv' /\ KillStep
    BY <1>4, MessagesPreserve
  <1>5. ASSUME NEW c \in Clients, ClientStep(c) PROVE KillInv' /\ KillStep
    BY <1>5, ClientStepsPreserve
  <1>6. ASSUME NEW c \in Clients, NewClient(c) \/ DeleteClient(c) PROVE KillInv' /\ KillStep
    BY <1>6, ConnectionsPreserve
  <1> QED
    BY <1>1, <1>2, <1>3, <1>4, <1>5, <1>6 DEF Next

LEMMA StutterPreserves ==
    ASSUME KillInv, UNCHANGED vars
    PROVE  KillInv'
  BY DEF vars, callers, history, KillInv, CallbacksExpected, OutlivedExact

\* As long as no logout is abandoned with parts of it to come, startKilling is only
\* entered from WaitingForKNotify, the state in which all clients have been served.
THEOREM KillOnlyAfterSavingHolds ==
    ASSUME ~Leftovers
    PROVE  Spec => KillOnlyAfterSaving
  <1>1. KillInv /\ [Next]_vars => KillInv'
    BY NextPreserves, StutterPreserves
  <1>2. KillInv /\ [Next]_vars =>
          [state' = "Killing" /\ state # "Killing" => state = "WaitingForKNotify"]_vars
    BY NextPreserves DEF KillStep, Next, Running
  <1> QED
    BY <1>1, <1>2, KillInvInitially, PTL DEF Spec, KillOnlyAfterSaving

\* In every execution, with abandoned logouts too, plasma-shutdown is told that the
\* session is closed only while clients are being killed, or by a quit timer that has
\* outlived the killing it belongs to, and by each such timer once.  A cancelled logout
\* is never reported as complete by anything else.
THEOREM ClosedWhenCompleteHolds == Spec => ClosedWhenComplete
  <1>1. KillInv /\ [Next]_vars => KillInv'
    BY NextPreserves, StutterPreserves
  <1>2. KillInv /\ [Next]_vars =>
          [closing' > closing => state' = "Killing" \/ outlived' < outlived]_vars
    BY NextPreserves DEF KillStep
  <1> QED
    BY <1>1, <1>2, KillInvInitially, PTL DEF Spec, ClosedWhenComplete

\* handlePendingInteractions picks a connected client.
LEMMA HandlePendingConnected ==
    ASSUME NEW p, NEW cs, HandlePending(p, cs)
    PROVE  interacting' \in cs \cup {None}
  BY DEF HandlePending

\* In every execution, with abandoned logouts too, clientInteracting is a connected
\* client or null.
THEOREM InteractingConnectedHolds == Spec => []InteractingConnected
  <1>1. Init => InteractingConnected
    BY DEF Init, InteractingConnected
  <1>2. InteractingConnected /\ [Next]_vars => InteractingConnected'
    <2> SUFFICES ASSUME InteractingConnected, [Next]_vars PROVE InteractingConnected'
      OBVIOUS
    <2>1. CASE UNCHANGED <<clients, interacting>>
      BY <2>1 DEF InteractingConnected
    <2>2. ASSUME NEW c \in Clients, InteractRequest(c) PROVE InteractingConnected'
      BY <2>2, HandlePendingConnected DEF InteractRequest, InteractingConnected
    <2>3. ASSUME NEW c \in Clients, InteractDone(c) PROVE InteractingConnected'
      BY <2>3, HandlePendingConnected DEF InteractDone, InteractingConnected
    <2>4. ASSUME NEW c \in Clients, CancelShutdown(c) PROVE InteractingConnected'
      BY <2>4 DEF CancelShutdown, InteractingConnected
    <2>5. ASSUME NEW c \in Clients, NewClient(c) PROVE InteractingConnected'
      BY <2>5 DEF NewClient, InteractingConnected
    <2>6. ASSUME NEW c \in Clients, DeleteClient(c) PROVE InteractingConnected'
      <3>1. clients' = clients \ {c}
        BY <2>6 DEF DeleteClient
      <3>2. CASE interacting = c
        BY <2>6, <3>2, HandlePendingConnected DEF DeleteClient, InteractingConnected
      <3>3. CASE interacting # c
        <4>1. interacting' = interacting
          BY <2>6, <3>3 DEF DeleteClient
        <4> QED
          BY <3>1, <3>3, <4>1 DEF InteractingConnected
      <3> QED
        BY <3>2, <3>3
    <2>7. ASSUME NEW c \in Clients, SaveYourselfDone(c) \/ Phase2Request(c) \/ ClientStep(c)
          PROVE  UNCHANGED <<clients, interacting>>
      BY <2>7 DEF SaveYourselfDone, Phase2Request, ClientStep, RequestInteraction,
                  FinishInteraction, RequestPhase2, FinishSaving, Advance
    <2>8. CASE \/ CloseSession \/ SaveCurrentSession \/ RestoreSession
               \/ WindowsClosed \/ ResetLogout
      BY <2>1, <2>8 DEF CloseSession, SaveCurrentSession, RestoreSession, WindowsClosed,
                        ResetLogout
    <2>9. CASE Callback
      BY <2>1, <2>9 DEF Callback, RetryLogout, ProtectionTimeout, NotificationClosed,
                        NotificationTimeout, TimeoutQuit, TryRestore
    <2>10. CASE UNCHANGED vars
      BY <2>1, <2>10 DEF vars
    <2> QED
      BY <2>1, <2>2, <2>3, <2>4, <2>5, <2>6, <2>7, <2>8, <2>9, <2>10
         DEF Next, HandleMessage
  <1> QED
    BY <1>1, <1>2, PTL DEF Spec

------------------------------------------------------------------------------
(* Saves and dialogs of a logout *)

Kinds == {"shutdown", "checkpoint", "local", "aborted"}
Messages == {"saveYourselfDone", "interactRequest", "interactDone", "cancel", "phase2Request"}
Stages == {"saving", "asked", "talking", "talked", "phase2asked", "phase2"}

\* A client c that follows the protocol: it owes the answers t and is at stage s of the
\* first, its messages o are on their way, i may talk, the clients P wait for that, the
\* server takes the clients D for done, and the clients A have saved or were given up.
Follows(c, t, s, o, i, P, D, A) ==
    /\ Len(t) <= 1 /\ (Len(t) = 1 => t[1] = "shutdown")
    /\ s = "saving" /\ Len(t) = 1 => Len(o) = 0
    /\ s = "asked" => Len(o) <= 1
    /\ s = "talking" => Len(o) = 0 /\ i = c
    /\ \A n \in 1..Len(o) : /\ o[n] = "interactRequest" => s = "asked"
                            /\ o[n] = "saveYourselfDone" => c \in A
    /\ c \in P => s = "asked" /\ Len(o) = 0
    /\ c \in D => c \in A

SaveType ==
    /\ todo \in [Clients -> Seq(Kinds)] /\ out \in [Clients -> Seq(Messages)]
    /\ stage \in [Clients -> Stages]
    /\ clients \subseteq Clients /\ fresh \cap clients = {}
    /\ \A c \in Clients : Len(todo[c]) = 0 => stage[c] = "saving"

\* While clients save for a logout, those that owed nothing before it follow the protocol.
Bound ==
    state = "Shutdown" =>
        /\ asked \subseteq clients
        /\ \A c \in asked \ unready :
              Follows(c, todo[c], stage[c], out[c], interacting, pending, done,
                      answered \cup gaveUp)

\* When the server stops waiting for them, they have saved or were given up.
Served == state = "WaitingForKNotify" => asked \subseteq answered \cup gaveUp \cup unready

\* The inductive invariant of OneDialog and SavedBeforeKilled.
SaveInv == SaveType /\ Bound /\ Served

\* The first message is read.
LEMMA MessageRead ==
    ASSUME NEW o \in Seq(Messages), o # <<>>
    PROVE  /\ Len(o) \in Nat /\ Len(o) > 0 /\ 1 \in 1..Len(o) /\ Head(o) = o[1]
           /\ Tail(o) \in Seq(Messages) /\ Len(Tail(o)) = Len(o) - 1
           /\ \A n \in 1..Len(Tail(o)) : n + 1 \in 1..Len(o) /\ Tail(o)[n] = o[n + 1]
  <1>1. Len(o) \in Nat /\ Len(o) > 0
    BY EmptySeq
  <1>2. Head(o) = o[1]
    OBVIOUS
  <1>3. /\ Tail(o) \in Seq(Messages) /\ Len(Tail(o)) = Len(o) - 1
        /\ \A n \in 1..Len(Tail(o)) : Tail(o)[n] = o[n + 1]
    BY HeadTailProperties
  <1>4. \A n \in 1..Len(Tail(o)) : n + 1 \in 1..Len(o)
    BY <1>1, <1>3
  <1> QED
    BY <1>1, <1>2, <1>3, <1>4

LEMMA FollowsRead ==
    ASSUME NEW c, NEW t, NEW s, NEW o \in Seq(Messages), NEW i, NEW P, NEW D, NEW A,
           Follows(c, t, s, o, i, P, D, A), o # <<>>
    PROVE  Follows(c, t, s, Tail(o), i, P, D, A) /\ c \notin P /\ s # "talking"
  <1>1. c \notin P /\ s # "talking" /\ ~(s = "saving" /\ Len(t) = 1)
    BY MessageRead DEF Follows
  <1>2. s = "asked" => Len(Tail(o)) <= 1
    BY MessageRead DEF Follows
  <1>3. \A n \in 1..Len(Tail(o)) : /\ Tail(o)[n] = "interactRequest" => s = "asked"
                                   /\ Tail(o)[n] = "saveYourselfDone" => c \in A
    BY MessageRead DEF Follows
  <1> QED
    BY <1>1, <1>2, <1>3 DEF Follows

\* The server takes note of other clients, or of this one when it has saved.
LEMMA FollowsBystander ==
    ASSUME NEW c, NEW t, NEW s, NEW o, NEW i, NEW P, NEW D, NEW A,
           NEW i2, NEW P2, NEW D2, NEW A2,
           Follows(c, t, s, o, i, P, D, A),
           s = "talking" => i2 = c, c \in P2 => c \in P,
           c \in D2 => c \in D \/ c \in A2, c \in A => c \in A2
    PROVE  Follows(c, t, s, o, i2, P2, D2, A2)
  BY DEF Follows

\* A client that waits is sent Interact.
LEMMA FollowsGranted ==
    ASSUME NEW c, NEW t, NEW o \in Seq(Messages), NEW i, NEW P, NEW P2, NEW D, NEW A,
           Follows(c, t, "asked", o, i, P, D, A), Len(o) = 0, c \notin P2
    PROVE  Follows(c, t, "talking", o, c, P2, D, A)
  <1>1. 1..Len(o) = {}
    OBVIOUS
  <1> QED
    BY <1>1 DEF Follows

LEMMA FollowsPhase2 ==
    ASSUME NEW c, NEW t, NEW o, NEW i, NEW P, NEW D, NEW A,
           Follows(c, t, "phase2asked", o, i, P, D, A)
    PROVE  Follows(c, t, "phase2", o, i, P, D, A)
  BY DEF Follows

------------------------------------------------------------------------------

LEMMA SaveInitially == Init => SaveInv
  <1> SUFFICES ASSUME Init PROVE SaveInv
    OBVIOUS
  <1>1. /\ todo = [c \in Clients |-> <<>>] /\ out = [c \in Clients |-> <<>>]
        /\ stage = [c \in Clients |-> "saving"] /\ state = "Idle"
        /\ clients = Clients \ Late /\ fresh = Late
    BY DEF Init
  <1>2. todo \in [Clients -> Seq(Kinds)] /\ out \in [Clients -> Seq(Messages)]
    BY <1>1
  <1>3. stage \in [Clients -> Stages]
    BY <1>1 DEF Stages
  <1>4. SaveType
    BY <1>1, <1>2, <1>3 DEF SaveType
  <1> QED
    BY <1>1, <1>4 DEF SaveInv, Bound, Served

\* A step that leaves the clients alone and may only end the logout.
LEMMA AsideSaves ==
    ASSUME SaveInv,
           UNCHANGED <<clients, done, pending, interacting, todo, stage, out, fresh,
                       asked, answered, gaveUp, unready>>,
           state' = state \/ state' \notin {"Shutdown", "WaitingForKNotify"}
    PROVE  SaveInv'
  BY DEF SaveInv, SaveType, Bound, Served

\* SmsSaveYourself to all.
LEMMA AskSaves ==
    ASSUME SaveInv, NEW kind \in {"shutdown", "checkpoint"}, Ask(kind),
           UNCHANGED <<clients, interacting, stage, out, fresh>>,
           state' = "Shutdown" => kind = "shutdown",
           state' = "WaitingForKNotify" => clients = {} /\ kind = "shutdown"
    PROVE  SaveInv'
  <1>1. /\ done' = done \ clients /\ pending' = pending \ clients
        /\ todo' = [c \in Clients |-> IF c \in clients THEN Append(todo[c], kind) ELSE todo[c]]
        /\ asked' = IF kind = "shutdown" THEN clients ELSE {}
        /\ unready' = {c \in clients : todo[c] # <<>> \/ out[c] # <<>>}
    BY DEF Ask
  <1>2. \A c \in Clients : todo[c] \in Seq(Kinds) /\ out[c] \in Seq(Messages)
    BY DEF SaveInv, SaveType
  <1>3. \A c \in Clients : /\ Append(todo[c], kind) \in Seq(Kinds)
                           /\ Len(Append(todo[c], kind)) = Len(todo[c]) + 1
                           /\ Append(todo[c], kind)[Len(todo[c]) + 1] = kind
                           /\ Len(Append(todo[c], kind)) # 0
    BY <1>2, AppendProperties DEF Kinds
  <1>4. SaveType'
    BY <1>1, <1>2, <1>3 DEF SaveInv, SaveType
  <1>5. Bound'
    <2>1. SUFFICES ASSUME state' = "Shutdown"
                   PROVE  /\ asked' \subseteq clients'
                          /\ \A c \in asked' \ unready' :
                                Follows(c, todo'[c], stage'[c], out'[c], interacting', pending',
                                        done', answered' \cup gaveUp')
      BY DEF Bound
    <2>2. kind = "shutdown" /\ asked' = clients
      BY <1>1, <2>1
    <2>3. ASSUME NEW c \in asked' \ unready'
          PROVE  Follows(c, todo'[c], stage'[c], out'[c], interacting', pending', done',
                         answered' \cup gaveUp')
      <3>1. c \in clients /\ c \in Clients /\ todo[c] = <<>> /\ out[c] = <<>>
        BY <1>1, <2>2, <2>3 DEF SaveInv, SaveType
      <3>2. Len(todo[c]) = 0 /\ Len(out[c]) = 0 /\ 1..Len(out[c]) = {}
        BY <3>1
      <3>3. Len(todo'[c]) = 1 /\ todo'[c][1] = "shutdown"
        BY <1>1, <1>3, <2>2, <3>1, <3>2
      <3>4. stage[c] = "saving"
        BY <3>1, <3>2 DEF SaveInv, SaveType
      <3>5. c \notin pending' /\ c \notin done'
        BY <1>1, <3>1
      <3> QED
        BY <3>2, <3>3, <3>4, <3>5 DEF Follows
    <2> QED
      BY <2>2, <2>3
  <1>6. Served'
    BY <1>1 DEF Served
  <1> QED
    BY <1>4, <1>5, <1>6 DEF SaveInv

LEMMA RequestsSave ==
    ASSUME SaveInv,
           \/ CloseSession \/ RetryLogout \/ SaveCurrentSession \/ RestoreSession
           \/ WindowsClosed \/ ResetLogout \/ TryRestore
           \/ NotificationClosed \/ NotificationTimeout \/ TimeoutQuit
    PROVE  SaveInv'
  <1>1. ASSUME NEW f, PerformLogout(f), UNCHANGED <<clients, interacting, stage, out, fresh>>
        PROVE  SaveInv'
    <2>1. CASE state \in ShuttingDown
      BY <1>1, <2>1, AsideSaves DEF PerformLogout, flags, history
    <2>2. CASE state \notin ShuttingDown
      <3>1. /\ Ask("shutdown")
            /\ state' = IF clients = {} THEN "WaitingForKNotify" ELSE "Shutdown"
        BY <1>1, <2>2 DEF PerformLogout
      <3> QED
        BY <1>1, <3>1, AskSaves
    <2> QED
      BY <2>1, <2>2
  <1>2. CASE CloseSession \/ RetryLogout
    BY <1>1, <1>2 DEF CloseSession, RetryLogout, bounds
  <1>3. CASE SaveCurrentSession
    <2>1. /\ Ask("checkpoint") /\ UNCHANGED <<clients, interacting, stage, out, fresh>>
          /\ state' \in {"Idle", "Checkpoint"}
      BY <1>3 DEF SaveCurrentSession
    <2> QED
      BY <2>1, AskSaves
  <1>4. CASE \/ RestoreSession \/ WindowsClosed \/ ResetLogout \/ TryRestore
             \/ NotificationClosed \/ NotificationTimeout \/ TimeoutQuit
    <2>1. UNCHANGED <<clients, done, pending, interacting, todo, stage, out, fresh,
                      asked, answered, gaveUp, unready>>
      BY <1>4 DEF RestoreSession, WindowsClosed, ResetLogout, TryRestore, NotificationClosed,
                  NotificationTimeout, TimeoutQuit, flags, client, bounds, history
    <2>2. state' = state \/ state' \in {"Idle", "Restoring", "Killing"}
      BY <1>4 DEF RestoreSession, WindowsClosed, ResetLogout, TryRestore, NotificationClosed,
                  NotificationTimeout, TimeoutQuit, StartKilling
    <2> QED
      BY <2>1, <2>2, AsideSaves
  <1> QED
    BY <1>2, <1>3, <1>4

\* completeShutdownOrCheckpoint, after what led to it: when it ends a logout, every
\* client counts as done, and those that follow the protocol have saved or were given up.
LEMMA CompleteSaves ==
    ASSUME SaveInv, NEW cs \in SUBSET Clients, NEW d, NEW w, NEW g \in SUBSET cs,
           Complete(cs, d, w, g), clients' = cs, fresh' \cap cs = {},
           todo' \in [Clients -> Seq(Kinds)], out' \in [Clients -> Seq(Messages)],
           \A c \in cs : Len(todo'[c]) = 0 => Len(todo[c]) = 0,
           state = "Shutdown" =>
               /\ asked' \subseteq cs
               /\ \A c \in asked' \ unready' :
                     Follows(c, todo'[c],
                             IF c \in g /\ stage[c] = "asked" THEN "talking" ELSE stage[c],
                             out'[c], interacting', pending', d, answered' \cup gaveUp'),
           state = "WaitingForKNotify" =>
               asked' \subseteq answered' \cup gaveUp' \cup unready'
    PROVE  SaveInv'
  <1> DEFINE ready == state \in Saving /\ cs \subseteq d \cup w
             second == IF ready THEN SecondPhase(cs, d) ELSE {}
             finished == ready /\ second = {}
  <1>1. /\ done' = d
        /\ stage' = [c \in Clients |->
              CASE c \notin cs -> "saving"
                [] c \in second /\ stage[c] = "phase2asked" -> "phase2"
                [] c \in g /\ stage[c] = "asked" -> "talking"
                [] OTHER -> stage[c]]
        /\ state' = IF finished THEN Saved ELSE state
    BY DEF Complete
  <1>2. second \subseteq cs /\ (finished => cs \subseteq d)
    BY DEF SecondPhase
  <1>3. stage \in [Clients -> Stages]
    BY DEF SaveInv, SaveType
  <1>4. ASSUME NEW c \in Clients
        PROVE  /\ c \notin cs => stage'[c] = "saving"
               /\ c \in cs => \/ stage'[c] = IF c \in g /\ stage[c] = "asked"
                                             THEN "talking" ELSE stage[c]
                              \/ stage[c] = "phase2asked" /\ stage'[c] = "phase2"
    <2> HIDE DEF second
    <2>1. CASE c \notin cs
      <3>1. c \notin second /\ c \notin g
        BY <1>2, <2>1
      <3> QED
        BY <1>1, <2>1, <3>1
    <2>2. CASE c \in cs
      BY <1>1, <2>2
    <2> QED
      BY <2>1, <2>2
  <1>5. stage' \in [Clients -> Stages]
    <2>1. \A c \in Clients : stage'[c] \in Stages
      BY <1>3, <1>4 DEF Stages
    <2>2. stage' = [c \in Clients |-> stage'[c]]
      <3> HIDE DEF second
      <3> QED
        BY <1>1
    <2> QED
      BY <2>1, <2>2
  <1>6. SaveType'
    <2>1. ASSUME NEW c \in Clients, Len(todo'[c]) = 0 PROVE stage'[c] = "saving"
      <3>1. CASE c \in cs
        <4>1. stage[c] = "saving"
          BY <2>1, <3>1 DEF SaveInv, SaveType
        <4> QED
          BY <1>4, <3>1, <4>1
      <3> QED
        BY <1>4, <3>1
    <2> QED
      BY <1>5, <2>1 DEF SaveType
  <1> HIDE DEF finished, second, ready
  <1>7. state' = "Shutdown" => state = "Shutdown"
    BY <1>1 DEF Saved
  <1>8. Bound'
    <2>1. SUFFICES ASSUME state = "Shutdown", NEW c \in asked' \ unready'
                   PROVE  Follows(c, todo'[c], stage'[c], out'[c], interacting', pending', done',
                                  answered' \cup gaveUp')
      BY <1>7 DEF Bound
    <2> DEFINE told == IF c \in g /\ stage[c] = "asked" THEN "talking" ELSE stage[c]
    <2>2. c \in cs /\ c \in Clients
      BY <2>1
    <2>3. Follows(c, todo'[c], told, out'[c], interacting', pending', d, answered' \cup gaveUp')
      BY <2>1
    <2>4. stage'[c] = told \/ (told = "phase2asked" /\ stage'[c] = "phase2")
      BY <1>4, <2>2
    <2> HIDE DEF told
    <2> QED
      BY <1>1, <2>3, <2>4, FollowsPhase2
  <1>9. Served'
    <2>1. SUFFICES ASSUME state' = "WaitingForKNotify"
                   PROVE  asked' \subseteq answered' \cup gaveUp' \cup unready'
      BY DEF Served
    <2>2. CASE state = "WaitingForKNotify"
      BY <2>2
    <2>3. CASE state # "WaitingForKNotify"
      <3>1. finished /\ state # "Checkpoint"
        BY <1>1, <2>1, <2>3 DEF Saved
      <3>2. cs \subseteq d /\ state = "Shutdown"
        BY <1>2, <3>1 DEF finished, ready, Saving
      <3>3. ASSUME NEW c \in asked' \ unready' PROVE c \in answered' \cup gaveUp'
        <4>1. c \in d
          BY <3>2, <3>3
        <4> QED
          BY <3>2, <3>3, <4>1 DEF Follows
      <3> QED
        BY <3>3
    <2> QED
      BY <2>2, <2>3
  <1> QED
    BY <1>6, <1>8, <1>9 DEF SaveInv

\* The messages of x are read, and what the other clients are bound by stays.
LEMMA Received ==
    ASSUME SaveType, NEW x \in Clients, NEW m, Receive(x, m)
    PROVE  /\ out' \in [Clients -> Seq(Messages)] /\ x \in clients
           /\ out[x] \in Seq(Messages) /\ out[x] # <<>> /\ out'[x] = Tail(out[x])
           /\ 1 \in 1..Len(out[x]) /\ out[x][1] = m
           /\ \A c \in Clients \ {x} : out'[c] = out[c]
  <1>1. /\ x \in clients /\ out[x] # <<>> /\ Head(out[x]) = m
        /\ out' = [out EXCEPT ![x] = Tail(@)]
    BY DEF Receive
  <1>2. out \in [Clients -> Seq(Messages)] /\ out[x] \in Seq(Messages)
    BY DEF SaveType
  <1>3. Tail(out[x]) \in Seq(Messages) /\ 1 \in 1..Len(out[x]) /\ Head(out[x]) = out[x][1]
    BY <1>1, <1>2, MessageRead
  <1> QED
    BY <1>1, <1>2, <1>3

\* When x is read, everybody still follows the protocol, and x does not wait.
LEMMA ReadFollows ==
    ASSUME SaveInv, state = "Shutdown", NEW x \in Clients, NEW m, Receive(x, m)
    PROVE  /\ asked \subseteq clients /\ clients \subseteq Clients
           /\ \A c \in asked \ unready :
                 /\ Follows(c, todo[c], stage[c], out'[c], interacting, pending, done,
                            answered \cup gaveUp)
                 /\ c = x => /\ c \notin pending /\ stage[c] # "talking"
                             /\ m = "interactRequest" => stage[c] = "asked" /\ Len(out'[c]) = 0
                             /\ m = "saveYourselfDone" => c \in answered \cup gaveUp
  <1>1. /\ out[x] \in Seq(Messages) /\ out[x] # <<>> /\ out'[x] = Tail(out[x])
        /\ 1 \in 1..Len(out[x]) /\ out[x][1] = m
        /\ \A c \in Clients \ {x} : out'[c] = out[c]
    BY Received DEF SaveInv
  <1>2. asked \subseteq clients /\ clients \subseteq Clients
    BY DEF SaveInv, SaveType, Bound
  <1>3. ASSUME NEW c \in asked \ unready
        PROVE  Follows(c, todo[c], stage[c], out[c], interacting, pending, done,
                       answered \cup gaveUp)
    BY DEF SaveInv, Bound
  <1>4. ASSUME NEW c \in asked \ unready, c # x
        PROVE  Follows(c, todo[c], stage[c], out'[c], interacting, pending, done,
                       answered \cup gaveUp)
    BY <1>1, <1>2, <1>3, <1>4
  <1>5. ASSUME x \in asked \ unready
        PROVE  /\ Follows(x, todo[x], stage[x], out'[x], interacting, pending, done,
                          answered \cup gaveUp)
               /\ x \notin pending /\ stage[x] # "talking"
    <2>1. Follows(x, todo[x], stage[x], out[x], interacting, pending, done,
                  answered \cup gaveUp)
      BY <1>3, <1>5
    <2>2. /\ Follows(x, todo[x], stage[x], Tail(out[x]), interacting, pending, done,
                     answered \cup gaveUp)
          /\ x \notin pending /\ stage[x] # "talking"
      BY <1>1, <2>1, FollowsRead
    <2> QED
      BY <1>1, <2>2
  <1>6. ASSUME x \in asked \ unready
        PROVE  /\ m = "interactRequest" => stage[x] = "asked" /\ Len(out'[x]) = 0
               /\ m = "saveYourselfDone" => x \in answered \cup gaveUp
    <2>1. /\ m = "interactRequest" => stage[x] = "asked" /\ Len(out[x]) <= 1
          /\ m = "saveYourselfDone" => x \in answered \cup gaveUp
      BY <1>1, <1>3, <1>6 DEF Follows
    <2>2. Len(out'[x]) = Len(out[x]) - 1 /\ Len(out[x]) \in Nat /\ Len(out[x]) > 0
      BY <1>1, MessageRead
    <2>3. Len(out[x]) <= 1 => Len(out'[x]) = 0
      <3> DEFINE L == Len(out[x])
                 left == Len(out'[x])
      <3>1. left = L - 1 /\ L \in Nat /\ L > 0
        BY <2>2
      <3> HIDE DEF L, left
      <3>2. L <= 1 => left = 0
        BY <3>1
      <3> QED
        BY <3>2 DEF L, left
    <2> QED
      BY <2>1, <2>3
  <1> QED
    BY <1>2, <1>4, <1>5, <1>6

\* handlePendingInteractions: a client that waits may be told to talk.
LEMMA HandlePendingFollows ==
    ASSUME NEW p, NEW cs, HandlePending(p, cs),
           NEW c \in Clients, NEW t, NEW s, NEW o \in Seq(Messages), NEW D, NEW A,
           Follows(c, t, s, o, interacting, p, D, A), s # "talking",
           c \in p => c # interacting
    PROVE  Follows(c, t, IF c \in Granted /\ s = "asked" THEN "talking" ELSE s,
                   o, interacting', pending', D, A)
  <1>1. c # None
    BY ClientsAssumption
  <1>2. CASE interacting' = c
    <2>1. c \in p /\ pending' = p \ {c}
      BY <1>1, <1>2 DEF HandlePending
    <2>2. s = "asked" /\ Len(o) = 0
      BY <2>1 DEF Follows
    <2>3. c \in Granted
      BY <1>1, <1>2, <2>1 DEF Granted
    <2> QED
      BY <1>2, <2>1, <2>2, <2>3, FollowsGranted
  <1>3. CASE interacting' # c
    <2>1. c \notin Granted
      BY <1>3 DEF Granted
    <2>2. c \in pending' => c \in p
      BY DEF HandlePending
    <2>3. Follows(c, t, s, o, interacting', pending', D, A)
      BY <2>2, FollowsBystander
    <2> QED
      BY <2>1, <2>3
  <1> QED
    BY <1>2, <1>3

\* A step that only tells clients to talk, as handlePendingInteractions does.
LEMMA TalkSaves ==
    ASSUME SaveInv, NEW talks,
           stage' = [d \in Clients |-> IF d \in talks /\ stage[d] = "asked"
                                       THEN "talking" ELSE stage[d]],
           out' \in [Clients -> Seq(Messages)],
           UNCHANGED <<state, clients, done, todo, fresh, asked, answered, gaveUp, unready>>,
           state = "Shutdown" =>
               \A c \in asked \ unready :
                  Follows(c, todo[c],
                          IF c \in talks /\ stage[c] = "asked" THEN "talking" ELSE stage[c],
                          out'[c], interacting', pending', done, answered \cup gaveUp)
    PROVE  SaveInv'
  <1>1. stage \in [Clients -> Stages]
    BY DEF SaveInv, SaveType
  <1>2. /\ stage' \in [Clients -> Stages]
        /\ \A c \in Clients : stage[c] = "saving" => stage'[c] = "saving"
    BY <1>1 DEF Stages
  <1>3. SaveType'
    BY <1>2 DEF SaveInv, SaveType
  <1>4. Bound'
    <2>1. SUFFICES ASSUME state = "Shutdown", NEW c \in asked \ unready
                   PROVE  Follows(c, todo[c], stage'[c], out'[c], interacting', pending', done,
                                  answered \cup gaveUp)
      BY DEF SaveInv, Bound
    <2>2. c \in Clients
      BY <2>1 DEF SaveInv, SaveType, Bound
    <2>3. stage'[c] = IF c \in talks /\ stage[c] = "asked" THEN "talking" ELSE stage[c]
      BY <2>2
    <2> QED
      BY <2>1, <2>3
  <1>5. Served'
    BY DEF SaveInv, Served
  <1> QED
    BY <1>3, <1>4, <1>5 DEF SaveInv

LEMMA InteractRequestSaves ==
    ASSUME SaveInv, NEW x \in Clients, InteractRequest(x)
    PROVE  SaveInv'
  <1> DEFINE p == IF state = "Shutdown" THEN pending \cup {x} ELSE pending
             talks == Granted \cup (IF state = "Shutdown" THEN {} ELSE {x})
  <1>1. /\ Receive(x, "interactRequest")
        /\ IF interacting # None
           THEN pending' = p /\ UNCHANGED interacting
           ELSE HandlePending(p, clients)
        /\ stage' = [d \in Clients |-> IF d \in talks /\ stage[d] = "asked"
                                       THEN "talking" ELSE stage[d]]
        /\ UNCHANGED <<state, clients, done, todo, fresh, asked, answered, gaveUp, unready>>
    BY DEF InteractRequest, bounds, history
  <1>2. out' \in [Clients -> Seq(Messages)]
    BY <1>1, Received DEF SaveInv
  <1>3. ASSUME state = "Shutdown", NEW c \in asked \ unready
        PROVE  Follows(c, todo[c],
                       IF c \in talks /\ stage[c] = "asked" THEN "talking" ELSE stage[c],
                       out'[c], interacting', pending', done, answered \cup gaveUp)
    <2>1. /\ c \in Clients
          /\ Follows(c, todo[c], stage[c], out'[c], interacting, pending, done,
                     answered \cup gaveUp)
          /\ c = x => stage[c] = "asked" /\ Len(out'[c]) = 0
      BY <1>1, <1>3, ReadFollows
    <2>2. p = pending \cup {x} /\ talks = Granted
      BY <1>3
    <2> HIDE DEF p, talks
    <2>3. Follows(c, todo[c], stage[c], out'[c], interacting, p, done, answered \cup gaveUp)
      BY <2>1, <2>2 DEF Follows
    <2>4. CASE interacting # None
      <3>1. Granted = {} /\ interacting' = interacting /\ pending' = p
        BY <1>1, <2>4 DEF Granted
      <3> QED
        BY <2>2, <2>3, <3>1
    <2>5. CASE interacting = None
      <3>1. c # interacting
        BY <2>1, <2>5, ClientsAssumption
      <3>2. stage[c] # "talking"
        BY <2>3, <3>1 DEF Follows
      <3>3. HandlePending(p, clients) /\ out'[c] \in Seq(Messages)
        BY <1>1, <1>2, <2>1, <2>5
      <3>4. Follows(c, todo[c], IF c \in Granted /\ stage[c] = "asked" THEN "talking" ELSE stage[c],
                    out'[c], interacting', pending', done, answered \cup gaveUp)
        BY <2>1, <2>3, <3>1, <3>2, <3>3, HandlePendingFollows
      <3> QED
        BY <2>2, <3>4
    <2> QED
      BY <2>4, <2>5
  <1> HIDE DEF p, talks
  <1> QED
    BY <1>1, <1>2, <1>3, TalkSaves

LEMMA InteractDoneSaves ==
    ASSUME SaveInv, NEW x \in Clients, InteractDone(x)
    PROVE  SaveInv'
  <1>1. /\ Receive(x, "interactDone")
        /\ IF interacting = x
           THEN HandlePending(pending, clients)
           ELSE UNCHANGED <<pending, interacting>>
        /\ stage' = [d \in Clients |-> IF d \in Granted /\ stage[d] = "asked"
                                       THEN "talking" ELSE stage[d]]
        /\ UNCHANGED <<state, clients, done, todo, fresh, asked, answered, gaveUp, unready>>
    BY DEF InteractDone, bounds, history
  <1>2. out' \in [Clients -> Seq(Messages)]
    BY <1>1, Received DEF SaveInv
  <1>3. ASSUME state = "Shutdown", NEW c \in asked \ unready
        PROVE  Follows(c, todo[c],
                       IF c \in Granted /\ stage[c] = "asked" THEN "talking" ELSE stage[c],
                       out'[c], interacting', pending', done, answered \cup gaveUp)
    <2>1. /\ c \in Clients
          /\ Follows(c, todo[c], stage[c], out'[c], interacting, pending, done,
                     answered \cup gaveUp)
          /\ c = x => c \notin pending /\ stage[c] # "talking"
      BY <1>1, <1>3, ReadFollows
    <2>2. CASE interacting # x
      <3>1. Granted = {} /\ interacting' = interacting /\ pending' = pending
        BY <1>1, <2>2 DEF Granted
      <3> QED
        BY <2>1, <3>1
    <2>3. CASE interacting = x
      <3>1. stage[c] # "talking" /\ (c \in pending => c # interacting)
        BY <2>1, <2>3 DEF Follows
      <3>2. HandlePending(pending, clients) /\ out'[c] \in Seq(Messages)
        BY <1>1, <1>2, <2>1, <2>3
      <3> QED
        BY <2>1, <3>1, <3>2, HandlePendingFollows
    <2> QED
      BY <2>2, <2>3
  <1> QED
    BY <1>1, <1>2, <1>3, TalkSaves

LEMMA CancelShutdownSaves ==
    ASSUME SaveInv, NEW x \in Clients, CancelShutdown(x)
    PROVE  SaveInv'
  <1>1. Receive(x, "cancel") /\ UNCHANGED <<clients, fresh>>
    BY DEF CancelShutdown, bounds
  <1>2. out' \in [Clients -> Seq(Messages)]
    BY <1>1, Received DEF SaveInv
  <1>3. CASE interacting # x
    <2>1. UNCHANGED <<state, done, pending, interacting, todo, stage, asked, answered, gaveUp,
                      unready>>
      BY <1>3 DEF CancelShutdown, flags, history
    <2>2. SaveType' /\ Served'
      BY <1>1, <1>2, <2>1 DEF SaveInv, SaveType, Served
    <2>3. Bound'
      BY <1>1, <2>1, ReadFollows DEF Bound
    <2> QED
      BY <2>2, <2>3 DEF SaveInv
  <1>4. CASE interacting = x
    <2>1. /\ state' = "Idle"
          /\ todo' = [d \in Clients |-> [i \in 1..Len(todo[d]) |->
                IF todo[d][i] = "shutdown" THEN "aborted" ELSE todo[d][i]]]
          /\ stage' = [d \in Clients |-> IF todo[d] # <<>> /\ Head(todo[d]) = "shutdown"
                                         THEN "saving" ELSE stage[d]]
      BY <1>4 DEF CancelShutdown
    <2>2. ASSUME NEW d \in Clients
          PROVE  todo'[d] \in Seq(Kinds) /\ Len(todo'[d]) = Len(todo[d])
      <3>1. todo[d] \in Seq(Kinds)
        BY DEF SaveInv, SaveType
      <3>2. Len(todo[d]) \in Nat /\ \A i \in 1..Len(todo[d]) : todo[d][i] \in Kinds
        BY <3>1, ElementOfSeq
      <3>3. \A i \in 1..Len(todo[d]) :
               (IF todo[d][i] = "shutdown" THEN "aborted" ELSE todo[d][i]) \in Kinds
        BY <3>2 DEF Kinds
      <3>4. todo'[d] = [i \in 1..Len(todo[d]) |->
                           IF todo[d][i] = "shutdown" THEN "aborted" ELSE todo[d][i]]
        BY <2>1
      <3> QED
        BY <3>2, <3>3, <3>4
    <2>3. stage \in [Clients -> Stages]
      BY DEF SaveInv, SaveType
    <2>4. /\ stage' \in [Clients -> Stages]
          /\ \A d \in Clients : stage[d] = "saving" => stage'[d] = "saving"
      BY <2>1, <2>3 DEF Stages
    <2>5. todo' \in [Clients -> Seq(Kinds)]
      <3>1. todo' = [d \in Clients |-> todo'[d]]
        BY <2>1
      <3> QED
        BY <2>2, <3>1
    <2>6. SaveType'
      BY <1>1, <1>2, <2>2, <2>4, <2>5 DEF SaveInv, SaveType
    <2> QED
      BY <2>1, <2>6 DEF SaveInv, Bound, Served
  <1> QED
    BY <1>3, <1>4

LEMMA MessagesSave ==
    ASSUME SaveInv, NEW x \in Clients, HandleMessage(x)
    PROVE  SaveInv'
  <1>0. /\ clients \in SUBSET Clients /\ {} \in SUBSET clients
        /\ todo \in [Clients -> Seq(Kinds)] /\ fresh \cap clients = {}
        /\ Served
    BY DEF SaveInv, SaveType
  <1>1. CASE SaveYourselfDone(x)
    <2>1. /\ Receive(x, "saveYourselfDone")
          /\ UNCHANGED <<clients, pending, interacting, todo, fresh, asked, answered, gaveUp,
                         unready>>
      BY <1>1 DEF SaveYourselfDone, bounds, history
    <2>2. out' \in [Clients -> Seq(Messages)]
      BY <2>1, Received DEF SaveInv
    <2>3. CASE state = "Idle"
      <3>1. UNCHANGED <<state, done, stage>>
        BY <1>1, <2>3 DEF SaveYourselfDone
      <3> QED
        BY <2>1, <2>2, <2>3, <3>1 DEF SaveInv, SaveType, Bound, Served
    <2>4. CASE state # "Idle"
      <3>1. Complete(clients, done \cup {x}, phase2, {})
        BY <1>1, <2>4 DEF SaveYourselfDone
      <3>2. ASSUME state = "Shutdown", NEW c \in asked \ unready
            PROVE  Follows(c, todo[c], IF c \in {} /\ stage[c] = "asked" THEN "talking" ELSE stage[c],
                           out'[c], interacting, pending, done \cup {x}, answered \cup gaveUp)
        <4>1. /\ Follows(c, todo[c], stage[c], out'[c], interacting, pending, done,
                         answered \cup gaveUp)
              /\ c = x => c \in answered \cup gaveUp
          BY <2>1, <3>2, ReadFollows
        <4> QED
          BY <4>1 DEF Follows
      <3>3. state = "Shutdown" => asked \subseteq clients
        BY DEF SaveInv, Bound
      <3> QED
        BY <1>0, <2>1, <2>2, <3>1, <3>2, <3>3, CompleteSaves DEF Served
    <2> QED
      BY <2>3, <2>4
  <1>2. CASE Phase2Request(x)
    <2>1. /\ Receive(x, "phase2Request")
          /\ Complete(clients, done, phase2 \cup {x}, {})
          /\ UNCHANGED <<clients, pending, interacting, todo, fresh, asked, answered, gaveUp,
                         unready>>
      BY <1>2 DEF Phase2Request, bounds, history
    <2>2. out' \in [Clients -> Seq(Messages)]
      BY <2>1, Received DEF SaveInv
    <2>3. ASSUME state = "Shutdown", NEW c \in asked \ unready
          PROVE  Follows(c, todo[c], IF c \in {} /\ stage[c] = "asked" THEN "talking" ELSE stage[c],
                         out'[c], interacting, pending, done, answered \cup gaveUp)
      BY <2>1, <2>3, ReadFollows
    <2>4. state = "Shutdown" => asked \subseteq clients
      BY DEF SaveInv, Bound
    <2> QED
      BY <1>0, <2>1, <2>2, <2>3, <2>4, CompleteSaves DEF Served
  <1> QED
    BY <1>1, <1>2, InteractRequestSaves, InteractDoneSaves, CancelShutdownSaves
       DEF HandleMessage

LEMMA ProtectionTimeoutSaves == SaveInv /\ ProtectionTimeout => SaveInv'
  <1> SUFFICES ASSUME SaveInv, ProtectionTimeout PROVE SaveInv'
    OBVIOUS
  <1>1. UNCHANGED <<clients, pending, interacting, todo, out, fresh, asked, answered, unready>>
    BY DEF ProtectionTimeout, bounds
  <1>2. CASE state \notin Saving \/ interacting # None
    <2>1. UNCHANGED <<state, done, stage, gaveUp>>
      BY <1>2 DEF ProtectionTimeout
    <2> QED
      BY <1>1, <2>1, AsideSaves
  <1>3. CASE ~(state \notin Saving \/ interacting # None)
    <2> DEFINE d == done \cup (clients \ phase2)
    <2>1. /\ Complete(clients, d, phase2, {})
          /\ gaveUp' = gaveUp \cup (clients \ (done \cup phase2))
      BY <1>3 DEF ProtectionTimeout
    <2>2. ASSUME state = "Shutdown", NEW c \in asked \ unready
          PROVE  Follows(c, todo[c], IF c \in {} /\ stage[c] = "asked" THEN "talking" ELSE stage[c],
                         out[c], interacting, pending, d, answered \cup gaveUp')
      <3>1. Follows(c, todo[c], stage[c], out[c], interacting, pending, done,
                    answered \cup gaveUp)
        BY <2>2 DEF SaveInv, Bound
      <3>2. c \in d => c \in done \/ c \in answered \cup gaveUp'
        BY <2>1
      <3>3. c \in answered \cup gaveUp => c \in answered \cup gaveUp'
        BY <2>1
      <3>4. stage[c] = "talking" => interacting = c
        BY <3>1 DEF Follows
      <3> HIDE DEF d
      <3>5. Follows(c, todo[c], stage[c], out[c], interacting, pending, d, answered \cup gaveUp')
        BY <3>1, <3>2, <3>3, <3>4, FollowsBystander
      <3> QED
        BY <3>5
    <2>3. /\ clients \in SUBSET Clients /\ {} \in SUBSET clients /\ fresh \cap clients = {}
          /\ todo \in [Clients -> Seq(Kinds)] /\ out \in [Clients -> Seq(Messages)]
          /\ state = "Shutdown" => asked \subseteq clients
          /\ state = "WaitingForKNotify" => asked \subseteq answered \cup gaveUp' \cup unready
      BY <2>1 DEF SaveInv, SaveType, Bound, Served
    <2> HIDE DEF d
    <2> QED
      BY <1>1, <2>1, <2>2, <2>3, CompleteSaves
  <1> QED
    BY <1>2, <1>3

LEMMA NewClientSaves ==
    ASSUME SaveInv, NEW x \in Clients, NewClient(x)
    PROVE  SaveInv'
  <1>1. /\ x \in fresh /\ fresh' = fresh \ {x} /\ clients' = clients \cup {x}
        /\ todo' = [todo EXCEPT ![x] = <<"local">>]
        /\ UNCHANGED <<state, done, pending, interacting, stage, out, asked, answered, gaveUp,
                       unready>>
    BY DEF NewClient, flags, history
  <1>2. <<"local">> \in Seq(Kinds) /\ Len(<<"local">>) = 1
    BY DEF Kinds
  <1>3. x \notin clients
    BY <1>1 DEF SaveInv, SaveType
  <1>4. SaveType'
    BY <1>1, <1>2, <1>3 DEF SaveInv, SaveType
  <1>5. Bound'
    <2>1. state = "Shutdown" => \A c \in asked : c # x /\ todo'[c] = todo[c]
      BY <1>1, <1>3 DEF SaveInv, SaveType, Bound
    <2> QED
      BY <1>1, <2>1 DEF SaveInv, Bound
  <1> QED
    BY <1>1, <1>4, <1>5 DEF SaveInv, Served

LEMMA DeleteClientSaves ==
    ASSUME SaveInv, NEW x \in Clients, DeleteClient(x)
    PROVE  SaveInv'
  <1> DEFINE cs == clients \ {x}
             A == (answered \ {x}) \cup (gaveUp \ {x})
  <1>1. /\ clients' = cs
        /\ IF interacting = x
           THEN HandlePending(pending \ {x}, cs)
           ELSE pending' = pending \ {x} /\ UNCHANGED interacting
        /\ Complete(cs, done \ {x}, phase2 \ {x}, Granted)
        /\ todo' = [todo EXCEPT ![x] = <<>>]
        /\ asked' = asked \ {x} /\ answered' = answered \ {x} /\ gaveUp' = gaveUp \ {x}
        /\ unready' = unready \ {x}
        /\ UNCHANGED <<out, fresh>>
    BY DEF DeleteClient, bounds
  <1>2. /\ cs \in SUBSET Clients /\ fresh' \cap cs = {}
        /\ todo' \in [Clients -> Seq(Kinds)] /\ out' \in [Clients -> Seq(Messages)]
        /\ \A c \in cs : todo'[c] = todo[c]
    <2>1. <<>> \in Seq(Kinds)
      OBVIOUS
    <2> QED
      BY <1>1, <2>1 DEF SaveInv, SaveType
  <1>3. Granted \in SUBSET cs /\ (interacting # x => Granted = {})
    <2>1. CASE interacting = x
      BY <1>1, <2>1 DEF HandlePending, Granted
    <2>2. CASE interacting # x
      BY <1>1, <2>2 DEF Granted
    <2> QED
      BY <2>1, <2>2
  <1>4. state = "Shutdown" => asked' \subseteq cs
    BY <1>1 DEF SaveInv, Bound
  <1>5. ASSUME state = "Shutdown", NEW c \in asked' \ unready'
        PROVE  Follows(c, todo'[c],
                       IF c \in Granted /\ stage[c] = "asked" THEN "talking" ELSE stage[c],
                       out'[c], interacting', pending', done \ {x}, answered' \cup gaveUp')
    <2>1. c \in asked \ unready /\ c # x /\ c \in cs /\ c \in Clients
      BY <1>1, <1>2, <1>4, <1>5
    <2>2. Follows(c, todo[c], stage[c], out[c], interacting, pending, done,
                  answered \cup gaveUp)
      BY <1>5, <2>1 DEF SaveInv, Bound
    <2>3. stage[c] = "talking" => interacting = c
      BY <2>2 DEF Follows
    <2>4. /\ c \in pending \ {x} => c \in pending
          /\ c \in done \ {x} => c \in done \/ c \in A
          /\ c \in answered \cup gaveUp => c \in A
      BY <2>1
    <2> HIDE DEF A
    <2>5. Follows(c, todo[c], stage[c], out[c], interacting, pending \ {x}, done \ {x}, A)
      BY <2>2, <2>3, <2>4, FollowsBystander
    <2>6. todo'[c] = todo[c] /\ out'[c] = out[c] /\ out[c] \in Seq(Messages)
      BY <1>1, <1>2, <2>1
    <2>7. answered' \cup gaveUp' = A
      BY <1>1 DEF A
    <2>8. CASE interacting = x
      <3>1. stage[c] # "talking" /\ c # interacting
        BY <2>1, <2>3, <2>8
      <3>2. HandlePending(pending \ {x}, cs)
        BY <1>1, <2>8
      <3> HIDE DEF cs
      <3>3. Follows(c, todo[c],
                    IF c \in Granted /\ stage[c] = "asked" THEN "talking" ELSE stage[c],
                    out[c], interacting', pending', done \ {x}, A)
        BY <2>1, <2>5, <2>6, <3>1, <3>2, HandlePendingFollows
      <3> QED
        BY <2>6, <2>7, <3>3
    <2>9. CASE interacting # x
      <3>1. Granted = {} /\ interacting' = interacting /\ pending' = pending \ {x}
        BY <1>1, <1>3, <2>9
      <3> QED
        BY <2>5, <2>6, <2>7, <3>1
    <2> QED
      BY <2>8, <2>9
  <1>6. state = "WaitingForKNotify" => asked' \subseteq answered' \cup gaveUp' \cup unready'
    BY <1>1 DEF SaveInv, Served
  <1>7. \A c \in cs : Len(todo'[c]) = 0 => Len(todo[c]) = 0
    BY <1>2
  <1> HIDE DEF cs, A
  <1> QED
    BY <1>1, <1>2, <1>3, <1>4, <1>5, <1>6, <1>7, CompleteSaves

\* What a client x does on its own.
LEMMA ClientStepSaves ==
    ASSUME SaveInv, NEW x \in Clients, ClientStep(x)
    PROVE  SaveInv'
  <1> DEFINE t == todo[x]
             s == stage[x]
             o == out[x]
  <1>1. PICK m \in Messages, next \in Stages :
           /\ \/ /\ m = "interactRequest" /\ s = "saving" /\ next = "asked"
              \/ /\ m \in {"interactDone", "cancel"} /\ s = "talking" /\ next = "talked"
              \/ /\ m = "phase2Request" /\ s \in {"saving", "talked"} /\ next = "phase2asked"
              \/ /\ m = "saveYourselfDone" /\ s \in {"saving", "talked", "phase2"}
                 /\ next = "saving"
           /\ t # <<>>
           /\ answered' = IF m = "saveYourselfDone" /\ Head(t) = "shutdown"
                          THEN answered \cup {x} ELSE answered
           /\ todo' = [todo EXCEPT ![x] = IF m = "saveYourselfDone" THEN Tail(t) ELSE t]
           /\ stage' = [stage EXCEPT ![x] = next]
           /\ out' = [out EXCEPT ![x] = Append(o, m)]
    <2>1. todo = [todo EXCEPT ![x] = t]
      BY DEF SaveInv, SaveType
    <2>2. CASE RequestInteraction(x)
      BY <2>1, <2>2 DEF RequestInteraction, Working, Advance, Emit, history, Messages, Stages
    <2>3. CASE FinishInteraction(x)
      BY <2>1, <2>3 DEF FinishInteraction, Working, Advance, Emit, history, Messages, Stages
    <2>4. CASE RequestPhase2(x)
      BY <2>1, <2>4 DEF RequestPhase2, Working, Advance, Emit, history, Messages, Stages
    <2>5. CASE FinishSaving(x)
      BY <2>5 DEF FinishSaving, Working, Emit, Messages, Stages
    <2> QED
      BY <2>2, <2>3, <2>4, <2>5 DEF ClientStep
  <1> DEFINE t2 == IF m = "saveYourselfDone" THEN Tail(t) ELSE t
  <1>2. UNCHANGED <<state, clients, done, pending, interacting, fresh, asked, gaveUp, unready>>
    BY DEF ClientStep, RequestInteraction, FinishInteraction, RequestPhase2, FinishSaving,
           Advance, flags, bounds, history
  <1>3. /\ todo \in [Clients -> Seq(Kinds)] /\ out \in [Clients -> Seq(Messages)]
        /\ stage \in [Clients -> Stages] /\ t \in Seq(Kinds) /\ o \in Seq(Messages)
    BY DEF SaveInv, SaveType
  <1>4. /\ Len(t) \in Nat /\ Len(t) > 0 /\ Head(t) = t[1]
        /\ Tail(t) \in Seq(Kinds) /\ Len(Tail(t)) = Len(t) - 1
    BY <1>1, <1>3, EmptySeq, HeadTailProperties
  <1>5. /\ Append(o, m) \in Seq(Messages) /\ Len(Append(o, m)) = Len(o) + 1
        /\ Append(o, m)[Len(o) + 1] = m /\ Len(o) \in Nat
        /\ \A n \in 1..Len(o) : Append(o, m)[n] = o[n]
        /\ \A n \in 1..Len(Append(o, m)) : n \in 1..Len(o) \/ n = Len(o) + 1
    BY <1>3, AppendProperties
  <1>6. /\ todo'[x] = t2 /\ stage'[x] = next /\ out'[x] = Append(o, m)
        /\ \A c \in Clients \ {x} : /\ todo'[c] = todo[c] /\ stage'[c] = stage[c]
                                    /\ out'[c] = out[c]
    BY <1>1, <1>3
  <1>7. /\ t2 \in Seq(Kinds)
        /\ m # "saveYourselfDone" => Len(t2) = Len(t)
        /\ m = "saveYourselfDone" => Len(t2) = Len(t) - 1 /\ next = "saving"
    BY <1>1, <1>3, <1>4
  <1>8. SaveType'
    <2>1. todo' \in [Clients -> Seq(Kinds)]
      BY <1>1, <1>3, <1>7
    <2>2. stage' \in [Clients -> Stages]
      BY <1>1, <1>3
    <2>3. out' \in [Clients -> Seq(Messages)]
      BY <1>1, <1>3, <1>5
    <2>4. Len(t2) = 0 => next = "saving"
      BY <1>4, <1>7
    <2>5. ASSUME NEW c \in Clients, Len(todo'[c]) = 0 PROVE stage'[c] = "saving"
      BY <1>6, <2>4, <2>5 DEF SaveInv, SaveType
    <2> QED
      BY <1>2, <2>1, <2>2, <2>3, <2>5 DEF SaveInv, SaveType
  <1>9. ASSUME state = "Shutdown", x \in asked \ unready
        PROVE  Follows(x, t2, next, Append(o, m), interacting, pending, done,
                       answered' \cup gaveUp)
    <2> DEFINE A == answered \cup gaveUp
               A2 == answered' \cup gaveUp
    <2>1. Follows(x, t, s, o, interacting, pending, done, A)
      BY <1>9 DEF SaveInv, Bound
    <2> HIDE DEF t, s, o
    <2>2. Len(t) = 1 /\ t[1] = "shutdown" /\ (s = "saving" => Len(o) = 0)
      <3>1. Len(t) <= 1
        BY <2>1 DEF Follows
      <3>2. Len(t) = 1
        BY <1>4, <3>1
      <3> QED
        BY <2>1, <3>2 DEF Follows
    <2>3. A \subseteq A2 /\ (m = "saveYourselfDone" => x \in A2)
      BY <1>1, <1>4, <2>2
    <2>4. Len(t2) <= 1 /\ (Len(t2) = 1 => t2[1] = "shutdown") /\ ~(next = "saving" /\ Len(t2) = 1)
      <3>1. CASE m = "saveYourselfDone"
        <4>1. Len(t2) = 0
          BY <1>7, <2>2, <3>1
        <4> HIDE DEF t2
        <4> QED
          BY <4>1
      <3>2. CASE m # "saveYourselfDone"
        <4>1. t2 = t /\ next # "saving"
          BY <1>1, <3>2
        <4> HIDE DEF t2
        <4>2. Len(t2) = 1 /\ t2[1] = "shutdown"
          BY <2>2, <4>1
        <4> QED
          BY <4>1, <4>2
      <3> QED
        BY <3>1, <3>2
    <2>5. s # "asked" /\ x \notin pending /\ next # "talking"
      BY <1>1, <2>1 DEF Follows
    <2>6. next = "asked" => Len(Append(o, m)) <= 1
      BY <1>1, <1>5, <2>2
    <2>7. \A n \in 1..Len(o) : /\ o[n] # "interactRequest"
                               /\ o[n] = "saveYourselfDone" => x \in A
      BY <2>1, <2>5 DEF Follows
    <2>8. m = "interactRequest" => next = "asked"
      BY <1>1
    <2>9. x \in done => x \in A
      BY <2>1 DEF Follows
    <2> HIDE DEF A, A2
    <2>10. \A n \in 1..Len(Append(o, m)) :
              /\ Append(o, m)[n] = "interactRequest" => next = "asked"
              /\ Append(o, m)[n] = "saveYourselfDone" => x \in A2
      BY <1>5, <2>3, <2>7, <2>8
    <2>11. Follows(x, t2, next, Append(o, m), interacting, pending, done, A2)
      BY <2>3, <2>4, <2>5, <2>6, <2>9, <2>10 DEF Follows
    <2> QED
      BY <2>11 DEF A2
  <1>10. answered \subseteq answered'
    BY <1>1
  <1>11. Bound'
    <2>1. SUFFICES ASSUME state = "Shutdown"
                   PROVE  \A c \in asked \ unready :
                             Follows(c, todo'[c], stage'[c], out'[c], interacting, pending, done,
                                     answered' \cup gaveUp)
      BY <1>2 DEF SaveInv, Bound
    <2>2. ASSUME NEW c \in asked \ unready
          PROVE  Follows(c, todo'[c], stage'[c], out'[c], interacting, pending, done,
                         answered' \cup gaveUp)
      <3>1. CASE c = x
        BY <1>6, <1>9, <2>1, <2>2, <3>1
      <3>2. CASE c # x
        <4>1. c \in Clients /\ Follows(c, todo[c], stage[c], out[c], interacting, pending, done,
                                       answered \cup gaveUp)
          BY <2>1, <2>2 DEF SaveInv, SaveType, Bound
        <4>2. stage[c] = "talking" => interacting = c
          BY <4>1 DEF Follows
        <4>3. c \in answered \cup gaveUp => c \in answered' \cup gaveUp
          BY <1>10
        <4>4. Follows(c, todo[c], stage[c], out[c], interacting, pending, done,
                      answered' \cup gaveUp)
          BY <4>1, <4>2, <4>3, FollowsBystander
        <4> QED
          BY <1>6, <3>2, <4>1, <4>4
      <3> QED
        BY <3>1, <3>2
    <2> QED
      BY <2>2
  <1>12. Served'
    BY <1>2, <1>10 DEF SaveInv, Served
  <1> QED
    BY <1>8, <1>11, <1>12 DEF SaveInv

LEMMA NextSaves == SaveInv /\ [Next]_vars => SaveInv'
  <1> SUFFICES ASSUME SaveInv, [Next]_vars PROVE SaveInv'
    OBVIOUS
  <1>1. CASE CloseSession \/ SaveCurrentSession \/ RestoreSession \/ WindowsClosed \/ ResetLogout
    BY <1>1, RequestsSave
  <1>2. CASE Callback
    BY <1>2, RequestsSave, ProtectionTimeoutSaves DEF Callback
  <1>3. ASSUME NEW c \in Clients, HandleMessage(c) PROVE SaveInv'
    BY <1>3, MessagesSave
  <1>4. ASSUME NEW c \in Clients, ClientStep(c) PROVE SaveInv'
    BY <1>4, ClientStepSaves
  <1>5. ASSUME NEW c \in Clients, NewClient(c) \/ DeleteClient(c) PROVE SaveInv'
    BY <1>5, NewClientSaves, DeleteClientSaves
  <1>6. CASE UNCHANGED vars
    BY <1>6, AsideSaves DEF vars, flags, client, bounds, history
  <1> QED
    BY <1>1, <1>2, <1>3, <1>4, <1>5, <1>6 DEF Next

\* In every execution, a client that follows the protocol and was told to go ahead with
\* its dialog is the one that clientInteracting points to until it is done: dialogs are
\* shown one at a time (interactRequest, handlePendingInteractions, deleteClient).
THEOREM OneDialogHolds == Spec => []OneDialog
  <1>1. SaveInv => OneDialog
    BY DEF SaveInv, Bound, Follows, OneDialog
  <1> QED
    BY <1>1, SaveInitially, NextSaves, PTL DEF Spec

\* As long as no logout is abandoned with callbacks of it to come, startKilling finds
\* every client that performLogout asked to save itself saved or given up, unless it
\* still owed the answer to an older request (completeShutdownOrCheckpoint,
\* protectionTimeout, startKilling).
THEOREM SavedBeforeKilledHolds ==
    ASSUME ~Leftovers
    PROVE  Spec => SavedBeforeKilled
  <1>1. KillInv /\ [Next]_vars => KillInv'
    BY NextPreserves, StutterPreserves
  <1>2. KillInv /\ SaveInv /\ [Next]_vars =>
          [state' = "Killing" /\ state # "Killing" =>
              asked \subseteq answered \cup gaveUp \cup unready]_vars
    BY NextPreserves DEF KillStep, SaveInv, Served, Next, Running
  <1> QED
    BY <1>1, <1>2, KillInvInitially, SaveInitially, NextSaves, PTL DEF Spec, SavedBeforeKilled

==============================================================================
