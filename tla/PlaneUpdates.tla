---------------------------- MODULE PlaneUpdates ----------------------------
(***************************************************************************)
(* What the commit thread of an output promises to those who hand it       *)
(* commits.  Every plane has a mailbox of contents, numbered in the order  *)
(* they were added.  The plane shows them in that order, one page flip at  *)
(* a time; contents may be skipped in favour of a later one, but the last  *)
(* one stays until it is shown, unless the kernel refuses a commit or the  *)
(* output goes away.  Queues, merging, threads and waiting are not visible *)
(* here.                                                                   *)
(***************************************************************************)
EXTENDS Naturals

CONSTANT Planes   (* the planes of the output                               *)

VARIABLES
    mailbox,    \* contents added for each plane and neither shown nor skipped
    newest,     \* the content last added for each plane
    screen,     \* the content each plane shows
    flipping,   \* a page flip is outstanding
    lossless    \* nothing had to be given up so far

vars == <<mailbox, newest, screen, flipping, lossless>>

Init ==
    /\ mailbox = [p \in Planes |-> {}]
    /\ newest = [p \in Planes |-> 0]
    /\ screen = [p \in Planes |-> 0]
    /\ flipping = FALSE
    /\ lossless = TRUE

\* A content for the planes S, newer than all there are.
Add(S) ==
    /\ newest' \in [Planes -> Nat]
    /\ \A p \in S : /\ \A q \in Planes : newest'[p] > newest[q]
                    /\ \A q \in S : newest'[p] = newest'[q]
    /\ \A p \in Planes \ S : newest'[p] = newest[p]
    /\ mailbox' = [p \in Planes |->
                     IF p \in S THEN mailbox[p] \cup {newest'[p]} ELSE mailbox[p]]
    /\ UNCHANGED <<screen, flipping, lossless>>

\* Contents give way to later ones.
Skip ==
    /\ DOMAIN mailbox' = Planes
    /\ \A p \in Planes :
          /\ mailbox'[p] \subseteq mailbox[p]
          /\ \A x \in mailbox[p] : \E y \in mailbox'[p] : x <= y
    /\ UNCHANGED <<newest, screen, flipping, lossless>>

\* The planes S show their next contents.
Present(S) ==
    /\ ~flipping
    /\ flipping' = TRUE
    /\ \A p \in S : /\ screen'[p] \in mailbox[p]
                    /\ \A x \in mailbox[p] : screen'[p] <= x
    /\ screen' = [p \in Planes |-> IF p \in S THEN screen'[p] ELSE screen[p]]
    /\ mailbox' = [p \in Planes |->
                     IF p \in S THEN mailbox[p] \ {screen'[p]} ELSE mailbox[p]]
    /\ UNCHANGED <<newest, lossless>>

\* The page flip has been reported.
Finish ==
    /\ flipping
    /\ flipping' = FALSE
    /\ UNCHANGED <<mailbox, newest, screen, lossless>>

\* Contents are given up.
Lose ==
    /\ DOMAIN mailbox' = Planes
    /\ \A p \in Planes : mailbox'[p] \subseteq mailbox[p]
    /\ lossless' = FALSE
    /\ UNCHANGED <<newest, screen, flipping>>

Next ==
    \/ \E S \in SUBSET Planes \ {{}} : Add(S)
    \/ \E S \in SUBSET Planes : Present(S)
    \/ Skip \/ Finish \/ Lose

Spec == Init /\ [][Next]_vars
=============================================================================
