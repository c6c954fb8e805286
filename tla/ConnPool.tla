------------------------------- MODULE ConnPool -------------------------------
(***************************************************************************)
(* What the connection table promises to a MATLAB program, without         *)
(* structures, pings or calls: a set of numbered slots, each of which is   *)
(* in use or not.  A slot in use belongs to one session from the moment it *)
(* comes into use; it goes out of use because the program says so, or      *)
(* because the session has ended; and a session the servers keep is always *)
(* that of a slot in use, or the one a new slot is about to get.           *)
(***************************************************************************)
CONSTANTS Slot, Session, NULL

VARIABLES
    up,        \* the slots in use
    link,      \* link[i]: the session slot i uses, NULL once it is known to be lost
    pend,      \* the session that was granted and has no slot yet
    live       \* the sessions the servers keep

vars == <<up, link, pend, live>>

Init ==
    /\ up = {}
    /\ link = [i \in Slot |-> NULL]
    /\ pend = NULL
    /\ live = {}

Grant(s) ==
    /\ pend = NULL
    /\ s \notin live
    /\ \A i \in Slot : link[i] # s
    /\ pend' = s
    /\ live' = live \cup {s}
    /\ UNCHANGED <<up, link>>

ComeUp(i) ==
    /\ i \notin up
    /\ pend \in live
    /\ up' = up \cup {i}
    /\ link' = [link EXCEPT ![i] = pend]
    /\ pend' = NULL
    /\ UNCHANGED live

GiveUp ==
    /\ pend # NULL
    /\ pend \notin live
    /\ pend' = NULL
    /\ UNCHANGED <<up, link, live>>

\* The program closes one slot, or all of them.
Shut(is) ==
    /\ is = up \/ \E i \in up : is = {i}
    /\ up' = up \ is
    /\ link' = [i \in Slot |-> IF i \in is THEN NULL ELSE link[i]]
    /\ live' = live \ {link[i] : i \in is}
    /\ UNCHANGED pend

\* A slot whose session has ended loses its link, and goes out of use then
\* or later.
Lose(i) ==
    /\ i \in up
    /\ link[i] \notin live
    /\ link' = [link EXCEPT ![i] = NULL]
    /\ up' \in {up, up \ {i}}
    /\ UNCHANGED <<pend, live>>

Drop(s) ==
    /\ s \in live
    /\ live' = live \ {s}
    /\ UNCHANGED <<up, link, pend>>

Restart ==
    /\ up' = {}
    /\ link' = [i \in Slot |-> NULL]
    /\ pend' = NULL
    /\ live' = {}

Next ==
    \/ \E s \in Session : Grant(s) \/ Drop(s)
    \/ \E i \in Slot : ComeUp(i) \/ Lose(i)
    \/ \E is \in SUBSET Slot : Shut(is)
    \/ GiveUp
    \/ Restart

Spec == Init /\ [][Next]_vars
=============================================================================
