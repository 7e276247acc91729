----------------------------- MODULE OneAtATime -----------------------------
(***************************************************************************)
(* What `operations` promises about the scheduled sources of the portal,   *)
(* with nothing of how it keeps it: each source is either being brought or *)
(* it is not, nobody starts it while it is, and whatever was started ends  *)
(* up closed, so that the source can be asked for again.                   *)
(***************************************************************************)
EXTENDS Naturals

CONSTANT Jobs

VARIABLES
    open,    \* sources being brought right now
    opened   \* how many times any of them was started

Init == open = {} /\ opened = 0

Open(j) ==
    /\ j \notin open
    /\ open' = open \cup {j}
    /\ opened' = opened + 1

Close(j) ==
    /\ j \in open
    /\ open' = open \ {j}
    /\ UNCHANGED opened

Next == \E j \in Jobs : Open(j) \/ Close(j)

Spec == Init /\ [][Next]_<<open, opened>>

\* Nothing stays open for ever.
FairSpec == Spec /\ \A j \in Jobs : WF_<<open, opened>>(Close(j))
==============================================================================
