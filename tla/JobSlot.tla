------------------------------ MODULE JobSlot ------------------------------
(* What the helper promises about package jobs, whatever its mechanism: a    *)
(* managed host has one slot for package work. A job enters the slot only    *)
(* when it is empty, a job name is used once, and the slot empties when the  *)
(* job ends, or when the host restarts.                                      *)
CONSTANT Units

VARIABLES working,   \* the jobs doing package work now
          used       \* every job name ever launched

slot == <<working, used>>

Init == working = {} /\ used = {}

Start(u) ==
    /\ working = {}
    /\ u \notin used
    /\ working' = {u}
    /\ used' = used \cup {u}

End ==
    /\ working # {}
    /\ working' = {}
    /\ UNCHANGED used

Next == End \/ \E u \in Units : Start(u)

Spec == Init /\ [][Next]_slot
=============================================================================
